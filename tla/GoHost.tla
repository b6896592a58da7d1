------------------------------- MODULE GoHost -------------------------------
(***************************************************************************)
(* A Node under a scheduler, the host of clustervms-go: a name of which    *)
(* the cluster keeps the configuration and an epoch, and the processes     *)
(* that go by it, one per server. A process learns who it is, restores     *)
(* what was published, takes the next epoch, and then runs one goroutine   *)
(* per concern: reconcile, report, publish and lease. They share the host  *)
(* and its mutex, which the lease itself is not under.                     *)
(*                                                                         *)
(* A camera's row is the sequence of the servers it was edited on: its     *)
(* length is the revision. A camera that may not be tried yet is one whose *)
(* start fails. The floor of the publisher and the interval of each        *)
(* goroutine are any time. The heartbeat, the conditions other than        *)
(* replicated, the re-index sweep and the column key are left out.         *)
(*                                                                         *)
(* The publisher, the dump and the restore were ported from Python         *)
(* (clustervms/cluster/publish.py, configio.py), step by step, and the     *)
(* definitions that model them stand for both.                             *)
(***************************************************************************)
EXTENDS FiniteSetsExt, Sequences, Integers

CONSTANTS Servers, Feeds,      \* servers and cameras
          MaxStarts,           \* bound on the processes the scheduler starts
          MaxTroubles          \* bound on the edits of operators and the times a server is cut off

ASSUME GoAssumption ==
  /\ IsFiniteSet(Feeds) /\ Feeds # {}
  /\ MaxStarts \in Nat /\ MaxTroubles \in Nat

VARIABLES table,     \* the database of each server
          objects,   \* <node>/rev-<n> in the object store
          entry,  \* the Variable nodes/<node>: the revision it names, 0 for none, and its ModifyIndex
          issued,   \* the Variable nodes/<node>/epoch
          host,     \* the process on each server
          cutOff,   \* the servers that reach neither Variables nor objects
          tally  \* how often each of the bounded things happened
directoryVars == <<objects, entry, issued>>
goVars == <<table, directoryVars, host, cutOff, tally>>

\* One server had been configured before the name was given to the cluster.
Old == "before"
Veteran == CHOOSE s \in Servers : TRUE
NoRows == [c \in Feeds |-> <<>>]
\* COALESCE(MAX(revision), 0), of the table and of an object.
Rev(config) == Max({Len(config[c]) : c \in Feeds})
\* FetchDesired, as the reconciler reads it: the revision of each camera there is.
Wanted(config) == [c \in Feeds |-> Len(config[c])]

Down == [at |-> "down",          \* or the step of the prologue, "run", "stopping"
         published |-> 0,        \* the revision its Variable named, then PublishedRev
         epoch |-> 0,
         open |-> TRUE,          \* RecordingAllowed
         fenced |-> FALSE, fresh |-> FALSE,      \* the lease; fresh: it has not run out
         running |-> {},         \* the actuator's pipelines
         actual |-> [c \in Feeds |-> 0],         \* what the reconciler applied
         pass |-> "idle", want |-> [c \in Feeds |-> 0], todo |-> {},
         lease |-> "idle",
         pub |-> "idle", rev |-> 0, index |-> 0]

GoInit ==
  /\ table = [s \in Servers |-> IF s = Veteran THEN [c \in Feeds |-> <<Old>>] ELSE NoRows]
  /\ objects = {} /\ entry = [rev |-> 0, index |-> 0] /\ issued = 0
  /\ host = [s \in Servers |-> Down]
  /\ cutOff = {}
  /\ tally = [starts |-> 0, troubles |-> 0]

Connected(s) == s \notin cutOff
Set(s, h) == host' = [host EXCEPT ![s] = h]
Runs(s) == host[s].at \in {"run", "stopping"}
\* h.mu is held by a pass from its lock to its end.
MutexFree(s) == host[s].pass = "idle"
MayWrite(s) == ~host[s].fenced /\ host[s].fresh
Bounded(what, bound) == tally[what] < bound /\ tally' = [tally EXCEPT ![what] = @ + 1]

-----------------------------------------------------------------------------
(* The prologue. A step that cannot reach the cluster ends the process.    *)
Prologue(s, from, h) ==
  /\ host[s].at = from
  /\ Set(s, IF Connected(s) THEN h ELSE Down)
  /\ UNCHANGED <<cutOff, tally>>

\* FromEnvironment: the Variable, rather than what the template rendered.
Identify(s) ==
  /\ Prologue(s, "identity", [host[s] EXCEPT !.at = "rehydrate", !.published = entry.rev])
  /\ UNCHANGED <<table, directoryVars>>

\* Rehydrate: what is here stays; a node nobody has seen invents nothing.
NothingToRestore(s) == table[s] # NoRows \/ host[s].published = 0
Fetched(key) == {o \in objects : o.key = key}
NamedObject(s) == {o \in Fetched(host[s].published) : Rev(o.config) = host[s].published}
KeepRows(s) ==
  /\ host[s].at = "rehydrate" /\ NothingToRestore(s)
  /\ Set(s, [host[s] EXCEPT !.at = "epoch"])
  /\ UNCHANGED <<table, directoryVars, cutOff, tally>>
Restore(s) ==
  /\ ~NothingToRestore(s) /\ NamedObject(s) # {}
  /\ Prologue(s, "rehydrate", [host[s] EXCEPT !.at = "epoch"])
  /\ \E o \in NamedObject(s) : table' = [table EXCEPT ![s] = IF Connected(s) THEN o.config ELSE @]
  /\ UNCHANGED directoryVars
\* No such object, or one of another revision: refused, and a human must look.
Refuse(s) ==
  /\ ~NothingToRestore(s) /\ NamedObject(s) = {}
  /\ Prologue(s, "rehydrate", Down)
  /\ UNCHANGED <<table, directoryVars>>

\* NextEpoch: nothing else writes the Variable, its index moves with the number.
ReadEpoch(s) ==
  /\ Prologue(s, "epoch", [host[s] EXCEPT !.at = "claim", !.epoch = issued])
  /\ UNCHANGED <<table, directoryVars>>
Claimed(s) == [host[s] EXCEPT !.at = "run", !.epoch = @ + 1, !.fresh = TRUE]
\* As a bug: the Variable is put without an index.
ClaimBlind(s) ==
  /\ Prologue(s, "claim", Claimed(s))
  /\ issued' = IF Connected(s) THEN host[s].epoch + 1 ELSE issued
  /\ UNCHANGED <<table, objects, entry>>
ClaimEpoch(s) ==
  /\ Prologue(s, "claim", IF issued = host[s].epoch THEN Claimed(s) ELSE [host[s] EXCEPT !.at = "epoch"])
  /\ issued' = IF Connected(s) /\ issued = host[s].epoch THEN issued + 1 ELSE issued
  /\ UNCHANGED <<table, objects, entry>>

-----------------------------------------------------------------------------
(* Reconcile *)
Round(s, h) == Runs(s) /\ Set(s, h) /\ UNCHANGED <<table, directoryVars, cutOff, tally>>

\* ReconcileOnce: the rows are read, and then the mutex is taken.
BeginPass(s) ==
  /\ MutexFree(s)
  /\ LET want == Wanted(table[s])
     IN Round(s, [host[s] EXCEPT !.pass = "looking", !.want = want,
                                 !.todo = {c \in Feeds : want[c] > host[s].actual[c]}])

\* actuate: the gate is looked at before the actuator is asked.
LookAtGate(s) ==
  /\ host[s].pass = "looking" /\ host[s].todo # {}
  /\ \E c \in host[s].todo :
       Round(s, IF host[s].open /\ MayWrite(s) THEN [host[s] EXCEPT !.pass = "starting"]
               ELSE [host[s] EXCEPT !.todo = @ \ {c}])

\* start or restart, which may fail: a failed restart leaves nothing running.
StartFeed(s) ==
  /\ host[s].pass = "starting"
  /\ \E c \in host[s].todo, ok \in BOOLEAN :
       Round(s, [host[s] EXCEPT !.pass = "looking", !.todo = @ \ {c},
                               !.running = IF ok THEN @ \cup {c} ELSE @ \ {c},
                               !.actual[c] = IF ok THEN host[s].want[c] ELSE @])

\* The stop loop walks what is applied, and the mutex is given back.
EndPass(s) ==
  /\ host[s].pass = "looking" /\ host[s].todo = {}
  /\ Round(s, LET gone == {c \in Feeds : host[s].want[c] = 0}
             IN [host[s] EXCEPT !.pass = "idle", !.want = Down.want, !.running = @ \ gone,
                                !.actual = [c \in Feeds |-> IF c \in gone THEN 0 ELSE @[c]]])

-----------------------------------------------------------------------------
(* Lease *)

\* Renew, without the mutex: a read of the epoch; a failed one leaves the lease to the clock.
Renewed(s) ==
  IF ~Connected(s) THEN host[s]
  ELSE IF issued # host[s].epoch THEN [host[s] EXCEPT !.fenced = TRUE, !.fresh = FALSE] ELSE [host[s] EXCEPT !.fresh = TRUE]
RenewLease(s) ==
  /\ host[s].lease = "idle"
  /\ LET h == IF host[s].fenced THEN host[s] ELSE Renewed(s)
     IN Round(s, IF h.fenced \/ ~h.fresh THEN [h EXCEPT !.lease = "fence"] ELSE h)

Stopped(h) == [h EXCEPT !.open = FALSE, !.running = {}, !.actual = [c \in Feeds |-> 0]]
\* As a bug: without the mutex.
FenceAtOnce(s) ==
  /\ host[s].lease = "fence"
  /\ Round(s, [(IF host[s].open THEN Stopped(host[s]) ELSE host[s]) EXCEPT !.lease = "idle"])
\* Fence: once, under the mutex, everything stops; nothing opens the gate again.
FenceHost(s) ==
  /\ host[s].lease = "fence" /\ MutexFree(s)
  /\ Round(s, [(IF host[s].open THEN Stopped(host[s]) ELSE host[s]) EXCEPT !.lease = "idle"])

\* now - last_renewal reaches TTL - margin.
LeaseRunsOut(s) == host[s].fresh /\ Round(s, [host[s] EXCEPT !.fresh = FALSE])

-----------------------------------------------------------------------------
(* Publish *)

\* PublishOnce: the local revision moved past what the directory holds.
Publishing(s) ==
  /\ host[s].pub = "idle" /\ Rev(table[s]) > host[s].published
  /\ Round(s, [host[s] EXCEPT !.pub = "object", !.rev = Rev(table[s])])

PublishStep(s, from, h) ==
  /\ Runs(s) /\ host[s].pub = from /\ Connected(s)
  /\ Set(s, h)
  /\ UNCHANGED <<table, issued, cutOff, tally>>

\* DumpConfig, under the name PublishOnce gives it.
Dump(s) == [key |-> host[s].rev, config |-> table[s]]
\* A row that was put since it was read does not take the value: 409.
Unmoved(s) == entry.index = host[s].index

\* 1. the dump, under the revision read before it, and the pointer as it is,
PutObject(s) ==
  /\ PublishStep(s, "object", [host[s] EXCEPT !.pub = "point", !.index = entry.index])
  /\ objects' = (objects \ Fetched(host[s].rev)) \cup {Dump(s)}
  /\ UNCHANGED entry
\* 2. then the pointer, by that index.
Point(s) ==
  /\ Unmoved(s)
  /\ PublishStep(s, "point", [host[s] EXCEPT !.pub = "idle", !.rev = 0, !.index = 0, !.published = host[s].rev])
  /\ entry' = [rev |-> host[s].rev, index |-> entry.index + 1]
  /\ UNCHANGED objects
\* A conflict, or a call that does not get through: the next tick tries again.
PublishAgain(s) ==
  /\ host[s].pub # "idle"
  /\ Connected(s) => host[s].pub = "point" /\ ~Unmoved(s)
  /\ Round(s, [host[s] EXCEPT !.pub = "idle", !.rev = 0, !.index = 0])

-----------------------------------------------------------------------------
(* Report, and the life of a process *)

\* ReportOnce writes this, in the condition replicated, whenever it gets the mutex.
Replicated(s) == Runs(s) /\ MutexFree(s) /\ Rev(table[s]) <= host[s].published

\* The scheduler starts a process, on this server while it may still run on another.
StartHost(s) ==
  /\ host[s].at = "down" /\ Bounded("starts", MaxStarts)
  /\ Set(s, [Down EXCEPT !.at = "identity"])
  /\ UNCHANGED <<table, directoryVars, cutOff>>
\* SIGTERM. StopAll is not under the mutex, and each goroutine may go round once more,
StopHost(s) ==
  /\ host[s].at = "run"
  /\ Round(s, [host[s] EXCEPT !.at = "stopping", !.running = {}])
\* with a last publication, whoever holds the epoch by now; and a kill at any time.
EndHost(s) ==
  /\ host[s].at # "down"
  /\ Set(s, Down) /\ UNCHANGED <<table, directoryVars, cutOff, tally>>

\* An operator edits a camera, or removes it: the trigger counts by camera.
EditRow(s, c) ==
  /\ Runs(s) /\ Bounded("troubles", MaxTroubles)
  /\ \/ table' = [table EXCEPT ![s][c] = Append(@, s)]
     \/ table[s][c] # <<>> /\ table' = [table EXCEPT ![s][c] = <<>>]
  /\ UNCHANGED <<directoryVars, host, cutOff>>

CutOff(s) ==
  /\ Connected(s) /\ Bounded("troubles", MaxTroubles)
  /\ cutOff' = cutOff \cup {s} /\ UNCHANGED <<table, directoryVars, host>>
Back(s) ==
  /\ ~Connected(s) /\ cutOff' = cutOff \ {s}
  /\ UNCHANGED <<table, directoryVars, host, tally>>

GoPass(s) == LookAtGate(s) \/ StartFeed(s) \/ EndPass(s)
GoNext == \E s \in Servers :
  \/ Identify(s) \/ KeepRows(s) \/ Restore(s) \/ Refuse(s) \/ ReadEpoch(s) \/ ClaimEpoch(s)
  \/ BeginPass(s) \/ GoPass(s) \/ RenewLease(s) \/ FenceHost(s) \/ LeaseRunsOut(s)
  \/ Publishing(s) \/ PutObject(s) \/ Point(s) \/ PublishAgain(s)
  \/ StartHost(s) \/ StopHost(s) \/ EndHost(s) \/ CutOff(s) \/ Back(s)
  \/ \E c \in Feeds : EditRow(s, c)

GoSpec == GoInit /\ [][GoNext]_goVars

\* The lease goroutine runs, a pass ends, and who waits for a Go mutex gets it;
\* a lease that cannot be renewed runs out.
GoFairness == \A s \in Servers :
  /\ WF_goVars(GoPass(s)) /\ WF_goVars(RenewLease(s)) /\ SF_goVars(FenceHost(s))
  /\ WF_goVars(~Connected(s) /\ LeaseRunsOut(s))

-----------------------------------------------------------------------------
(* Properties *)
Configs == [Feeds -> Seq(Servers \cup {Old})]
StoreType ==
  /\ table \in [Servers -> Configs]
  /\ objects \subseteq [key : Nat \ {0}, config : Configs]
  /\ entry \in [rev : Nat, index : Nat] /\ issued \in Nat
  /\ cutOff \subseteq Servers
  /\ tally \in [starts : Nat, troubles : Nat]
HostType ==
  [at : {"down", "identity", "rehydrate", "epoch", "claim", "run", "stopping"},
   published : Nat, epoch : Nat,
   open : BOOLEAN, fenced : BOOLEAN, fresh : BOOLEAN,
   running : SUBSET Feeds, actual : [Feeds -> Nat],
   pass : {"idle", "looking", "starting"}, want : [Feeds -> Nat], todo : SUBSET Feeds,
   lease : {"idle", "fence"},
   pub : {"idle", "object", "point"}, rev : Nat, index : Nat]
\* Nobody goes by a number that was not issued, and nothing is published under 0.
GoTypeOK ==
  /\ StoreType
  /\ host \in [Servers -> HostType]
  /\ \A s \in Servers :
       /\ host[s].epoch <= issued
       /\ Runs(s) => host[s].epoch > 0
       /\ host[s].pub # "idle" => host[s].rev > 0

\* "Nobody ever receives the same number" (epoch.go): two processes that run never
\* go by one epoch.
EpochsAreOwn == \A s, t \in Servers : s # t /\ Runs(s) /\ Runs(t) => host[s].epoch # host[t].epoch

\* "Fence stops everything" (apphost.go), also what a pass was about to start: once
\* the gate is shut no pipeline runs.
FencedStaysQuiet == \A s \in Servers : ~host[s].open => host[s].running = {}

\* What makes it so: a pass that has looked at the gate keeps the mutex, and Fence
\* waits for it.
StartsUnderTheGate == \A s \in Servers : host[s].pass = "starting" => host[s].open

\* "The lease that fences the zombie": of all the processes that were ever started
\* for a name, cut off or not, one at most goes on recording (NextEpoch, Renew, Fence).
OneInstanceRecords == <>[](Cardinality({s \in Servers : host[s].running # {}}) <= 1)

\* "acknowledge on local commit, and SHOW durability: the replicated condition"
\* (publish.go): when the holder of the epoch shows replicated, what a replacement
\* would restore is its configuration.
ReplicatedIsRestorable ==
  \A s \in Servers :
    Replicated(s) /\ host[s].epoch = issued /\ table[s] # NoRows
      => [key |-> entry.rev, config |-> table[s]] \in objects

\* Inductive.
GoInv == GoTypeOK /\ EpochsAreOwn /\ FencedStaysQuiet /\ StartsUnderTheGate
=============================================================================
