# A formal model of the edge VMS

This directory holds TLA+ modules, TLC configurations and TLAPS proofs for the
course's video management system: the ServerVMS of `М10_ServerVMS/vmsserver`,
the cluster (`М11`) and the domain (`М12`) built around it, and the Node (`М9`)
and recorder (`М8`) at the edge. Paths below are relative to `src/`; `vms/` and
`vmsplatform/` stand for the packages of `М10_ServerVMS/vmsserver`, `domain/` for
`М12_DomainVMS/domainvms/domain`, `clustervms-go/` for `М11_ClusterVMS/clustervms-go`.

1. Inventory of the system
2. What is modelled, and how it corresponds to the code
3. The runs
4. Where the code and its documentation disagree
5. Fairness
6. The proofs
7. What is not modelled, and what would come next

## 1. Inventory

### 1.1 Platform (`vmsplatform/`)

| component | state | operations | hard behaviour | correct when |
|---|---|---|---|---|
| configuration store, `variables.py` | one JSON file per path, `.index`, `.lock` | `get`, `put(cas)`, `delete`, `list` | several processes; a kill between drawing an index and the rename, or between a removal and the next index | it is one linearizable row per path; an index names one write for ever; the lock is never left held |
| read-modify-write and epochs, `contract.py` `Controller.write`, `epoch.py` `next_epoch` | nothing | get, compute, put with the index read, retry on a conflict | any number of writers; a put whose answer is lost; giving up | each call applies its function once, to the row as it stands; contention alone never stops everybody |
| worker contract, `contract.py` `Worker`, `epoch.py` `Lease` | name, epochs and leases of the process; the slot row in the store | `claim_slot`, `renew_slot`, `release_slot`, `take_epoch`, `may_write`, `renew_leases`, `release`, `heartbeat` | a paused holder and its replacement under one name; leases that run out while the store is away; an operator's `retire` between a read and a write | nobody ever writes under an epoch that somebody else writes under |
| controller contract, `contract.py` `Controller` | rows in the store only | `assign_add`, `assign_remove`, `assignments`, `released_slots`, `retire`, `workers_seen` | two controllers, stale reads | see 1.2 |
| events and their index, `events.py`, `eventindex.py` | buckets of lines; SQLite | `append`, `tail`, `rebuild`, `query` | a bucket read while it grows; a server silent and back; rebuild beside tail | no event is in the index twice; what stays readable is indexed |
| object resource, `resource.py`, `objects.py` | mirror of the archive, retention rows | `mirror`, `restore`, `retain`, `pass_` | passes of several servers that stop in the middle; a disk lost | a copy is whole; what was mirrored comes back |

### 1.2 Server (`vms/`, `gstvms/`)

| component | state | operations | hard behaviour | correct when |
|---|---|---|---|---|
| worker, `worker.py`, `reconciler.py` | running pipelines and their revisions, failures and backoff, `fenced_reason` | `refresh`, `reconcile`, `pump_once`, `lease_pass`, `fence`, `heartbeat_once`, `run` | everything may change between two calls to the store; the store may go away in the middle of a pass; a fence in the middle of a loop | a superseded process stops; a fence is final; a camera on a live name's list is recorded again |
| controller, `controller.py`, `__main__.py` | none of its own: camera, placement, retention and assignment rows | `create/update/delete_camera`, `place`, `ensure_placed`, `move`, `redistribute`, `rebalance` | decisions taken from rows read one at a time; a death between two rows of one decision; console threads beside the loop; a second controller during a reschedule | the assignment follows the row; a camera is on one list; a released slot is emptied |
| archive, `archive.py` | spool, archive tree, manifest per bucket | `promote`, `close_buckets`, `repair`, `retain` | rename and manifest line are two steps; rewrites of the manifest beside appends; a copy to another filesystem | no footage is lost on its way; the manifest heals |
| console, `console.py`, `config.py` | idempotency keys | HTTP requests onto the controller | requests run beside the loop | a repeated request has one effect |
| actuator, `gstvms/` | one GStreamer pipeline per camera, list of dead ones | start, stop, `dead()` | errors arrive on a bus thread | an error ends the pipeline it came from |

### 1.3 Edge (`М8`, `М9`)

| component | state | operations | hard behaviour | correct when |
|---|---|---|---|---|
| Node, `nodevms/apphost` | cameras table, index, files, pipelines | `reconcile_once`, `report_once`, `pump`, `retain_once`, `run` | four asyncio tasks that interleave at every await; kills; a full disk | what the index offers can be played; what is wanted is recorded in the end |
| spool, `edgevms/spool` | one directory per camera | `pending`, `drain` | segments open, torn, sent and not removed; a link that comes and goes | the archive in the cloud is contiguous |
| recorder, `kvsvms` | one looper, its child | `start`, `stop`, `run_child_once`, `_request_shutdown` | a signal between any two steps; two requests at once; a server that dies and leaves its looper | a looper that was told to stop leaves no pipeline |

### 1.4 Cluster and domain (`М11`, `М12`)

| component | state | operations | hard behaviour | correct when |
|---|---|---|---|---|
| cluster's Python part, `clustervms/cluster` | Nomad Variables, objects | subclasses of the server's controller and worker; directory, timeline | as the server's | as the server's |
| Go port, `clustervms-go` | per Node: epoch, published revision, object; per process: gate, lease, pipelines | prologue, reconcile, report, publish, lease, fence | a Node started twice; a server cut off; goroutines around one mutex, the lease without it | one instance goes on recording; after a fence nothing runs; what shows replicated can be restored |
| signer and agents, `domain/tokens.py`, `signer_service.py`, `agent.py` | keys, revocation list; copies in each cluster | `issue`, `rotate`, `revoke`, `prune`, `sync` | requests in threads beside the main loop; a signer that dies; copies on their way | a revocation arrives; a token runs to its expiry |
| certificates, `domain/signer.py`, `enroll.py` | root, bundle, leaves, approvals, vouchers | `rotate_root`, `enroll`, `approve`, `renew`, restore from a backup | rotation while leaves are in use; a restart between two writes | nobody who holds a valid leaf is refused |
| users, `domain/identity.py` | a row per user, published objects, a pointer | edit, `publish`, `restore` | revisions counted again in every life; edits during a publication | the pointer's object is at least as new as the last publication |
| placement and view, `domain/placement.py`, `readview.py` | placement rows, a counter, snapshots | `place`, `refresh`, `list` | two placers on one camera, links that flap | a camera is placed once; what is shown is what was read |
| gateway, `domain/gateway.py` | upstream and viewers of a camera | `watch`, `leave`, `reconnect` | a camera that moves; a tee that dies | a viewer that has not left is fed |
| entitlement, grants, shadow, API | files and rows | see section 7 | | |

### 1.5 How they interact

```
 console ---> controller --(camera, placement, assignment rows)--> store
                 ^                                                  ^ |
                 |            slots, heartbeats, epochs             | v
                 +---------------------- store <------------------ worker
                                                                    | start/stop, dead()
                                                                 actuator --> spool --> archive --> resource job
                                                                                           |             | mirror
                                                                                       event index <-----+
 domain signer --> Variables --> agent of each cluster --> its Variables --> Node
 domain placer --> placement rows --> clusters;   clusters' directories --> read view
```

Workers and controllers never call each other. They share only the rows of the
configuration store (slots, assignments, epochs, cameras) and the heartbeats in
the object store. The controller *decides* and *lists*; the worker reads its
list, takes an epoch per camera and writes below that epoch's directory. All the
agreement in the system is check-and-set on one row at a time; nothing spans two
rows. The same holds of the cluster's and the domain's parts, which speak through
Variables and objects. This is why the interesting behaviour is between rows.

## 2. What is modelled

| module | models | promise it is held to |
|---|---|---|
| `Variables` | what the store promises its clients | - |
| `FileVariables` | `vmsplatform/variables.py`, `FileVariables` | `Variables` |
| `AtomicRow` | what a read-modify-write promises | - |
| `RowWrite` | `Controller.write` and `next_epoch` | `AtomicRow` |
| `ArchiveWriters` | what the archive is promised about its writers | - |
| `Worker` | `contract.py` `Worker`, `epoch.py` `Lease`, `vms/worker.py`, `vms/reconciler.py` and what the worker sees of the actuator | `ArchiveWriters` |
| `Controller` | `contract.py` `Controller`, `vms/controller.py`, the loop of `vms/__main__.py`; the cluster's `ClusterController` and its loop | - |
| `Archive` | `vms/archive.py` and the archive half of the resource job's pass | - |
| `EventStore` | `events.py`, `eventindex.py`, `resource.py`, `objects.py` | - |
| `NodeHost` | `М9` `nodevms/apphost`: reconciler, pipelines, store, retention, app host | - |
| `Spool` | `М9` `edgevms/spool/spool.py` with `М8`'s `upload_segment` | - |
| `Recorder` | `М8` `server/recording.py`, `edge/looper.py` | - |
| `GoHost` | `clustervms-go/cluster`: app host, epoch, rehydrate, publish, and the store, identity and Variables they call | - |
| `DomainTrust` | `domain/tokens.py`, `signer_service.py`, `agent.py` | - |
| `DomainEnroll` | `domain/signer.py`, `enroll.py` | - |
| `DomainIdentity` | `domain/identity.py`: records, publication, restore | - |
| `DomainPlace` | `domain/placement.py`, the pass of `readview.py` | - |
| `DomainGateway` | `domain/gateway.py` | - |
| `MCWorker`, `MCController` | values of the constants for TLC | |
| `MCStorage`, `MCSites`, `MCCluster` | several components side by side, of which one behaviour runs one | |
| `FileVariablesProofs`, `RowWriteProofs`, `WorkerProofs`, `ControllerProofs`, `GoHostProofs`, `StorageProofs`, `SitesProofs`, `FiniteMax` | theorems, section 6 | |

The first seven rest on each other. `FileVariables` implements `Variables`: so a
store call is one step, and an index names one write. `RowWrite` uses rows with
such an index and implements `AtomicRow`: so a `Controller.write` and a
`next_epoch` are one step in `Controller`, in `Worker` and in the domain's
modules. `Worker` treats the controller as an environment that may rewrite any
assignment and camera row, which is more than `Controller` ever does;
`Controller` treats slots and heartbeats as something that changes at any time,
which is more than workers do. The other modules share no state with these or
with each other, which is why `MCStorage`, `MCSites` and `MCCluster` may check
them side by side: a variable `sub` is chosen once, and everything else stays as
it begins. What one of them assumes of another is said in its header.

**FileVariables.** `row` is the directory of files, `counter` the `.index` file,
`lock` the holders of the `flock`. A call walks `read` / `enter`, `check`,
`draw`, `publish` or `remove`, `draw_after`, `unlock`, `done`: one step per file
operation. `KillCaller` is `kill -9` at any of them: files stay, the lock goes.
`cas` is `NoCas` for None and a number otherwise; 0 means "only if absent".

**RowWrite.** `snap` is the `(items, idx)` of the last `get`; `fn` the mutator,
which may decline; `Retries` the 10 of `Controller.write` or the 200 of
`next_epoch`. `Raise` and `LostAnswer` are a store that cannot be reached before
and after the write landed. `others` counts the writes of other threads.

**Worker.** `pc` is the place in `run()`: `refresh`, `start`/`gate` (the loop of
`reconcile`, one unit at a time), `pump`, `slot`/`renew_slot`/`renew` (the lease
pass), `beat`. Every access to the store is a step of its own, so everybody else
may run between any two. `slot`, `listed`, `cam`, `epoch` are the rows; `up` is
whether they can be reached; `held`, `lease`, `actual`, `failed`, `why`
(`fenced_reason`) are the process's own; `pipe` and `dead` are the actuator's.
Time is abstracted to what the code decides by it: a lease or a slot is fresh
until a step lets it expire, and a failed unit is retried or skipped at a pass.
A store call that raises ends the pass (`Raise`), as in `run()`. `overdue` is a
history variable for `LeasePassSettles`.

**Controller.** A *thread* is anything that runs a method: the loop, a console
request, an operator's call, a second controller. `th[t]` is its local state:
the access it makes next (`pc`), the method it is in (`job`), and what it has
read so far. Each access to the store is one step, and a thread may die before
any of them. `place` is `Place`, `Look` for each worker, `Choose`, `PlaceRow`,
`Add`; `move` is `Scan` for each assignment, `TakeOff` for each that lists the
camera, `MoveRow`, `Add`, and `redistribute` and `rebalance` go through the same
steps. In the controller of a cluster (`Labelled`) `place` takes its pool from
`Candidates`: a camera that is there, and the workers whose server has its labels
(`Reach`); all else it inherits. Workers are numbers, in the order of their names, because ties go to the
first name.

**Archive.** `spool`, `files`, `part` and `lines` are the disk: segments not yet
promoted, the archive tree, the temporary copy of the way that crosses
filesystems, and how many lines of the manifest name a path. A mover walks
`promote`: move or copy, remove, append. The resource job's pass is `repair`,
`close_buckets`, `retain` in the order of `pass_`, each of which lists first and
rewrites the manifest from its list later. Either may be killed between any two
accesses. What is over and what is old enough for retention are the
environment's. The header names the one assumption: the grace of
`closed_in_spool` outlasts a move that is under way.

**EventStore.** A bucket is a number of lines (`own` at home, `copy` at its
peers), written by the worker that holds the epoch until it is closed.
A server boots, restores, runs passes and heartbeats; a crash leaves its disk, a
lost disk does not. The index reads a bucket at home when its server's heartbeat
is fresh and from a mirror when not, and may be lost and rebuilt.

**NodeHost.** The four tasks of the app host, one step from await to await:
`Fetch` and `Reconcile` (rows as read, then everything at once), `Pump` (the bus
of a pipeline), `TakePending`, `InsertRow` and `InsertFails` (the report), and
retention: `RetainRows`, then `RetainFiles`, in its three ways at once. A file is the number it was opened
under; `spanOf` is the index. Stops and kills fall anywhere.

**Spool.** The recorders' children write segments under names made of the launch
and the number in it; `DrainBegins` takes the list as `pending` gives it, and
`Send` and `RemoveSent` go through it one upload at a time. A kill leaves a torn segment which nothing can send.

**Recorder.** `start`, `stop` and `status` of the server's threads, and loopers
with their child. The signal handler is a step of its own that may fall between
any two of the looper's: before `Popen`, between `Popen` and the assignment, and
after the last look at the flag.

**GoHost.** One Node. `entry`, `objects` and `issued` are its Variables and
objects; `host[s]` is the process on server `s`. The prologue is four steps;
`BeginPass` takes the mutex after the rows are read, `LookAtGate` and `StartFeed`
are the two halves of `actuate`, so that anything may fall between the look at
the gate and the slow start; `RenewLease` takes no mutex and `FenceHost` does;
a publication is a read of the revision, a dump under it, and a pointer by
check-and-set. A row is the sequence of the servers it was edited on, so its
length is its revision and two configurations of one revision can differ.

**DomainTrust.** The signer's keys in memory and stored, the list with its
index, the key set and list of the domain and the copies of one cluster.
`POST /revoke` is three steps (the entry in memory, the row read, the row put
with its index) so that two may race; `rotate`, `prune`, a restart of the signer and the
agent's two syncs interleave with them. `forgotten` remembers keys whose
retirement a restart lost.

**DomainEnroll.** Roots are a generation and a key; the bundle is keyed by the
generation. A box says hello with its voucher or waits for an approval, gets a
leaf, and renews it when it is due. `rotate_root` is the two writes it is, with
a restart between them (`torn`), and a restore from a backup.

**DomainIdentity.** A record's edits and a publication (`read`, one user after
the other, `put` of the object, `put` of the pointer) over several lives of the
process. What the store says of a user is the number of the edit it is the
outcome of; a deletion is an edit like any other, and a set in which the user is
missing says so. `promised` is the set as it was in the last publication that was
completed.

**DomainPlace.** Placers choose, draw a revision from the counter and store the
row by check-and-set, with the retries of `_store`. The read view's pass goes
through the clusters in order and stops at the first that raises.

**DomainGateway.** A call of the gateway is one step, as it runs to its end
before the next; tees die and are started, and cameras move, between calls.

Definitions named `...Shared`, `...Blind`, `...Forgets` and the like, each
commented "As a bug", stand next to the definition they vary: each is one
plausible mistake in the code, and each makes a property fail. They are not part
of any specification.

## 3. The runs

`tlc -config <run>.cfg <module>` with the `MC` module named. Counters
(epochs, indexes, revisions, calls, faults) are cut off by the constants named
`Max...`; at a cut-off the model stops offering the step, so it shows a prefix
of the system and never a behaviour the system does not have. Runs set
`CHECK_DEADLOCK FALSE` for this reason: a model whose budget of calls and faults
is spent, with nobody at work, does stop.

| run | module | instance | what it shows |
|---|---|---|---|
| `Storage` | `MCStorage` | `files`: 2 processes, 2 paths, one of them barred to one process, 3 indexes. `rows`: 2 threads adding and removing two cameras, 2 tries, 3 writes. `archive`: 2 segments, 1 bucket, 1 worker and the resource job, 2 deaths. `events`: 2 servers, 1 bucket of 2 lines, 1 copy, 2 mishaps. `node`: 1 camera, 2 files, 2 orders, 2 troubles, policy stop_recording | the types; `ImplementsPromise`, `LockIsReleased`; `ConflictMeansAnotherWrote`, `ImplementsAtomicRow`; `FootageIsKept`, `ManifestHeals`; `ClosedBucketIsWhole`, `EachEventIndexedOnce`, `AvailableIsIndexed`; `PlayableIfOffered`, `NodeConverges` |
| `Sites` | `MCSites` | `spool`: 2 cameras, 3 segments, 3 launches, 2 faults. `recorder`: 2 requests, 2 loopers, 2 lives of the server. `trust`: 2 tokens, 2 requests, 3 units of time, 2 changes; life 1, skew 1, overlap 2. `enroll`: 1 box, 4 days, 3 roots, 1 restart. `identity`: 2 users, 3 edits, 3 publications, 3 lives. `placers`, `view`: 2 clusters, 2 cameras, 2 placers, 1 retry, 2 flaps, 2 heartbeats. `gateway`: 2 Nodes, 2 viewers, 3 lives of tees | the types; `ArchiveIsContiguous`; `ShutdownStopsChild`; `RevocationArrives`, `TokenRunsToItsExpiry`; `NeverDark`; `RestoredSetIsFresh`; `PlacedOnce`; `ViewerIsFed` |
| `WorkerTakeover` | `MCWorker` | 2 processes, one told its name and one not, 2 names, 1 camera, 3 epochs, 2 revisions, 1 move, 1 mishap | `IInv`, the inductive invariant of the proofs; `OneWriterPerEpoch`, `FenceIsFinal`, `OnlyClaimableIsTaken`, `ImplementsArchiveWriters`, `SupersededWriterStops`, `LeasePassSettles` |
| `WorkerRestart` | `MCWorker` | 2 processes of one name that do not overlap, 2 cameras, 4 epochs, 1 mishap | `RecordingResumes`, `ExpiredWriterStops` |
| `ControllerScaleIn` | `MCCluster`, its controller alone | loop and console, each step between any two of the other, the controller of a cluster, 3 workers of capacity 1, 2 and 2 of which the first does not reach the first camera, 2 cameras, 2 calls, 2 changes of slots and heartbeats, 1 death | `PlacersAgree`; `PlacedIsListedUnlessKilled`, `NewCameraIsPlaced`, `ReleasedSlotIsEmptied` |
| `Cluster` | `MCCluster` | `controller`: every method, two threads that take turns, 3 workers, 3 cameras, 5 calls, 2 changes. `node`: 1 camera, 2 servers, 2 starts, 1 trouble | the types; `AssignmentFollowsRow`, `DeletedIsForgotten`, `NeverListedTwice`; `FencedStaysQuiet`, `OneInstanceRecords` |
| `WorkerPausedHolder`, `WorkerIsolated`, `ControllerCrash`, `StorageOpenBucket`, `StorageSpan`, `ClusterReplicated` | | the smallest instances that show section 4 | one property each, violated |

Why these bounds are enough to be of interest:

* **store and loop**: two paths separate a lock per store from one per row; two
  tries already separate a call that retries from one that gives up; three
  writes let a row return to the value that was read (add, remove), which only
  the index tells from the row that was read; two cameras make a lost update
  visible;
* **worker**: two processes for one name is the case the epochs exist for; a
  third epoch lets the paused one overtake its replacement; a second name lets a
  camera move; a second camera lets one lease pass lose a camera that moved away
  and one that is still listed. One mishap is a crash, an outage, an expired
  lease, a lapsed slot, a pipeline that dies, a start that fails, an epoch issued
  without its answer or an orderly stop, at any point: every hazard with a single
  cause;
* **controller**: unequal capacities make the largest number of free places and
  the smallest load different workers; two cameras fill the worker of capacity 1
  and leave one place, three fill more than any one worker;
* **archive and events**: two segments let one be promoted while the other is
  written; two deaths kill the worker in a move and the resource job in the
  repair that follows, or one of them twice; two lines tell a bucket that was
  read early from a whole one; two mishaps are a crash and a lost disk, or both
  servers at once;
* **Node**: two files are the one being written and the one being closed, two
  orders an edit between the read of the rows and their application;
* **spool**: three segments are two of one camera and one of the other, in any
  order of launches; two faults are a link that goes away and a kill;
* **recorder**: two requests at once start two loopers, the second life of the
  server finds one it does not know;
* **trust and enrolment**: the time runs past the life of a token, the skew and
  the overlap, so each boundary is crossed with every other thing on either
  side; two changes are a rotation and a restart, or a rotation and a list; three
  roots are two rotations, so a leaf can be two roots old;
* **identity**: three publications over two lives let an object of the earlier
  life be written over by a later one while the pointer still names it; a third
  life lets a set that was restored be published and restored once more;
* **placement**: one retry separates the placer that wins at once, the one that
  wins after a conflict and the one that gives up;
* **Go host**: two processes are the old one and the one the scheduler started
  beside it; one trouble is an edit that only one of them has, or a cut-off in
  the middle of anything.

Limits that a reader should keep in mind.

* `RecordingResumes` is checked without overlap, without moves and with one
  mishap: with overlap it fails (`WorkerPausedHolder`); with two mishaps an
  outage longer than the TTL makes the only holder fence itself by mistake; and an
  operator's `retire` of a name that is in use fences its holder by a conflict,
  as the code does.
* The controller's methods take turns in `Cluster` because those properties do
  not hold when they overlap (section 4). In `ControllerScaleIn` they overlap.
* `DomainTrust` is checked with `prune()` undivided (`Interrupted = FALSE`): a
  thread switch inside its comprehension would lose an entry that was answered.
* `ViewerIsFed`, `NeverDark`, `TokenRunsToItsExpiry` and `PlacedIsListedUnlessKilled`
  name the case they except, which is a case in which the code does not keep the
  promise; each is explained in section 4.

## 4. Where the code and its documentation disagree

Found while modelling, each with a run that ends in a counterexample:

1. **Nobody records** (`WorkerPausedHolder`, `RecordingResumes`). `take_epoch` does
   not look at the slot. A paused holder that wakes up in `reconcile_once` takes a
   newer epoch than its replacement holds, and learns only then that its slot is
   gone. It fences; the replacement finds a newer epoch on its own camera and
   fences too. Both processes go on, and the camera is not recorded, where lesson 4
   says of this history "B is fine" and the cluster's README "its worker is
   recording again".
2. **An expired lease does not stop a writer** (`WorkerIsolated`,
   `ExpiredWriterStops`). The cluster's design says the holder "stops writing at
   TTL − margin". `may_write` is asked when a pipeline starts and never again; in
   an outage without end nothing stops the pipeline. (With outages that end the
   property holds: `WorkerRestart`.)
3. **Placed and on nobody's list** (`ControllerCrash`, `PlacedIsListed`). A
   controller that dies after the placement row and before the assignment leaves a
   camera that every later `place()` returns as placed already. Lesson 5: "The row
   is the decision; the assignment follows it."
4. **An open bucket is indexed once and for all** (`StorageOpenBucket`,
   `EveryEventIsIndexed`). `tail` marks what it has read as seen; the route it
   reads from lists open buckets too, although its docstring says closed ones.
   Lines written afterwards are not in the index until it is rebuilt.
5. **A file in the index under the next file's start** (`StorageSpan`,
   `SpanIsTheFiles`). `pipeline.py` moves `_open_since` on when the next fragment
   is named, and reads it when the message of the closed one is handled.
6. **Replicated, and not restorable** (`ClusterReplicated`,
   `ReplicatedIsRestorable`). The Go publisher compares the largest revision of a
   camera with the one last published, and each camera counts its own edits: a
   camera that is removed, added, or edited at a lower revision is never published,
   and the condition `replicated` stays true.

The following come from the same modules under other constants, or are steps of
them; no run is kept for them.

*Server.* When the controller's methods overlap (`Serial = FALSE` in
`Cluster.cfg`):

* `DeletedIsForgotten`: a delete runs between the loop's reading of the cameras
  and its `place()`, which never looks at the camera's row, so the deleted camera
  is listed again; and `update_camera` and `create_camera` write the retention row
  after the camera row, so a delete in between has its zero days overwritten;
* `NeverListedTwice` and `AssignmentFollowsRow`: a `move` beside another `move` or
  beside the end of a `place` takes the camera off the lists it saw and misses the
  one that is added meanwhile. Usually the next pass of `redistribute` mends it
  for a released slot; when the new worker is full by then it does not, and the
  camera stays on both lists;
* two methods that read the loads before either writes fill the last place twice:
  that no worker is overfilled is a guard on loads that may be stale.

`redistribute` takes the workers "that are here" from heartbeats up to 45 s
old, without looking at the released slots among them: when two workers leave
together the cameras of one are first moved to the other, and later passes move
them on if there is room. In a cluster (`Labelled`), only `place` asks which servers reach the camera:
`redistribute`, `move` and `rebalance` are inherited and take the freest worker
(М10 `controller.py:193`), also one whose server lacks the camera's labels, and
since the camera then has a placement nothing moves it back (М11
`cluster/controller.py:41`). A last heartbeat that raises means that `release_slot` is never reached: an orderly stop looks like a crash (`worker.py:236`). A lease
that ran out while the store was away is taken by `worker.py` as a sign of a
zombie (`epoch.py:49` answers False for both).

*Node and edge.* A failed insert drops the rest of the pending rows
(`apphost.py:123`, step `InsertFails`), and what a stop leaves on a bus is never
indexed; such files are orphans, which retention counts and never removes
(`retention.py:149`). The policy `stop_recording` only refuses starts; it stops
nothing that records. Fragments are named by the second. In the spool, a segment
that a killed pipeline left torn, or that is still open in an earlier launch,
heads the list and ends every pass at once, for the other cameras too;
`spool.py:41` says "oldest first", which is true of one camera and not across
them. Two requests may each find nothing running and start a recording, of which
one is forgotten (`recording.py:74`); a looper that is killed for being slow leaves
its child.

*Go port.* A dump is taken after the revision is read: an edit in between puts
revision N+1 under the name of N, which `Rehydrate` refuses. A process that
restarts on a server that was configured before takes the directory's revision
for what it has published. A fenced process still publishes, over its
replacement's pointer (`PublishOnce` does not look at the lease). `Fence` is for
ever, also when a lease that only ran out is renewed later. `Run` calls `StopAll`
outside the mutex, so a pass that is under way may start a pipeline after it.

*Domain.* A rotation of the token key is not stored until the next publication,
so a restart brings the old key back (the exception in `TokenRunsToItsExpiry`).
`rotate_root` changes the bundle before the signer has stored the root
(`signer.py:207`), and a restore from an older backup does the same (`torn`, the
exception in `NeverDark`). An entry of the revocation list is dropped at the
token's expiry while a Node accepts the token until its expiry plus the skew.
`watch()` after a failover replaces the upstream by an empty one
(`gateway.py:111`), and its viewers get no more frames (the exception in
`ViewerIsFed`). The read view catches `Unreachable`, which `cluster/variables.py`
never raises: the first cluster that is down ends the pass, and `list()` goes on
saying that it is complete (`RefreshFails`). `finish()` does not compare the
certificate with the key it was asked for. `since` in the shadow counts from the
last change of the observed revision, so a Node that was up to date for long is
"stalled" at once.

## 5. Fairness

* `FileFairness`: a process inside the lock takes its next step or is killed.
  Nothing is assumed of a process that waits for the lock (the kernel decides who
  gets it).
* `Worker!Running`: `run()` is one loop that catches every exception, so an
  enabled step of an instance is taken in the end (weak fairness of `Loop`; the
  claim itself, crashes and the orderly stop are not in it). The lease pass is due
  by the clock and the backoff of a failed unit is at most a minute, so a run of
  passes that skips one of them for ever is not a behaviour of the code: strong
  fairness of the due `Pump` and of the start of each unit. `FairSpec` adds that
  outages end; `IsolatedSpec` does not.
* `Controller!FairSpec`: the loop wakes up every five seconds and a method that
  was begun goes on; `ScaleInSpec` is the same. Calls, heartbeats and slots have no fairness.
* `ArchiveFairness`: the resource job is restarted and its timer fires for ever.
  Nothing is assumed of workers.
* `EventsFairness`: a resource job that was started goes on, its timers fire, an
  old heartbeat fades, and the index, which tails every five seconds, reads a
  bucket that is readable again and again. A server may stay down for ever.
* `NodeFairness`: an asyncio task that can run does, retention comes round, a
  backoff ends, and a Node that was told to stop does.
* `TrustFairness`: the agent's loop syncs keys and list. Nothing is assumed of
  the signer.
* `GoFairness`: a pass goes on, the lease goroutine comes round, a lease that
  cannot be renewed runs out, and a goroutine that waits for a Go mutex gets it
  (strong fairness of `FenceHost`, because passes take the mutex again and again).
  Nothing is assumed of the scheduler, the publisher or the network.
* `Recorder`, `Spool` and the other parts of the domain have no liveness property
  and no fairness.

## 6. The proofs

`tlapm <module>.tla`, for each of the modules below. The theorems hold for every value of the
constants that satisfies the assumption of the module they are about: any number of threads,
processes, names, cameras, paths and servers, and any bound.

**FileVariablesProofs** (`FileVariables` under `StoreAssumption`): `FileTypeCorrect`, and
`FilesImplementPromise`, that the files are the store `Variables` promises. The inductive invariant
adds three things to the types: who is past `flock` is alone (`Exclusive`); what a call compared, its
ACL and its index, still holds when it renames or removes (`Established`), which is what the lock
keeps true; and a drawn index is counted (`DrawnIsCounted`). Then each step is a step of the promise
or a stutter: the failed comparison is `Refuse`, the rename `Put`, the removal `Delete`, the index
drawn after a removal `Skip`, a kill `Crash`. A put that dies before its rename leaves an index that
no row ever has, which `UsedIndex` does not count until the rename.

**RowWriteProofs** (`RowWrite` under `RowWriteAssumption`): `TypeCorrect`; `LockFree`, that a call
meets no more conflicts than others' writes landed meanwhile; `LoopIsAtomic`, that the loop implements
`AtomicRow`. `SnapshotOK` is why comparing indexes compares values: a snapshot whose index is the
row's has the row's value, because every write draws a new index. `CountOK` is what pays for the next
conflict: the conflicts met are at most the writes by others, strictly fewer while the snapshot at
hand is already out of date.

**WorkerProofs** (`Worker` under `WorkerAssumption`): `TypeCorrect`; `Inductive`, that `IInv` always
holds; `PipelineUnderItsEpoch`; `NoSharedEpoch`, the fencing guarantee;
`WorkersImplementArchiveWriters`; `FencedForGood`;
`OnlyFreeNamesAreTaken`; `PassesSettle`. `OneWriterPerEpoch` is not inductive: it speaks of
pipelines, and a step may turn an epoch that is only held into one that is written under. `HeldByOne`
speaks of the epochs held instead: each was issued, and no two processes hold the same, so the next
one is held by nobody. `PipelineHoldsItsEpoch` ties pipelines to them; it needs `LeasePerEpoch` (a
pass that renews or lets go of an epoch does so with its lease) and `PassIsAboutUnits` (what a pass is
about to start is desired and what it is about to renew is held, whatever the store has come to say
since). The parts about one process come first (`LocalStep`), then every step as a step of
`ArchiveWriters` or a stutter (`StepRefines`), and `HeldByOne` from that abstract step alone. Two more arguments
stand beside it. `ClaimInv`: what a process without a preference has read as claimable, and nobody has
written since, is claimable still, because every write of a row spoils what others have read of it.
`Settling`, for `PassesSettle`: what was superseded when a lease pass began is so when the pass renews,
since epochs only grow, and is by then yet to be renewed or reported lost; what is lost is stopped or
fences the process.

**ControllerProofs** (`Controller` under `ControllerAssumption`):

* `ControllerTypeCorrect`. A thread's record says what it has in hand (`Aims`), so no method is about a
  camera or a worker there is not. It needs that the worker a method chooses is one of its pool:
  among finitely many, compared by free places or by fractions of load, some worker is beaten by none
  (`Unbeaten`, in `FiniteMax`, and `Fractions` for the comparison without division).
* `PlacersAlwaysAgree`: of any number of threads that only create, update and place, wherever some of
  them die, no worker reads a camera but the one its row names, as long as no slot was released
  (assumption `OnlyPlaces`). `Agree` ties
  the worker a thread is about to add the camera to, to the placement row; the row, once it names a
  worker, is not changed by anyone, because the mutator of `place` declines.
* `SerialFollowsRow`, `SerialNeverTwice`, `SerialForgets`: when methods take turns and none dies
  (assumption `OneAtATime`), `AssignmentFollowsRow`, `NeverListedTwice` and `DeletedIsForgotten` hold
  after any sequence of calls and passes of the loop. `Rows(r)` says what the store looks like while
  the thread in state `r` is at work: every camera is listed where its row says, but the one the
  thread is taking off, moving or deleting; of that one it knows enough, for example that a worker
  that lists it is among those it has found or has yet to read, and that there is at most one. That
  methods take turns is needed: section 4 says what happens without.

**GoHostProofs** (`GoHost` under `GoAssumption`): `GoTypeCorrect`; `EpochsOwned`, two running
processes of one Node have different epochs; `FencedForEver`, nothing runs behind a shut gate. The
strengthening is `StartsUnderTheGate`: a pass that looked at the gate and is about to start a pipeline
holds the mutex, so `Fence`, which wants it, has not shut the gate in between. An epoch is at most the
number issued, so a claim is new. `OneHostMoves` reduces each action to the one record it changes.
`ClusterTypeCorrect` and `ClusterKeepsItsCameras` put the process beside the controller and say of
`MCCluster`, which the run checks, what the parts prove of themselves.

**StorageProofs** (the parts of `MCStorage`, each under its own assumption, and all of them together
in `StorageTypeCorrect` and `StorageKeepsWhatItHas`):

* `ArchiveKeepsFootage`, `ArchiveTypeCorrect`: `FootageIsKept` for any number of segments, workers and
  deaths. `ArchiveInv` adds to it what makes the two removals safe: a worker about to remove a segment
  from the spool has its copy in place, or the copy has aged and was deleted; and the resource job
  deletes only what has aged, also when its list is old.
* `CopiesAreWhole`, `IndexedAtMostOnce`, `EventsTypeCorrect`: `ClosedBucketIsWhole` is not inductive
  as it stands, because a bucket might be copied while it is open and closed afterwards. `BucketsInv`
  excludes it (while a bucket is open its home has all of it and nobody has a copy), `IndexInv` says
  that a bucket not marked as seen has no rows, so reading it adds each of its lines for the first time.
* `NodeOffersWhatPlays`, `NodeTypeCorrect`: what the index offers can be played, although the report,
  retention, the pipelines and kills interleave at every await. `Custody` says that a file is in one
  place at a time: at the pipeline that opened it, in the queue, in the index, or between the deletion
  of its row and its own. So retention, which takes files from the index, never takes one that a row is
  about to be written for. `Starts`: a start in the queue is that of a file that was opened.

**SitesProofs** (the parts of `MCSites`, and all of them together in `SitesTypeCorrect` and
`SitesKeepTheirPromises`); besides the types, part by part:

* `ArchiveHasNoHoles` (`Spool`). `Numbered`: the names of a camera's segments grow as they are opened,
  over launches too, which is what the order of `pending` rests on. `PassOK`: a list under way still
  has all that lies before what it has left to send. Both are needed to know that what is sent first
  is next in the cloud.
* `ShutdownReachesChild` (`Recorder`). `ChildAt` says, of each line a looper can be at, whether it has
  a child, whether it names it, and whether the child must have been told.
* `NothingGoesDark` (`DomainEnroll`), if `LeafLife < RootOverlap`. `Agreement`: as long as signer and
  bundle agree (not `torn`), the signer's root is the last of the bundle and every certificate it has
  signed is of a root that each peer trusts until the certificate runs out.
* `TokensRunOut` (`DomainTrust`, the action property), if `TokenLife < Overlap`. `KeysInv`: of the keys
  whose retirement no restart forgot, the issuer and the row the clusters copy from hold every key that
  has tokens left, and no key retires before its tokens. The copy in a cluster may be older than the
  row; it then holds a key for longer, or without an end.
* `RestoredIsFresh` (`DomainIdentity`). `PublicationOK`: what a publication has read lies, user by user,
  between what the last one promised and the store. The first attempt failed for a reason: the model
  gave a user that a restore deletes the version 0, so that a set without the user, published and
  restored again, could fall behind the promise. The code has no versions; a set without the user is the
  outcome of the deletion. The record is now the number of the edit, and the run has a third life.
* `CamerasArePlacedOnce` (`DomainPlace`). `DrawnOnce`: a revision has at most one owner, the placement
  that carries it or the placer that is about to put it, and what a placer was told is the placement as
  it stands, because nobody puts over one; so of two placers one wins and the other reads what it wrote.
* `ViewersAreFed` (`DomainGateway`). `Feeding`: an upstream is subscribed for as long as the life of the
  tee lasts that it was opened on, and who watches and was not left behind is among its viewers.

The two conditions are about durations the operator passes, to `rotate_root` and to `rotate`: an overlap
that is not longer than what was signed ends lives early, as a key is no longer accepted at the moment of
its retirement and a token still is at the moment of its end.

**FiniteMax**: a finite set has a least number, and an element no other beats, for a comparison that
is irreflexive and transitive. Used for the choices of the controller, for `Rev` and for the head of
the spool's list.

With these, every invariant and every action property of the passing runs is a theorem, and so are the
three refinements. Only model-checked are the liveness properties (`RecordingResumes`,
`ExpiredWriterStops`, `SupersededWriterStops`, `LockIsReleased`, `ManifestHeals`, `AvailableIsIndexed`,
`NodeConverges`, `RevocationArrives`, `OneInstanceRecords`, `PlacedIsListedUnlessKilled`,
`NewCameraIsPlaced`, `ReleasedSlotIsEmptied`), which together with `ENABLED` are out of the prover's
reach, and the counterexamples of section 4. No module has a recursive operator.

## 7. What is not modelled, and what would come next

* *Server.* The actuator's list of errors, which is kept by camera and not by pipeline: `Worker` has a
  pipeline that dies and is found dead, once. The console's idempotency keys. The break-glass
  procedure.
* *Node.* Conditions, phases and events, which are written for people to read; migrations of the
  database; conversion of clocks and names of files.
* *Recorder.* The cloud archive's own routes, which only list and sign.
* *Cluster, Python.* What the worker adds to its heartbeat, the snapshot and the directory, the
  timeline, the console's reads and its idempotency keys, the S3 signature. `Publisher` is called by
  nobody in Python; `GoHost` models it where it runs, in Go.
* *Cluster, Go.* The heartbeat, the conditions other than `replicated`, the sweep that indexes again,
  the scan of the directory, `placement.go` (only its tests call it), S3, metrics and the console.
* *Domain.* Grants and the trust update (only tests call them), entitlement, the shadow, the
  arithmetic of cloud capacity, the API's idempotency. `put_prefs` checks and then puts without
  check-and-set, which is lost as any such update is.
* *Everywhere.* Formatting, logging and HTTP; fields no method decides by; GStreamer, vendor and cloud
  SDKs; the clock itself; the deployment files and the teaching sketches of
  `М11_ClusterVMS/reference`. The authentication of callers is taken as given.

What would come next, most important first: `Worker` and `Controller` composed over one store, from
SIGTERM on one server to the last camera recorded on another; the actuator's errors across a restart;
the console's idempotency keys; the Node's conditions.
