------------------------------ MODULE NodeHost ------------------------------
(***************************************************************************)
(* One Node (М9, nodevms/apphost): the rows of its cameras, the app host   *)
(* whose asyncio tasks reconcile them with GStreamer pipelines, drain the  *)
(* pipelines' buses, write the index and enforce retention, and the files  *)
(* on the disk. A task runs from one await to the next.                    *)
(*                                                                         *)
(* A file is the number it was opened under; a row of the index has the    *)
(* file whose start is its own. Which windows have run out, how full the   *)
(* disk is and when a backoff ends are the environment's; months, events,  *)
(* conditions and phases are left out.                                     *)
(***************************************************************************)
EXTENDS Integers, FiniteSets

CONSTANTS Cams, StopWhenFull,      \* the disk-full policy: stop_recording, or give up the oldest rows
          MaxFiles, MaxOrders, MaxTrouble

ASSUME NodeAssumption ==
  {MaxFiles, MaxOrders, MaxTrouble} \subseteq Nat /\ StopWhenFull \in BOOLEAN /\ IsFiniteSet(Cams)

VARIABLES cameraRow, orders,                      \* the cameras table
          fetched, actual, backoff,         \* the reconcile task and the Reconciler
          pipe, allowed,                    \* the actuator's pipelines; recording_allowed
          pending, writing,                 \* closed segments not in the index; those report_once() has taken
          file, onDisk, spanOf, doomed,        \* files opened; on the disk; the index; rows gone, files not yet
          full, stopping, trouble
rowVars == <<cameraRow, orders>>
hostVars == <<fetched, actual, backoff, pipe>>
archiveState == <<file, onDisk, spanOf, doomed>>
nodeVars == <<rowVars, hostVars, allowed, pending, writing, archiveState, full, stopping, trouble>>

NoCamera == [rev |-> 0, enabled |-> FALSE]
NoPipe == [on |-> FALSE, open |-> 0, since |-> 0, closed |-> {}, failed |-> FALSE]
Started == [NoPipe EXCEPT !.on = TRUE]
Files == 1..MaxFiles
Wanted(cams, c) == cams[c].rev > 0 /\ cams[c].enabled

NodeInit ==
  /\ cameraRow = [c \in Cams |-> NoCamera] /\ orders = 0
  /\ fetched = [taken |-> FALSE, rows |-> cameraRow] /\ actual = [c \in Cams |-> 0] /\ backoff = {}
  /\ pipe = [c \in Cams |-> NoPipe] /\ allowed = TRUE
  /\ pending = {} /\ writing = {}
  /\ file = 0 /\ onDisk = {} /\ spanOf = [f \in Files |-> 0] /\ doomed = {}
  /\ full = FALSE /\ stopping = FALSE /\ trouble = 0

\* The console: create_camera, update_camera (cameras_bump raises the revision), delete_camera.
Order(c) ==
  /\ orders < MaxOrders /\ orders' = orders + 1
  /\ \E r \in {[rev |-> cameraRow[c].rev + 1, enabled |-> e] : e \in BOOLEAN} \cup {NoCamera} :
       r # cameraRow[c] /\ cameraRow' = [cameraRow EXCEPT ![c] = r]
  /\ UNCHANGED <<hostVars, allowed, pending, writing, archiveState, full, stopping, trouble>>

-----------------------------------------------------------------------------
\* reconcile_once: the rows as they were read, then everything at once.
Fetch ==
  /\ ~stopping /\ ~fetched.taken /\ fetched' = [taken |-> TRUE, rows |-> cameraRow]
  /\ UNCHANGED <<rowVars, actual, backoff, pipe, allowed, pending, writing, archiveState, full, stopping, trouble>>

\* What is behind its row and not backing off is started or restarted; what is not wanted is stopped.
Due(c) == /\ Wanted(fetched.rows, c) /\ c \notin backoff
          /\ actual[c] = 0 \/ actual[c] < fetched.rows[c].rev
\* As a bug: the stop loop looks at the rows that are disabled, not at what runs.
UnwantedRows == {c \in Cams : actual[c] # 0 /\ fetched.rows[c].rev > 0 /\ ~fetched.rows[c].enabled}
Unwanted == {c \in Cams : actual[c] # 0 /\ ~Wanted(fetched.rows, c)}
\* A pipeline that is stopped finalizes its file; the message on its bus is never read.
Reconcile ==
  LET due == {c \in Cams : Due(c)} IN
  /\ fetched.taken
  /\ \E bad \in SUBSET due :
       LET ok == IF allowed THEN due \ bad ELSE {} IN
       /\ trouble' = trouble + (IF allowed THEN Cardinality(bad) ELSE 0) /\ trouble' <= MaxTrouble
       /\ bad = {} \/ allowed
       /\ actual' = [c \in Cams |-> IF c \in ok THEN fetched.rows[c].rev ELSE IF c \in Unwanted THEN 0 ELSE actual[c]]
       /\ backoff' = (backoff \cup due) \ ok
       \* Storage refused: the actuator is not called, and what runs goes on.
       /\ pipe' = [c \in Cams |-> IF c \in ok THEN Started
                                  ELSE IF c \in Unwanted \/ (c \in due /\ allowed) THEN NoPipe ELSE pipe[c]]
  /\ fetched' = [fetched EXCEPT !.taken = FALSE]
  /\ UNCHANGED <<rowVars, allowed, pending, writing, archiveState, full, stopping>>

BackoffEnds(c) ==
  /\ c \in backoff /\ backoff' = backoff \ {c}
  /\ UNCHANGED <<rowVars, fetched, actual, pipe, allowed, pending, writing, archiveState, full, stopping, trouble>>

-----------------------------------------------------------------------------
\* GStreamer: a fragment is opened under a new name (_format_location); the one before it, or this one when
\* the stream pauses, is closed and says so on the bus; an error or the end of the stream ends it.
OpenFragment(c) ==
  /\ pipe[c].on /\ ~pipe[c].failed /\ file < MaxFiles /\ file' = file + 1
  /\ onDisk' = onDisk \cup {file + 1}
  /\ pipe' = [pipe EXCEPT ![c].open = file + 1, ![c].since = file + 1, ![c].closed = @ \cup ({pipe[c].open} \ {0})]
  /\ UNCHANGED <<rowVars, fetched, actual, backoff, allowed, pending, writing, spanOf, doomed, full, stopping, trouble>>
CloseFragment(c) ==
  /\ pipe[c].on /\ pipe[c].open # 0
  /\ pipe' = [pipe EXCEPT ![c].open = 0, ![c].closed = @ \cup {pipe[c].open}]
  /\ UNCHANGED <<rowVars, fetched, actual, backoff, allowed, pending, writing, archiveState, full, stopping, trouble>>
StreamFails(c) ==
  /\ pipe[c].on /\ ~pipe[c].failed /\ trouble < MaxTrouble /\ trouble' = trouble + 1
  /\ pipe' = [pipe EXCEPT ![c].failed = TRUE]
  /\ UNCHANGED <<rowVars, fetched, actual, backoff, allowed, pending, writing, archiveState, full, stopping>>

\* GstActuator.pump: closed fragments are queued for the index with the start the pipeline has now, if
\* their file is there; a failed pipeline is torn down and forgotten, with what was left on its bus.
Pump(c) ==
  /\ ~stopping /\ (pipe[c].closed # {} \/ pipe[c].failed)
  /\ \E read \in IF pipe[c].failed THEN SUBSET pipe[c].closed ELSE {pipe[c].closed} :
       pending' = pending \cup {[path |-> f, start |-> pipe[c].since] : f \in read \cap onDisk}
  /\ IF pipe[c].failed
     THEN /\ pipe' = [pipe EXCEPT ![c] = NoPipe]
          /\ actual' = [actual EXCEPT ![c] = 0] /\ backoff' = backoff \cup {c}
     ELSE pipe' = [pipe EXCEPT ![c].closed = {}] /\ UNCHANGED <<actual, backoff>>
  /\ UNCHANGED <<rowVars, fetched, allowed, writing, archiveState, full, stopping, trouble>>

\* report_once: the queue is swapped for an empty one and its rows are inserted one by one; the first that
\* fails takes the rest with it.
TakePending ==
  /\ ~stopping /\ writing = {} /\ pending # {}
  /\ writing' = pending /\ pending' = {}
  /\ UNCHANGED <<rowVars, hostVars, allowed, archiveState, full, stopping, trouble>>
InsertRow ==
  /\ \E s \in writing : /\ writing' = writing \ {s}
                        /\ spanOf' = [spanOf EXCEPT ![s.path] = s.start]
  /\ UNCHANGED <<rowVars, hostVars, allowed, pending, file, onDisk, doomed, full, stopping, trouble>>
InsertFails ==
  /\ writing # {} /\ trouble < MaxTrouble /\ trouble' = trouble + 1 /\ writing' = {}
  /\ UNCHANGED <<rowVars, hostVars, allowed, pending, archiveState, full, stopping>>

-----------------------------------------------------------------------------
\* enforce_retention, of a partition, a window or the policy: rows go first, then their files.
Indexed == {f \in Files : spanOf[f] # 0}
\* As a bug: the files go first.
DeletesFilesFirst == <<"files", "rows">>
Deletes == <<"rows", "files">>
Delete(what, old) ==
  /\ spanOf' = IF what = "rows" THEN [f \in Files |-> IF f \in old THEN 0 ELSE spanOf[f]] ELSE spanOf
  /\ onDisk' = IF what = "files" THEN onDisk \ old ELSE onDisk
RetainRows ==
  /\ ~stopping /\ doomed = {} /\ \E old \in SUBSET Indexed \ {{}} : Delete(Deletes[1], old) /\ doomed' = old
  /\ UNCHANGED <<rowVars, hostVars, allowed, pending, writing, file, full, stopping, trouble>>
RetainFiles ==
  /\ doomed # {} /\ Delete(Deletes[2], doomed) /\ doomed' = {}
  /\ UNCHANGED <<rowVars, hostVars, allowed, pending, writing, file, full, stopping, trouble>>
\* The end of a pass: whether anything may be started from now on. Without cameras it does not look.
RetainDone ==
  LET may == ~full \/ (~StopWhenFull /\ Indexed # {}) \/ (\A c \in Cams : cameraRow[c] = NoCamera) IN
  /\ ~stopping /\ doomed = {} /\ allowed # may /\ allowed' = may
  /\ UNCHANGED <<rowVars, hostVars, pending, writing, archiveState, full, stopping, trouble>>
DiskChanges ==
  /\ trouble' = (IF full THEN trouble ELSE trouble + 1) /\ trouble' <= MaxTrouble
  /\ full' = ~full
  /\ UNCHANGED <<rowVars, hostVars, allowed, pending, writing, archiveState, stopping>>

-----------------------------------------------------------------------------
\* SIGTERM: every pipeline is stopped and every task cancelled; one last report follows.
Stop ==
  /\ ~stopping /\ trouble < MaxTrouble /\ trouble' = trouble + 1 /\ stopping' = TRUE
  /\ pipe' = [c \in Cams |-> NoPipe] /\ writing' = {} /\ fetched' = [fetched EXCEPT !.taken = FALSE]
  /\ UNCHANGED <<rowVars, actual, backoff, allowed, pending, archiveState, full>>
LastReport ==
  /\ stopping /\ pending # {} /\ writing = {} /\ writing' = pending /\ pending' = {}
  /\ UNCHANGED <<rowVars, hostVars, allowed, archiveState, full, stopping, trouble>>
\* The process is gone, at its end or killed anywhere, and is started again with nothing in its memory.
StartAgain(cost) ==
  /\ trouble + cost <= MaxTrouble /\ trouble' = trouble + cost /\ stopping' = FALSE
  /\ fetched' = [fetched EXCEPT !.taken = FALSE] /\ actual' = [c \in Cams |-> 0] /\ backoff' = {}
  /\ pipe' = [c \in Cams |-> NoPipe] /\ allowed' = TRUE /\ pending' = {} /\ writing' = {} /\ doomed' = {}
  /\ UNCHANGED <<rowVars, file, onDisk, spanOf, full>>
Exit == stopping /\ pending = {} /\ writing = {} /\ doomed = {} /\ StartAgain(0)
KillHost == StartAgain(1)

NodeNext ==
  \/ Fetch \/ Reconcile \/ TakePending \/ InsertRow \/ InsertFails \/ RetainRows \/ RetainFiles \/ RetainDone
  \/ DiskChanges \/ Stop \/ LastReport \/ Exit \/ KillHost
  \/ \E c \in Cams : \/ Order(c) \/ BackoffEnds(c) \/ OpenFragment(c) \/ CloseFragment(c) \/ StreamFails(c) \/ Pump(c)

\* The tasks' timers: every loop comes round again, a backoff ends, and a stopped process is started again.
NodeFairness ==
  /\ \A c \in Cams : WF_nodeVars(BackoffEnds(c)) /\ WF_nodeVars(Pump(c))
  /\ WF_nodeVars(Fetch) /\ WF_nodeVars(Reconcile)
  /\ WF_nodeVars(InsertRow) /\ WF_nodeVars(RetainFiles) /\ WF_nodeVars(RetainDone)
  /\ WF_nodeVars(LastReport) /\ WF_nodeVars(Exit)

-----------------------------------------------------------------------------
NodeTypeOK ==
  /\ \A c \in Cams : actual[c] \in Nat /\ pipe[c].open \in 0..file /\ pipe[c].closed \subseteq 1..file
  /\ onDisk \subseteq 1..file /\ doomed \subseteq 1..file /\ file \in 0..MaxFiles /\ trouble \in 0..MaxTrouble
  /\ \A s \in pending \cup writing : s.path \in 1..file /\ s.start \in 1..file

(* retention.py:7, "footage the console offers and cannot play": what the index offers is on the disk,  *)
(* wherever the app host is killed.                                                                    *)
PlayableIfOffered == Indexed \subseteq onDisk

(* When the operator and the world are quiet, the Node settles: what is wanted runs at the revision of  *)
(* its row unless the disk is full, and what is not wanted has no pipeline, whatever failed, was        *)
(* restarted or was edited between the read of the rows and their application on the way there          *)
(* (Reconciler.reconcile, lost, "the timer is correctness").                                            *)
NodeConverges ==
  <>[](\A c \in Cams : IF Wanted(cameraRow, c) THEN allowed => pipe[c].on /\ actual[c] = cameraRow[c].rev ELSE ~pipe[c].on)

(* 07-fifty-pipelines-in-one-process.md:204 writes (start, end) "when a segment closes": the start in   *)
(* the index is the start of the file it is the row of.                                                *)
SpanIsTheFiles == \A f \in Indexed : spanOf[f] = f
=============================================================================
