------------------------------ MODULE Recorder ------------------------------
(***************************************************************************)
(* Recording at the edge as М8 runs it: the server's start() and stop()    *)
(* (server/recording.py), called by the threads of the API, and the looper *)
(* they start (edge/looper.py), which supervises the pipeline as its       *)
(* child. A looper lives in a session of its own: the server may die and   *)
(* leave it running. Its signal handler may run between any two of its     *)
(* steps.                                                                  *)
(*                                                                         *)
(* Backoff times and the container of Docker mode are left out.            *)
(***************************************************************************)
EXTENDS Naturals, FiniteSets

CONSTANTS Handlers,      \* threads that serve /api/recording
          Loopers,       \* 1..n, processes in the order they are started
          MaxServers     \* lives of the server

ASSUME RecorderAssumption == Loopers \subseteq Nat \ {0} /\ MaxServers \in Nat \ {0}

VARIABLES current, call, servers,      \* _current_proc; the threads; lives of the server so far
          looper, shutting, procSet,   \* where each looper is; _shutting_down; its _current_proc is set
          gst,                         \* its child: "none", "runs", or "stopping" once it has got SIGTERM
          killed                       \* loopers that got SIGKILL
serverVars == <<current, call, servers>>
looperVars == <<looper, shutting, procSet, gst, killed>>
recorderVars == <<serverVars, looperVars>>

None == 0
Alive == {l \in Loopers : looper[l] \notin {"unborn", "gone"}}

RecorderInit ==
  /\ current = None /\ call = [h \in Handlers |-> "idle"] /\ servers = 1
  /\ looper = [l \in Loopers |-> "unborn"] /\ shutting = {} /\ procSet = {} /\ killed = {}
  /\ gst = [l \in Loopers |-> "none"]

\* status(): its own child if it lives, else whatever looper ps shows.
OwnLooper == IF current \in Alive THEN current ELSE None
NothingRuns == OwnLooper = None /\ Alive = {}

-----------------------------------------------------------------------------
\* start: status() says nothing runs, and then a looper is spawned.
StartCall(h) ==
  /\ call[h] = "idle" /\ NothingRuns
  /\ call' = [call EXCEPT ![h] = "spawn"] /\ current' = None
  /\ UNCHANGED <<servers, looperVars>>
Spawn(h) ==
  /\ call[h] = "spawn" /\ call' = [call EXCEPT ![h] = "idle"]
  /\ \E l \in Loopers :
       /\ looper[l] = "unborn" /\ \A k \in Loopers : k < l => looper[k] # "unborn"
       /\ looper' = [looper EXCEPT ![l] = "loop"] /\ current' = l
  /\ UNCHANGED <<servers, shutting, procSet, gst, killed>>

\* SIGTERM to a looper: _request_shutdown sets the flag and terminates the child it knows of.
Shutdown(l) ==
  /\ shutting' = shutting \cup {l}
  /\ gst' = [gst EXCEPT ![l] = IF l \in procSet /\ @ = "runs" THEN "stopping" ELSE @]

\* stop: of its own looper only; it waits, and after STOP_TIMEOUT it kills.
StopCall(h) ==
  /\ call[h] = "idle" /\ OwnLooper # None /\ Shutdown(OwnLooper)
  /\ call' = [call EXCEPT ![h] = "wait"]
  /\ UNCHANGED <<current, servers, looper, procSet, killed>>
StopReturns(h) ==
  /\ call[h] = "wait" /\ OwnLooper = None
  /\ call' = [call EXCEPT ![h] = "idle"] /\ current' = None
  /\ UNCHANGED <<servers, looperVars>>
StopKills(h) ==
  /\ call[h] = "wait" /\ OwnLooper # None
  /\ looper' = [looper EXCEPT ![OwnLooper] = "gone"] /\ killed' = killed \cup {OwnLooper}
  /\ call' = [call EXCEPT ![h] = "idle"] /\ current' = None
  /\ UNCHANGED <<servers, shutting, procSet, gst>>

\* The server dies, and is started again without knowing of its looper.
ServerRestarts ==
  /\ servers < MaxServers /\ servers' = servers + 1
  /\ current' = None /\ call' = [h \in Handlers |-> "idle"]
  /\ UNCHANGED looperVars
\* Somebody else's SIGTERM: the system shuts down.
Signal(l) ==
  /\ l \in Alive \ shutting /\ Shutdown(l)
  /\ UNCHANGED <<serverVars, looper, procSet, killed>>

-----------------------------------------------------------------------------
\* main: while not _shutting_down.
Loop(l) ==
  /\ looper[l] = "loop"
  /\ looper' = [looper EXCEPT ![l] = IF l \in shutting THEN "gone" ELSE "spawn"]
  /\ UNCHANGED <<serverVars, shutting, procSet, gst, killed>>

\* run_child_once: the child runs before _current_proc names it; then the flag is looked at again.
Popen(l) ==
  /\ looper[l] = "spawn" /\ looper' = [looper EXCEPT ![l] = "assign"]
  /\ gst' = [gst EXCEPT ![l] = "runs"]
  /\ UNCHANGED <<serverVars, shutting, procSet, killed>>
Assign(l) ==
  /\ looper[l] = "assign" /\ looper' = [looper EXCEPT ![l] = "recheck"]
  /\ procSet' = procSet \cup {l}
  /\ UNCHANGED <<serverVars, shutting, gst, killed>>
\* As a bug: what the handler could not stop is not looked for again.
MustStopNot(l) == FALSE
MustStop(l) == l \in shutting
Recheck(l) ==
  /\ looper[l] = "recheck" /\ looper' = [looper EXCEPT ![l] = "wait"]
  /\ gst' = [gst EXCEPT ![l] = IF MustStop(l) /\ @ = "runs" THEN "stopping" ELSE @]
  /\ UNCHANGED <<serverVars, shutting, procSet, killed>>

\* The child is gone: after a shutdown main ends, after a clean exit it goes round, else it backs off.
Waited(l) ==
  /\ looper[l] = "wait" /\ gst[l] = "none"
  /\ looper' = [looper EXCEPT ![l] = IF l \in shutting THEN "gone" ELSE "loop"]
  /\ procSet' = procSet \ {l}
  /\ UNCHANGED <<serverVars, shutting, gst, killed>>

\* The pipeline ends by itself, or because it was told to.
Exits(l) ==
  /\ gst[l] = "runs" /\ gst' = [gst EXCEPT ![l] = "none"]
  /\ UNCHANGED <<serverVars, looper, shutting, procSet, killed>>
Obeys(l) ==
  /\ gst[l] = "stopping" /\ gst' = [gst EXCEPT ![l] = "none"]
  /\ UNCHANGED <<serverVars, looper, shutting, procSet, killed>>

LooperSteps(l) == Loop(l) \/ Popen(l) \/ Assign(l) \/ Recheck(l) \/ Waited(l)
RecorderNext ==
  \/ \E h \in Handlers : StartCall(h) \/ Spawn(h) \/ StopCall(h) \/ StopReturns(h) \/ StopKills(h)
  \/ ServerRestarts
  \/ \E l \in Loopers : Signal(l) \/ LooperSteps(l) \/ Exits(l) \/ Obeys(l)

-----------------------------------------------------------------------------
RecorderTypeOK ==
  /\ current \in Loopers \cup {None} /\ servers \in 1..MaxServers
  /\ \A h \in Handlers : call[h] \in {"idle", "spawn", "wait"}
  /\ \A l \in Loopers : /\ looper[l] \in {"unborn", "loop", "spawn", "assign", "recheck", "wait", "gone"}
                        /\ gst[l] \in {"none", "runs", "stopping"} /\ (l \in procSet => looper[l] # "unborn")

(* Whenever the signal falls - before the child is spawned, between Popen and the assignment, after the *)
(* last look at the flag - a looper that was told to shut down does not wait for a child that was not   *)
(* told, nor ends before its child, unless it was killed for being slow (_request_shutdown,             *)
(* run_child_once, "requested between spawn and here").                                                 *)
ShutdownStopsChild ==
  \A l \in shutting \ killed : /\ looper[l] = "wait" => gst[l] # "runs"
                               /\ looper[l] = "gone" => gst[l] = "none"
=============================================================================
