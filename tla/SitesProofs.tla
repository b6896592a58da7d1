----------------------------- MODULE SitesProofs -----------------------------
(***************************************************************************)
(* What lies around the servers, for every number of cameras, boxes,       *)
(* users, clusters and viewers: the parts of MCSites each have an          *)
(* inductive invariant of their own, from which the properties of the run  *)
(* follow. The parts are put together at the end.                          *)
(***************************************************************************)
EXTENDS MCSites, FiniteMax, FiniteSetTheorems, TLAPS

-----------------------------------------------------------------------------
\* The recorder at the edge.

RecorderSpec == RecorderInit /\ [][RecorderNext]_recorderVars

RecorderStates ==
  /\ current \in Loopers \cup {None} /\ servers \in 1..MaxServers
  /\ call \in [Handlers -> {"idle", "spawn", "wait"}]
  /\ looper \in [Loopers -> {"unborn", "loop", "spawn", "assign", "recheck", "wait", "gone"}]
  /\ gst \in [Loopers -> {"none", "runs", "stopping"}]
  /\ shutting \subseteq Loopers /\ procSet \subseteq Loopers /\ killed \subseteq Loopers

\* Where a looper is says whether it may have a child, whether it names it, and whether
\* the child must have been told.
ChildAt(l) ==
  /\ looper[l] \in {"unborn", "loop", "spawn"} => gst[l] = "none" /\ l \notin procSet
  /\ looper[l] = "assign" => l \notin procSet
  /\ looper[l] \in {"recheck", "wait"} => l \in procSet
  /\ looper[l] = "wait" /\ l \in shutting => gst[l] # "runs"
  /\ looper[l] = "gone" /\ l \notin killed => gst[l] = "none"
  /\ l \in killed => looper[l] = "gone"

RecorderInv == RecorderStates /\ \A l \in Loopers : ChildAt(l)

\* The recorder begins in the invariant.
LEMMA RecorderBegins == RecorderInit => RecorderInv
BY RecorderAssumption DEF RecorderInit, RecorderInv, RecorderStates, ChildAt, None

\* The threads of the server and its end: a looper is born without a child, a signal
\* reaches the child its looper names.
LEMMA ServerSteps ==
  ASSUME RecorderInv,
         (\E h \in Handlers : StartCall(h) \/ Spawn(h) \/ StopCall(h) \/ StopReturns(h) \/ StopKills(h))
         \/ ServerRestarts \/ (\E l \in Loopers : Signal(l))
  PROVE  RecorderInv'
<1> USE RecorderAssumption DEF RecorderInv, RecorderStates, serverVars, looperVars, None
<1>1. ASSUME NEW h \in Handlers, StartCall(h) \/ StopReturns(h) PROVE RecorderInv'
  BY <1>1 DEF StartCall, StopReturns, ChildAt
<1>2. ASSUME NEW h \in Handlers, Spawn(h) PROVE RecorderInv'
  BY <1>2 DEF Spawn, ChildAt
<1>3. ASSUME NEW l \in Alive, Shutdown(l), UNCHANGED <<looper, procSet, killed>>
      PROVE  /\ gst' \in [Loopers -> {"none", "runs", "stopping"}] /\ shutting' \subseteq Loopers
             /\ \A m \in Loopers : ChildAt(m)'
  BY <1>3 DEF Shutdown, Alive, ChildAt
<1>4. ASSUME NEW h \in Handlers, StopCall(h) PROVE RecorderInv'
  <2>1. OwnLooper \in Alive
    BY <1>4 DEF StopCall, OwnLooper
  <2> QED
    BY <1>3, <1>4, <2>1 DEF StopCall
<1>5. ASSUME NEW l \in Loopers, Signal(l) PROVE RecorderInv'
  BY <1>3, <1>5 DEF Signal
<1>6. ASSUME NEW h \in Handlers, StopKills(h) PROVE RecorderInv'
  <2>1. PICK l \in Loopers : l = OwnLooper
    BY <1>6 DEF StopKills, OwnLooper, Alive
  <2> QED
    BY <1>6, <2>1 DEF StopKills, ChildAt
<1>7. ASSUME ServerRestarts PROVE RecorderInv'
  BY <1>7 DEF ServerRestarts, ChildAt
<1> QED
  BY <1>1, <1>2, <1>4, <1>5, <1>6, <1>7

\* The looper's own steps, and its child's.
LEMMA LooperStepsKeep ==
  ASSUME RecorderInv, NEW l \in Loopers, LooperSteps(l) \/ Exits(l) \/ Obeys(l)
  PROVE  RecorderInv'
<1> USE DEF RecorderInv, RecorderStates, serverVars, ChildAt
<1>1. CASE Loop(l)
  BY <1>1 DEF Loop
<1>2. CASE Popen(l)
  BY <1>2 DEF Popen
<1>3. CASE Assign(l)
  BY <1>3 DEF Assign
<1>4. CASE Recheck(l)
  BY <1>4 DEF Recheck, MustStop
<1>5. CASE Waited(l)
  BY <1>5 DEF Waited
<1>6. CASE Exits(l) \/ Obeys(l)
  BY <1>6 DEF Exits, Obeys
<1> QED
  BY <1>1, <1>2, <1>3, <1>4, <1>5, <1>6 DEF LooperSteps

\* Every step keeps the invariant.
LEMMA RecorderStep == RecorderInv /\ [RecorderNext]_recorderVars => RecorderInv'
<1> SUFFICES ASSUME RecorderInv, [RecorderNext]_recorderVars PROVE RecorderInv'
  OBVIOUS
<1>1. CASE RecorderNext
  BY <1>1, ServerSteps, LooperStepsKeep DEF RecorderNext
<1>2. CASE UNCHANGED recorderVars
  BY <1>2 DEF recorderVars, serverVars, looperVars, RecorderInv, RecorderStates, ChildAt
<1> QED
  BY <1>1, <1>2

LEMMA RecorderInductive == RecorderSpec => []RecorderInv
BY RecorderBegins, RecorderStep, PTL DEF RecorderSpec

\* Whenever the signal falls, a looper that was told to shut down neither waits for a
\* child that was not told nor ends before its child (_request_shutdown, run_child_once).
THEOREM ShutdownReachesChild == RecorderSpec => []ShutdownStopsChild
<1>1. RecorderInv => ShutdownStopsChild
  BY DEF RecorderInv, RecorderStates, ChildAt, ShutdownStopsChild
<1> QED
  BY <1>1, RecorderInductive, PTL

\* The types of the recorder.
THEOREM RecorderTypeCorrect == RecorderSpec => []RecorderTypeOK
<1>1. RecorderInv => RecorderTypeOK
  BY DEF RecorderInv, RecorderStates, ChildAt, RecorderTypeOK
<1> QED
  BY <1>1, RecorderInductive, PTL

-----------------------------------------------------------------------------
\* The live gateway.

GatewaySpec == GatewayInit /\ [][GatewayNext]_gatewayVars

Tees == [life : Nat, subscribed : BOOLEAN]
Upstreams == [node : Nodes \cup {Nowhere}, life : Nat, viewers : SUBSET Viewers]

GatewayStates ==
  /\ tee \in [Nodes -> Tees] /\ teeLives \in Nat /\ where \in Nodes \cup {Nowhere}
  /\ upstream \in Upstreams /\ up \in BOOLEAN /\ watching \subseteq Viewers /\ orphaned \subseteq watching

\* An upstream is of a life that was drawn, and is subscribed as long as that life lasts;
\* who watches and was not left behind is among its viewers.
Feeding ==
  /\ \A n \in Nodes : tee[n].life <= teeLives /\ (tee[n].life = 0 => ~tee[n].subscribed)
  /\ IF up THEN /\ upstream.node \in Nodes /\ upstream.life \in 1..teeLives
                /\ tee[upstream.node].life = upstream.life => tee[upstream.node].subscribed
     ELSE upstream = NoUpstream
  /\ watching \ orphaned \subseteq upstream.viewers

GatewayInv == GatewayStates /\ Feeding

UpstreamOf(n, i, V) == [node |-> n, life |-> i, viewers |-> V]

\* An upstream is made of its parts.
LEMMA UpstreamMade ==
  ASSUME NEW n \in Nodes \cup {Nowhere}, NEW i \in Nat, NEW V \in SUBSET Viewers
  PROVE  /\ UpstreamOf(n, i, V) \in Upstreams
         /\ UpstreamOf(n, i, V).node = n /\ UpstreamOf(n, i, V).life = i /\ UpstreamOf(n, i, V).viewers = V
BY DEF Upstreams, UpstreamOf

\* No upstream is at no Node.
LEMMA UpstreamNone == NoUpstream \in Upstreams /\ NoUpstream.node = Nowhere /\ NoUpstream.viewers = {}
BY DEF Upstreams, NoUpstream

\* What a call does to the tee of a Node.
LEMMA TeeMoves ==
  ASSUME tee \in [Nodes -> Tees], NEW n \in Nodes, NEW s \in BOOLEAN, tee' = [tee EXCEPT ![n].subscribed = s]
  PROVE  /\ tee' \in [Nodes -> Tees] /\ tee'[n].life = tee[n].life /\ tee'[n].subscribed = s
         /\ \A m \in Nodes : m # n => tee'[m] = tee[m]
BY DEF Tees

\* The gateway begins in the invariant.
LEMMA GatewayBegins == GatewayInit => GatewayInv
<1> SUFFICES ASSUME GatewayInit PROVE GatewayInv
  OBVIOUS
<1>1. tee \in [Nodes -> Tees] /\ \A n \in Nodes : tee[n].life = 0 /\ tee[n].subscribed = FALSE
  BY DEF GatewayInit, Tees, Gone
<1>2. /\ teeLives = 0 /\ where = Nowhere /\ upstream = NoUpstream /\ up = FALSE
      /\ watching = {} /\ orphaned = {}
  BY DEF GatewayInit
<1>3. GatewayStates
  BY <1>1, <1>2, UpstreamNone DEF GatewayStates
<1>4. \A n \in Nodes : tee[n].life <= teeLives /\ (tee[n].life = 0 => ~tee[n].subscribed)
  BY <1>1, <1>2
<1> QED
  BY <1>2, <1>3, <1>4 DEF GatewayInv, Feeding

\* Tees come and go, and so do the directory's answers.
LEMMA TeeSteps ==
  ASSUME GatewayInv, (\E n \in Nodes : TeeStarts(n) \/ TeeEnds(n)) \/ DirectoryMoves
  PROVE  GatewayInv'
<1> USE DEF GatewayInv, GatewayStates, Feeding, Tees, Upstreams
<1>1. ASSUME NEW n \in Nodes, TeeStarts(n) PROVE GatewayInv'
  BY <1>1 DEF TeeStarts
<1>2. ASSUME NEW n \in Nodes, TeeEnds(n) PROVE GatewayInv'
  BY <1>2 DEF TeeEnds, Gone
<1>3. ASSUME DirectoryMoves PROVE GatewayInv'
  BY <1>3 DEF DirectoryMoves
<1> QED
  BY <1>1, <1>2, <1>3

\* The gateway's own calls.
LEMMA CallSteps ==
  ASSUME GatewayInv, (\E v \in Viewers : WatchMoved(v) \/ WatchSame(v) \/ Leave(v)) \/ Reconnect
  PROVE  GatewayInv'
<1> USE DEF GatewayInv, GatewayStates, Feeding, Tees, Upstreams
<1>1. ASSUME NEW v \in Viewers, WatchMoved(v) PROVE GatewayInv'
  <2>1. PICK n \in Nodes : n = where
    BY <1>1 DEF WatchMoved
  <2>2. tee[n].life \in Nat /\ tee[n].life # 0 /\ tee' = [tee EXCEPT ![n].subscribed = TRUE]
    BY <1>1, <2>1 DEF WatchMoved, Opens, Gone
  <2>3. upstream' = UpstreamOf(n, tee[n].life, {v})
    BY <1>1, <2>1 DEF WatchMoved, UpstreamOf
  <2>4. upstream' \in Upstreams /\ upstream'.node = n /\ upstream'.life = tee[n].life /\ upstream'.viewers = {v}
    BY <2>2, <2>3, UpstreamMade
  <2>5. /\ tee' \in [Nodes -> Tees] /\ tee'[n].life = tee[n].life /\ tee'[n].subscribed = TRUE
        /\ \A m \in Nodes : m # n => tee'[m] = tee[m]
    BY <2>2, TeeMoves
  <2>6. /\ up' = TRUE /\ UNCHANGED <<teeLives, where>> /\ watching' = watching \cup {v}
        /\ orphaned' = (orphaned \cup (upstream.viewers \cap watching)) \ {v}
    BY <1>1 DEF WatchMoved
  <2> HIDE DEF Upstreams, Tees
  <2>7. GatewayStates'
    BY <2>4, <2>5, <2>6
  <2> QED
    BY <2>2, <2>4, <2>5, <2>6, <2>7
<1>2. ASSUME NEW v \in Viewers, WatchSame(v) PROVE GatewayInv'
  BY <1>2 DEF WatchSame
<1>3. ASSUME NEW v \in Viewers, Leave(v) PROVE GatewayInv'
  <2>1. watching' = watching \ {v} /\ orphaned' = orphaned \ {v} /\ UNCHANGED <<teeLives, where>>
    BY <1>3 DEF Leave
  <2>2. CASE UNCHANGED <<tee, upstream, up>> /\ v \notin upstream.viewers
    BY <2>1, <2>2
  <2>3. CASE /\ v \in upstream.viewers /\ UNCHANGED <<tee, up>>
             /\ upstream' = [upstream EXCEPT !.viewers = upstream.viewers \ {v}]
    <3>1. /\ upstream' \in Upstreams /\ upstream'.viewers = upstream.viewers \ {v}
          /\ upstream'.node = upstream.node /\ upstream'.life = upstream.life
      BY <2>3
    <3>2. up
      BY <2>3, UpstreamNone
    <3> QED
      BY <2>1, <2>3, <3>1, <3>2
  <2>4. CASE /\ v \in upstream.viewers /\ upstream.viewers \ {v} = {} /\ upstream' = NoUpstream /\ up' = FALSE
             /\ tee' = [tee EXCEPT ![upstream.node].subscribed = FALSE]
    <3>1. up
      BY <2>4, UpstreamNone
    <3>2. PICK n \in Nodes : n = upstream.node
      BY <3>1
    <3>3. /\ tee' \in [Nodes -> Tees] /\ tee'[n].life = tee[n].life /\ tee'[n].subscribed = FALSE
          /\ \A m \in Nodes : m # n => tee'[m] = tee[m]
      BY <2>4, <3>2, TeeMoves
    <3>4. upstream' \in Upstreams /\ upstream'.viewers = {}
      BY <2>4, UpstreamNone
    <3> HIDE DEF Upstreams, Tees
    <3> QED
      BY <2>1, <2>4, <3>3, <3>4
  <2> QED
    BY <1>3, <2>2, <2>3, <2>4 DEF Leave
<1>4. ASSUME Reconnect PROVE GatewayInv'
  <2>1. PICK n \in Nodes : n = where
    BY <1>4 DEF Reconnect
  <2>2. tee[n].life \in Nat /\ tee[n].life # 0 /\ tee' = [tee EXCEPT ![n].subscribed = TRUE] /\ up
    BY <1>4, <2>1 DEF Reconnect, Opens, Gone
  <2>3. PICK V \in SUBSET Viewers : V = upstream.viewers
    OBVIOUS
  <2>4. upstream' = UpstreamOf(n, tee[n].life, V)
    BY <1>4, <2>1, <2>3 DEF Reconnect, Moved, UpstreamOf
  <2>5. upstream' \in Upstreams /\ upstream'.node = n /\ upstream'.life = tee[n].life /\ upstream'.viewers = V
    BY <2>2, <2>4, UpstreamMade
  <2>6. /\ tee' \in [Nodes -> Tees] /\ tee'[n].life = tee[n].life /\ tee'[n].subscribed = TRUE
        /\ \A m \in Nodes : m # n => tee'[m] = tee[m]
    BY <2>2, TeeMoves
  <2>7. UNCHANGED <<teeLives, where, up, watching, orphaned>>
    BY <1>4 DEF Reconnect
  <2> HIDE DEF Upstreams, Tees
  <2>8. GatewayStates'
    BY <2>5, <2>6, <2>7
  <2> QED
    BY <2>2, <2>3, <2>5, <2>6, <2>7, <2>8
<1> QED
  BY <1>1, <1>2, <1>3, <1>4

\* Every step keeps the invariant.
LEMMA GatewayStep == GatewayInv /\ [GatewayNext]_gatewayVars => GatewayInv'
<1> SUFFICES ASSUME GatewayInv, [GatewayNext]_gatewayVars PROVE GatewayInv'
  OBVIOUS
<1>1. CASE GatewayNext
  BY <1>1, TeeSteps, CallSteps DEF GatewayNext
<1>2. CASE UNCHANGED gatewayVars
  BY <1>2 DEF gatewayVars, GatewayInv, GatewayStates, Feeding
<1> QED
  BY <1>1, <1>2

LEMMA GatewayInductive == GatewaySpec => []GatewayInv
BY GatewayBegins, GatewayStep, PTL DEF GatewaySpec

\* A viewer that has not left and was not left behind by a watch() of another Node is
\* fed by the gateway's one subscription while its tee lives (watch, reconnect, leave).
THEOREM ViewersAreFed == GatewaySpec => []ViewerIsFed
<1>1. GatewayInv => ViewerIsFed
  BY DEF GatewayInv, GatewayStates, Feeding, ViewerIsFed, NoUpstream
<1> QED
  BY <1>1, GatewayInductive, PTL

\* The types of the gateway.
THEOREM GatewayTypeCorrect == GatewaySpec => []GatewayTypeOK
<1>1. GatewayInv => GatewayTypeOK
  BY GatewayAssumption DEF GatewayInv, GatewayStates, Feeding, GatewayTypeOK, Tees, Upstreams, NoUpstream, Gone
<1> QED
  BY <1>1, GatewayInductive, PTL

-----------------------------------------------------------------------------
\* Where the domain puts a camera and what it shows.

PlaceSpec == PlaceInit /\ [][PlaceNext]_placeVars

Placements == [cluster : Nat, rev : Nat]
Subjects == Tokens \cup {Idle.token}
Calls == [at : {"idle", "reread", "count", "raise", "put"}, camera : Cameras \cup {Resting.camera},
          cluster : Nat, rev : Nat, seen : Nat, tries : Nat]

PlaceStates ==
  /\ linked \subseteq Regions /\ downSince \subseteq Regions /\ pass \in 0..NClusters
  /\ beat \in [Regions -> Nat] /\ snapshot \in [Regions -> Nat]
  /\ placement \in [Cameras -> Placements] /\ counter \in Nat /\ placer \in [Placers -> Calls]
  /\ told \subseteq [camera : Cameras, by : Placements]

ViewLags == \A r \in Regions : snapshot[r] <= beat[r]

\* A call that is under way is for a camera, with a cluster that sees it.
CallOK(k) ==
  /\ k.at # "idle" => k.camera \in Cameras /\ k.cluster \in Reaches[k.camera]
  /\ k.tries <= Retries /\ (k.at = "reread" => k.tries < Retries)

\* A revision is drawn once: by the placement that has it, or by the call that is to put it.
DrawnOnce ==
  /\ \A c \in Cameras : /\ placement[c].rev <= counter
                        /\ placement[c] # Unplaced => placement[c].rev # 0 /\ placement[c].cluster \in Reaches[c]
  /\ \A c, d \in Cameras : placement[c].rev = placement[d].rev /\ placement[c].rev # 0 => c = d
  /\ \A p \in Placers : placer[p].at = "put" =>
       /\ placer[p].rev \in 1..counter
       /\ \A c \in Cameras : placement[c].rev # placer[p].rev
       /\ \A q \in Placers : placer[q].at = "put" /\ placer[q].rev = placer[p].rev => q = p
  /\ \A t \in told : t.by = placement[t.camera] /\ placement[t.camera] # Unplaced

PlaceInv == PlaceStates /\ ViewLags /\ (\A p \in Placers : CallOK(placer[p])) /\ DrawnOnce

LEMMA RestingCall == Resting \in Calls /\ Resting.at = "idle" /\ Resting.tries = 0 /\ Resting.rev = 0
BY DEF Resting, Calls

LEMMA UnplacedRow == Unplaced \in Placements /\ Unplaced.rev = 0
BY DEF Unplaced, Placements

\* Placement begins in the invariant.
LEMMA PlaceBegins == PlaceInit => PlaceInv
<1> SUFFICES ASSUME PlaceInit PROVE PlaceInv
  OBVIOUS
<1> USE PlaceAssumption DEF PlaceInit
<1>1. PlaceStates
  BY RestingCall, UnplacedRow DEF PlaceStates, Regions, Waiting
<1>2. ViewLags
  BY DEF ViewLags
<1>3. \A p \in Placers : CallOK(placer[p])
  BY RestingCall DEF CallOK
<1>4. DrawnOnce
  BY RestingCall, UnplacedRow DEF DrawnOnce
<1> QED
  BY <1>1, <1>2, <1>3, <1>4 DEF PlaceInv

\* The states a call goes through.
Asked(c, b) == [Resting EXCEPT !.at = "reread", !.camera = c, !.cluster = b]
Tried(k, n) == [k EXCEPT !.at = "count", !.tries = n]
Seen(k, n) == [k EXCEPT !.at = "raise", !.seen = n]
Drew(k, n) == [k EXCEPT !.at = "put", !.rev = n]
Back(k, at) == [k EXCEPT !.at = at]

\* A cluster that a camera reaches is a number.
LEMMA ReachedIsNumber == ASSUME NEW c \in Cameras, NEW b \in Reaches[c] PROVE b \in Regions /\ b \in Nat
BY PlaceAssumption DEF Regions

LEMMA CallAsked ==
  ASSUME NEW c \in Cameras, NEW b \in Nat
  PROVE  /\ Asked(c, b) \in Calls /\ Asked(c, b).at = "reread" /\ Asked(c, b).camera = c
         /\ Asked(c, b).cluster = b /\ Asked(c, b).tries = 0
BY DEF Asked, Calls, Resting

LEMMA CallTried ==
  ASSUME NEW k \in Calls, NEW n \in Nat
  PROVE  /\ Tried(k, n) \in Calls /\ Tried(k, n).at = "count" /\ Tried(k, n).camera = k.camera
         /\ Tried(k, n).cluster = k.cluster /\ Tried(k, n).tries = n
BY DEF Tried, Calls

LEMMA CallSeen ==
  ASSUME NEW k \in Calls, NEW n \in Nat
  PROVE  /\ Seen(k, n) \in Calls /\ Seen(k, n).at = "raise" /\ Seen(k, n).camera = k.camera
         /\ Seen(k, n).cluster = k.cluster /\ Seen(k, n).tries = k.tries
BY DEF Seen, Calls

LEMMA CallDrew ==
  ASSUME NEW k \in Calls, NEW n \in Nat
  PROVE  /\ Drew(k, n) \in Calls /\ Drew(k, n).at = "put" /\ Drew(k, n).camera = k.camera
         /\ Drew(k, n).cluster = k.cluster /\ Drew(k, n).tries = k.tries /\ Drew(k, n).rev = n
BY DEF Drew, Calls

LEMMA CallBack ==
  ASSUME NEW k \in Calls, NEW at \in {"reread", "count"}
  PROVE  /\ Back(k, at) \in Calls /\ Back(k, at).at = at /\ Back(k, at).camera = k.camera
         /\ Back(k, at).cluster = k.cluster /\ Back(k, at).tries = k.tries
BY DEF Back, Calls

\* A call moves alone.
LEMMA PlacerMoves ==
  ASSUME placer \in [Placers -> Calls], NEW p \in Placers, NEW r \in Calls, placer' = [placer EXCEPT ![p] = r]
  PROVE  /\ placer' \in [Placers -> Calls] /\ placer'[p] = r
         /\ \A q \in Placers : q # p => placer'[q] = placer[q]
OBVIOUS

\* A step of a call that neither draws a number nor puts, and may be told what is placed.
LEMMA CallMoves ==
  ASSUME PlaceInv, NEW p \in Placers, NEW r \in Calls, placer' = [placer EXCEPT ![p] = r],
         CallOK(r), r.at # "put",
         UNCHANGED <<linked, placement, counter, viewVars>>,
         \A t \in told' : t \in told \/ (/\ t \in [camera : Cameras, by : Placements]
                                         /\ t.by = placement[t.camera] /\ t.by # Unplaced)
  PROVE  PlaceInv'
<1> USE DEF PlaceInv, viewVars
<1>1. placer' \in [Placers -> Calls] /\ placer'[p] = r /\ \A q \in Placers : q # p => placer'[q] = placer[q]
  BY PlacerMoves DEF PlaceStates
<1> HIDE DEF Calls, Placements
<1>2. PlaceStates'
  BY <1>1 DEF PlaceStates
<1>3. ViewLags'
  BY DEF ViewLags
<1>4. \A q \in Placers : CallOK(placer'[q])
  BY <1>1
<1>5. \A t \in told' : t.by = placement'[t.camera] /\ placement'[t.camera] # Unplaced
  BY DEF DrawnOnce
<1>6. DrawnOnce'
  BY <1>1, <1>5 DEF DrawnOnce
<1> QED
  BY <1>2, <1>3, <1>4, <1>6 DEF CallOK

\* The call's answer names what is stored.
LEMMA ToldOfPlaced ==
  ASSUME PlaceInv, NEW c \in Cameras, placement[c] # Unplaced,
         told' = told \cup {[camera |-> c, by |-> placement[c]]}
  PROVE  \A t \in told' : t \in told \/ (/\ t \in [camera : Cameras, by : Placements]
                                         /\ t.by = placement[t.camera] /\ t.by # Unplaced)
BY DEF PlaceInv, PlaceStates

\* The steps before a number is drawn, and those that are sent back.
LEMMA AskSteps ==
  ASSUME PlaceInv, NEW p \in Placers, (\E c \in Cameras : AskPlace(p, c)) \/ Reread(p) \/ ReadCounter(p)
  PROVE  PlaceInv'
<1>1. PICK k \in Calls : k = placer[p] /\ CallOK(k)
  BY DEF PlaceInv, PlaceStates
<1>2. placement \in [Cameras -> Placements] /\ counter \in Nat /\ placer \in [Placers -> Calls]
  BY DEF PlaceInv, PlaceStates
<1>3. ASSUME NEW c \in Cameras, AskPlace(p, c) PROVE PlaceInv'
  <2>1. UNCHANGED <<linked, placement, counter, viewVars>>
    BY <1>3 DEF AskPlace
  <2>2. CASE placement[c] # Unplaced
    <3>1. told' = told \cup {[camera |-> c, by |-> placement[c]]} /\ placer' = placer
      BY <1>3, <2>2 DEF AskPlace
    <3>2. placer' = [placer EXCEPT ![p] = k] /\ k.at # "put"
      BY <1>1, <1>2, <1>3, <3>1 DEF AskPlace
    <3> QED
      BY <1>1, <2>1, <2>2, <3>1, <3>2, ToldOfPlaced, CallMoves
  <2>3. CASE placement[c] = Unplaced
    <3>1. told' = told /\ \E b \in Reaches[c] : placer' = [placer EXCEPT ![p] = Asked(c, b)]
      BY <1>3, <2>3 DEF AskPlace, Candidates, Asked
    <3>2. PICK b \in Reaches[c] : placer' = [placer EXCEPT ![p] = Asked(c, b)]
      BY <3>1
    <3>3. /\ Asked(c, b) \in Calls /\ Asked(c, b).at = "reread" /\ Asked(c, b).camera = c
          /\ Asked(c, b).cluster = b /\ Asked(c, b).tries = 0
      BY ReachedIsNumber, CallAsked
    <3>4. CallOK(Asked(c, b))
      BY <3>3, PlaceAssumption DEF CallOK
    <3> QED
      BY <2>1, <3>1, <3>2, <3>3, <3>4, CallMoves
  <2> QED
    BY <2>2, <2>3
<1>4. ASSUME Reread(p) PROVE PlaceInv'
  <2>1. UNCHANGED <<linked, placement, counter, viewVars>> /\ k.at = "reread"
    BY <1>1, <1>4 DEF Reread
  <2>2. PICK c \in Cameras : c = k.camera
    BY <1>1, <2>1 DEF CallOK
  <2>3. CASE placement[c] # Unplaced
    <3>1. told' = told \cup {[camera |-> c, by |-> placement[c]]} /\ placer' = [placer EXCEPT ![p] = Resting]
      BY <1>1, <1>4, <2>2, <2>3 DEF Reread
    <3>2. CallOK(Resting)
      BY RestingCall, PlaceAssumption DEF CallOK
    <3> QED
      BY <2>1, <2>3, <3>1, <3>2, RestingCall, ToldOfPlaced, CallMoves
  <2>4. CASE placement[c] = Unplaced
    <3>1. PICK n \in Nat : n = k.tries + 1 /\ n <= Retries
      BY <1>1, <2>1, PlaceAssumption DEF CallOK, Calls
    <3>2. told' = told /\ placer' = [placer EXCEPT ![p] = Tried(k, n)]
      BY <1>1, <1>4, <2>2, <2>4, <3>1 DEF Reread, Tried
    <3>3. CallOK(Tried(k, n))
      <4>1. /\ Tried(k, n).at = "count" /\ Tried(k, n).camera = k.camera
            /\ Tried(k, n).cluster = k.cluster /\ Tried(k, n).tries = n
        BY <1>1, CallTried
      <4>2. k.camera \in Cameras /\ k.cluster \in Reaches[k.camera]
        BY <1>1, <2>1 DEF CallOK
      <4> QED
        BY <3>1, <4>1, <4>2 DEF CallOK
    <3> QED
      BY <2>1, <3>2, <3>3, CallTried, CallMoves
  <2> QED
    BY <2>3, <2>4
<1>5. ASSUME ReadCounter(p) PROVE PlaceInv'
  <2>1. UNCHANGED <<linked, placement, counter, viewVars, told>> /\ k.at = "count"
    BY <1>1, <1>5 DEF ReadCounter
  <2>2. placer' = [placer EXCEPT ![p] = Seen(k, counter)]
    BY <1>1, <1>5 DEF ReadCounter, Seen
  <2>3. CallOK(Seen(k, counter))
    BY <1>1, <1>2, <2>1, CallSeen DEF CallOK
  <2> QED
    BY <1>2, <2>1, <2>2, <2>3, CallSeen, CallMoves
<1> QED
  BY <1>3, <1>4, <1>5

\* A number is drawn that nobody had.
LEMMA RaiseStep ==
  ASSUME PlaceInv, NEW p \in Placers, RaiseCounter(p)
  PROVE  PlaceInv'
<1>1. PICK k \in Calls : k = placer[p] /\ CallOK(k)
  BY DEF PlaceInv, PlaceStates
<1>2. placement \in [Cameras -> Placements] /\ counter \in Nat /\ placer \in [Placers -> Calls]
  BY DEF PlaceInv, PlaceStates
<1>3. k.at = "raise" /\ UNCHANGED <<linked, placement, told, viewVars>>
  BY <1>1 DEF RaiseCounter
<1>4. CASE ~Raised(p)
  <2>1. placer' = [placer EXCEPT ![p] = Back(k, "count")] /\ counter' = counter
    BY <1>1, <1>4 DEF RaiseCounter, Back
  <2>2. CallOK(Back(k, "count"))
    BY <1>1, <1>3, CallBack DEF CallOK
  <2> QED
    BY <1>3, <2>1, <2>2, CallBack, CallMoves
<1>5. CASE Raised(p)
  <2>1. PICK n \in Nat : n = counter + 1
    BY <1>2
  <2>2. counter' = n /\ placer' = [placer EXCEPT ![p] = Drew(k, n)]
    BY <1>1, <1>5, <2>1 DEF RaiseCounter, Raised, Drew
  <2>3. PICK r \in Calls : r = Drew(k, n)
    BY CallDrew
  <2>4. r.at = "put" /\ r.camera = k.camera /\ r.cluster = k.cluster /\ r.tries = k.tries /\ r.rev = n
    BY <2>3, CallDrew
  <2>5. placer' \in [Placers -> Calls] /\ placer'[p] = r /\ \A q \in Placers : q # p => placer'[q] = placer[q]
    BY <1>2, <2>2, <2>3, PlacerMoves
  <2>6. PlaceStates'
    BY <1>3, <2>2, <2>5 DEF PlaceInv, PlaceStates, viewVars
  <2>7. ViewLags'
    BY <1>3 DEF PlaceInv, ViewLags, viewVars
  <2>8. CallOK(r)
    BY <1>1, <1>3, <2>4 DEF CallOK
  <2>9. \A q \in Placers : CallOK(placer'[q])
    BY <2>5, <2>8 DEF PlaceInv
  <2>10. \A c \in Cameras : placement[c].rev \in Nat
    BY <1>2 DEF Placements
  <2>11. \A c \in Cameras : /\ placement'[c].rev <= counter' /\ placement'[c].rev # n
                            /\ placement'[c] # Unplaced => placement'[c].rev # 0 /\ placement'[c].cluster \in Reaches[c]
    BY <1>2, <1>3, <2>1, <2>2, <2>10 DEF PlaceInv, DrawnOnce
  <2>12. \A q \in Placers : q # p /\ placer'[q].at = "put" =>
           /\ placer[q].at = "put" /\ placer'[q].rev = placer[q].rev
           /\ placer'[q].rev \in 1..counter' /\ placer'[q].rev # n
    BY <1>2, <2>1, <2>2, <2>5 DEF PlaceInv, DrawnOnce
  <2>13. \A q \in Placers : placer'[q].at = "put" =>
           /\ placer'[q].rev \in 1..counter'
           /\ \A c \in Cameras : placement'[c].rev # placer'[q].rev
           /\ \A o \in Placers : placer'[o].at = "put" /\ placer'[o].rev = placer'[q].rev => o = q
    <3>1. ASSUME NEW q \in Placers, placer'[q].at = "put", q # p
          PROVE  <2>13!(q)!2
      BY <1>3, <2>4, <2>5, <2>12, <3>1 DEF PlaceInv, DrawnOnce
    <3>2. <2>13!(p)!2
      BY <1>2, <2>1, <2>2, <2>4, <2>5, <2>11, <2>12
    <3> QED
      BY <3>1, <3>2
  <2>14. DrawnOnce'
    BY <1>3, <2>11, <2>13 DEF PlaceInv, DrawnOnce
  <2> QED
    BY <2>6, <2>7, <2>9, <2>14 DEF PlaceInv, CallOK
<1> QED
  BY <1>4, <1>5

\* A placement is put once, with the number its call has drawn.
LEMMA PutStep ==
  ASSUME PlaceInv, NEW p \in Placers, PutPlacement(p)
  PROVE  PlaceInv'
<1>1. PICK k \in Calls : k = placer[p] /\ CallOK(k)
  BY DEF PlaceInv, PlaceStates
<1>2. placement \in [Cameras -> Placements] /\ counter \in Nat /\ placer \in [Placers -> Calls]
  BY DEF PlaceInv, PlaceStates
<1>3. k.at = "put" /\ UNCHANGED <<linked, counter, viewVars>>
  BY <1>1 DEF PutPlacement
<1>4. PICK c \in Cameras : c = k.camera /\ k.cluster \in Reaches[c]
  BY <1>1, <1>3 DEF CallOK
<1>5. CallOK(Resting)
  BY RestingCall, PlaceAssumption DEF CallOK
<1>6. CASE placement[c] # Unplaced
  <2>1. UNCHANGED <<placement, told>>
    BY <1>1, <1>4, <1>6 DEF PutPlacement
  <2>2. CASE k.tries < Retries
    <3>1. placer' = [placer EXCEPT ![p] = Back(k, "reread")]
      BY <1>1, <1>4, <1>6, <2>2 DEF PutPlacement, Back
    <3>2. CallOK(Back(k, "reread"))
      BY <1>1, <1>3, <2>2, CallBack DEF CallOK
    <3> QED
      BY <1>3, <2>1, <3>1, <3>2, CallBack, CallMoves
  <2>3. CASE ~(k.tries < Retries)
    <3>1. placer' = [placer EXCEPT ![p] = Resting]
      BY <1>1, <1>4, <1>6, <2>3 DEF PutPlacement
    <3> QED
      BY <1>3, <1>5, <2>1, <3>1, RestingCall, CallMoves
  <2> QED
    BY <2>2, <2>3
<1>7. CASE placement[c] = Unplaced
  <2>1. PICK new \in Placements : /\ new.cluster = k.cluster /\ new.rev = k.rev
                                 /\ new = [cluster |-> k.cluster, rev |-> k.rev]
    BY DEF Placements, Calls
  <2>2. /\ placement' = [placement EXCEPT ![c] = new] /\ placer' = [placer EXCEPT ![p] = Resting]
        /\ told' = told \cup {[camera |-> c, by |-> new]}
    BY <1>1, <1>4, <1>7, <2>1 DEF PutPlacement
  <2>3. placer' \in [Placers -> Calls] /\ placer'[p] = Resting /\ \A q \in Placers : q # p => placer'[q] = placer[q]
    BY <1>2, <2>2, RestingCall, PlacerMoves
  <2>4. /\ placement' \in [Cameras -> Placements] /\ placement'[c] = new
        /\ \A d \in Cameras : d # c => placement'[d] = placement[d]
    BY <1>2, <2>2
  <2>5. PlaceStates'
    BY <1>3, <2>2, <2>3, <2>4 DEF PlaceInv, PlaceStates, viewVars
  <2>6. ViewLags'
    BY <1>3 DEF PlaceInv, ViewLags, viewVars
  <2>7. \A q \in Placers : CallOK(placer'[q])
    BY <1>5, <2>3 DEF PlaceInv
  <2>8. new.rev \in 1..counter /\ \A d \in Cameras : placement[d].rev # new.rev
    BY <1>1, <1>3, <2>1 DEF PlaceInv, DrawnOnce
  <2>9. \A q \in Placers : placer'[q].at = "put" => q # p /\ placer'[q] = placer[q] /\ placer[q].rev # new.rev
    <3>1. placer'[p].at # "put"
      BY <2>3, RestingCall
    <3> QED
      BY <1>1, <1>3, <2>1, <2>3, <3>1 DEF PlaceInv, DrawnOnce
  <2>10. new # Unplaced
    BY <2>8, UnplacedRow
  <2>11. \A t \in told' : t.by = placement'[t.camera] /\ placement'[t.camera] # Unplaced
    BY <1>7, <2>2, <2>4, <2>10 DEF PlaceInv, PlaceStates, DrawnOnce
  <2>12. \A d \in Cameras : /\ placement'[d].rev <= counter'
                            /\ placement'[d] # Unplaced => placement'[d].rev # 0 /\ placement'[d].cluster \in Reaches[d]
    BY <1>2, <1>3, <1>4, <2>1, <2>4, <2>8 DEF PlaceInv, DrawnOnce
  <2>13. \A d, e \in Cameras : placement'[d].rev = placement'[e].rev /\ placement'[d].rev # 0 => d = e
    BY <2>4, <2>8 DEF PlaceInv, DrawnOnce
  <2>14. \A q \in Placers : placer'[q].at = "put" =>
           /\ placer'[q].rev \in 1..counter'
           /\ \A d \in Cameras : placement'[d].rev # placer'[q].rev
           /\ \A o \in Placers : placer'[o].at = "put" /\ placer'[o].rev = placer'[q].rev => o = q
    BY <1>3, <2>4, <2>9 DEF PlaceInv, DrawnOnce
  <2>15. DrawnOnce'
    BY <2>11, <2>12, <2>13, <2>14 DEF DrawnOnce
  <2> QED
    BY <2>5, <2>6, <2>7, <2>15 DEF PlaceInv, CallOK
<1> QED
  BY <1>6, <1>7

\* The view reads what the clusters say and touches no placement.
LEMMA ViewSteps ==
  ASSUME PlaceInv, ViewNext
  PROVE  PlaceInv'
<1>1. linked' \subseteq Regions /\ downSince' \subseteq Regions /\ UNCHANGED placerVars
  BY DEF ViewNext, LinkChanges, Heartbeats, RefreshBegin, RefreshNext, RefreshFails, PlaceInv, PlaceStates, viewVars
<1>2. /\ beat' \in [Regions -> Nat] /\ snapshot' \in [Regions -> Nat] /\ pass' \in 0..NClusters
      /\ \A r \in Regions : snapshot'[r] <= beat'[r]
  <2> USE PlaceAssumption DEF PlaceInv, PlaceStates, ViewLags, viewVars, Regions, Waiting
  <2>1. ASSUME NEW r \in Regions, LinkChanges(r) \/ Heartbeats(r) PROVE <1>2!1 /\ <1>2!2
    BY <2>1 DEF LinkChanges, Heartbeats
  <2>2. CASE RefreshBegin \/ RefreshFails
    BY <2>2 DEF RefreshBegin, RefreshFails
  <2>3. CASE RefreshNext
    BY <2>3 DEF RefreshNext
  <2> QED
    BY <2>1, <2>2, <2>3 DEF ViewNext
<1> QED
  BY <1>1, <1>2 DEF PlaceInv, PlaceStates, ViewLags, DrawnOnce, CallOK, placerVars

\* Every step keeps the invariant.
LEMMA PlaceStep == PlaceInv /\ [PlaceNext]_placeVars => PlaceInv'
<1> SUFFICES ASSUME PlaceInv, [PlaceNext]_placeVars PROVE PlaceInv'
  OBVIOUS
<1>1. CASE PlaceNext
  BY <1>1, AskSteps, RaiseStep, PutStep, ViewSteps DEF PlaceNext, PlacersNext
<1>2. CASE UNCHANGED placeVars
  BY <1>2 DEF placeVars, viewVars, placerVars, PlaceInv, PlaceStates, ViewLags, DrawnOnce, CallOK
<1> QED
  BY <1>1, <1>2

LEMMA PlaceInductive == PlaceSpec => []PlaceInv
BY PlaceBegins, PlaceStep, PTL DEF PlaceSpec

\* Every placer is told the placement that is stored, a camera's never changes, and no
\* two cameras are placed under one revision (ClusterPlacer.place, _store, _rev).
THEOREM CamerasArePlacedOnce == PlaceSpec => []PlacedOnce
<1>1. PlaceInv => PlacedOnce
  BY DEF PlaceInv, DrawnOnce, PlacedOnce
<1> QED
  BY <1>1, PlaceInductive, PTL

\* The types of the placement and of the read view.
THEOREM PlaceTypeCorrect == PlaceSpec => []PlaceTypeOK
<1>1. PlaceInv => PlaceTypeOK
  BY DEF PlaceInv, PlaceStates, ViewLags, CallOK, DrawnOnce, PlaceTypeOK, Calls
<1> QED
  BY <1>1, PlaceInductive, PTL

-----------------------------------------------------------------------------
\* The domain's certificates.

EnrollSpec == EnrollInit /\ [][EnrollNext]_enrollVars

Roots == [gen : Nat \ {0}, key : Nat]
Entries == [key : Nat, retire : Nat]
Leaves == [gen : Nat, key : Nat, pub : Nat, end : Nat]
Boxes == [pub : Nat, hellos : Nat, temp : BOOLEAN, leaf : Leaves]
Hellos == [pub : Nat, expires : Nat]
Vouchers == [nonce : Nat, end : Nat]

BoxStates ==
  /\ pledge \in [Pledges -> Boxes] /\ answer \in [Pledges -> Leaves]
  /\ waiting \in [Pledges -> Hellos] /\ voucher \in [Pledges -> Vouchers]
  /\ \A p \in Pledges : pledge[p].temp = (pledge[p].leaf = NoLeaf) /\ waiting[p].pub <= pledge[p].pub

SignerStates ==
  /\ day \in 1..MaxDays /\ lastKey \in 1..MaxRoots /\ restarts \in 0..MaxRestarts
  /\ unsaved \in BOOLEAN /\ torn \in BOOLEAN
  /\ root \in Roots /\ storedRoot \in Roots /\ backup \in Roots
  /\ DOMAIN bundle \subseteq Nat /\ bundle \in [DOMAIN bundle -> Entries]
  /\ \A r \in {root, storedRoot, backup} : r.gen \in DOMAIN bundle /\ r.key \in 1..lastKey
  /\ \A g \in DOMAIN bundle : bundle[g].key \in 1..lastKey /\ bundle[g].retire \in 0..(MaxDays + RootOverlap)

\* A certificate of a root that every peer knows, and trusts for as long as it runs.
Trusted(c) ==
  /\ c.gen \in DOMAIN bundle /\ bundle[c.gen].key = c.key /\ c.end <= day + LeafLife
  /\ bundle[c.gen].retire = 0 \/ c.end < bundle[c.gen].retire

\* While the signer and the bundle agree, the signer's root is the last in the bundle, and
\* whatever it has signed is trusted.
Agreement ==
  ~torn /\ LeafLife < RootOverlap =>
    /\ \A g \in DOMAIN bundle : g <= root.gen
    /\ bundle[root.gen].key = root.key /\ bundle[root.gen].retire = 0
    /\ \A p \in Pledges : \A c \in {pledge[p].leaf, answer[p]} : c # NoLeaf => Trusted(c)

EnrollInv == SignerStates /\ BoxStates /\ Agreement

LEMMA NoLeafFields == NoLeaf \in Leaves /\ NoLeaf.gen = 0
BY DEF NoLeaf, Leaves

NewBox == [pub |-> 0, hellos |-> 0, temp |-> TRUE, leaf |-> NoLeaf]
LEMMA NewBoxFields == NewBox \in Boxes /\ NewBox.temp = TRUE /\ NewBox.leaf = NoLeaf /\ NewBox.pub = 0
<1>1. PICK c \in Leaves : c = NoLeaf
  BY NoLeafFields
<1>2. NewBox = [pub |-> 0, hellos |-> 0, temp |-> TRUE, leaf |-> c]
  BY <1>1 DEF NewBox
<1> HIDE DEF Leaves
<1> QED
  BY <1>1, <1>2 DEF Boxes

\* What the signer issues is a certificate under its root.
LEMMA IssueMade ==
  ASSUME SignerStates, NEW n \in Nat
  PROVE  /\ Issue(n) \in Leaves /\ Issue(n) # NoLeaf
         /\ Issue(n).gen = root.gen /\ Issue(n).key = root.key /\ Issue(n).end = day + LeafLife
<1>1. PICK g \in Nat \ {0}, k \in Nat : g = root.gen /\ k = root.key
  BY DEF SignerStates, Roots
<1>2. PICK e \in Nat : e = day + LeafLife
  BY EnrollAssumption DEF SignerStates
<1>3. Issue(n) = [gen |-> g, key |-> k, pub |-> n, end |-> e]
  BY <1>1, <1>2 DEF Issue
<1>4. Issue(n) \in Leaves /\ Issue(n).gen = g /\ Issue(n).key = k /\ Issue(n).end = e
  BY <1>3 DEF Leaves
<1> QED
  BY <1>1, <1>2, <1>4, NoLeafFields

\* The certificates begin in the invariant.
LEMMA EnrollBegins == EnrollInit => EnrollInv
<1> SUFFICES ASSUME EnrollInit PROVE EnrollInv
  OBVIOUS
<1> USE EnrollAssumption DEF EnrollInit
<1>1. root \in Roots /\ storedRoot \in Roots /\ backup \in Roots /\ root.gen = 1 /\ root.key = 1
      /\ storedRoot.gen = 1 /\ storedRoot.key = 1 /\ backup.gen = 1 /\ backup.key = 1
  BY DEF Roots
<1>2. DOMAIN bundle = {1} /\ bundle \in [{1} -> Entries] /\ bundle[1].key = 1 /\ bundle[1].retire = 0
  BY DEF Entries
<1>3. SignerStates
  <2>1. /\ day \in 1..MaxDays /\ lastKey \in 1..MaxRoots /\ restarts \in 0..MaxRestarts
        /\ unsaved \in BOOLEAN /\ torn \in BOOLEAN /\ lastKey = 1
    <3>1. MaxDays \in Nat \ {0} /\ MaxRoots \in Nat \ {0} /\ MaxRestarts \in Nat
      OBVIOUS
    <3>2. day = 1 /\ lastKey = 1 /\ restarts = 0 /\ unsaved = FALSE /\ torn = FALSE
      BY ZenonT(60)
    <3>3. unsaved \in BOOLEAN /\ torn \in BOOLEAN
      BY ONLY <3>2, ZenonT(60)
    <3>4. day \in 1..MaxDays /\ lastKey \in 1..MaxRoots /\ restarts \in 0..MaxRestarts
      BY ONLY <3>1, <3>2
    <3> QED
      BY ONLY <3>2, <3>3, <3>4, ZenonT(60)
  <2>2. DOMAIN bundle \subseteq Nat /\ bundle \in [DOMAIN bundle -> Entries]
    BY <1>2
  <2>3. 0 \in 0..(MaxDays + RootOverlap)
    OBVIOUS
  <2>4. \A r \in {root, storedRoot, backup} : r.gen \in DOMAIN bundle /\ r.key \in 1..lastKey
    BY ONLY <1>1, <1>2, <2>1
  <2>5. \A g \in DOMAIN bundle : bundle[g].key \in 1..lastKey /\ bundle[g].retire \in 0..(MaxDays + RootOverlap)
    BY ONLY <1>2, <2>1, <2>3
  <2> QED
    BY ONLY <1>1, <2>1, <2>2, <2>4, <2>5, ZenonT(60) DEF SignerStates
<1>4. /\ waiting \in [Pledges -> Hellos] /\ voucher \in [Pledges -> Vouchers]
      /\ \A p \in Pledges : waiting[p].pub = 0
  BY DEF Hellos, Vouchers, NoHello
<1>5. PICK x \in Boxes : x = NewBox /\ x.temp = TRUE /\ x.leaf = NoLeaf /\ x.pub = 0
  BY NewBoxFields
<1>6. pledge = [p \in Pledges |-> x] /\ answer = [p \in Pledges |-> NoLeaf]
  BY <1>5 DEF NewBox
<1>7. BoxStates
  <2>1. pledge \in [Pledges -> Boxes] /\ answer \in [Pledges -> Leaves]
    BY <1>6, NoLeafFields
  <2>2. \A p \in Pledges : pledge[p].temp = (pledge[p].leaf = NoLeaf) /\ waiting[p].pub <= pledge[p].pub
    <3>1. ASSUME NEW p \in Pledges PROVE pledge[p] = x /\ waiting[p].pub = 0
      BY ONLY <1>4, <1>6
    <3>2. \A p \in Pledges : pledge[p].temp = TRUE /\ pledge[p].leaf = NoLeaf /\ waiting[p].pub <= pledge[p].pub
      BY ONLY <1>5, <3>1
    <3> QED
      BY ONLY <3>2, ZenonT(60)
  <2> QED
    BY <1>4, <2>1, <2>2 DEF BoxStates
<1>8. Agreement
  BY <1>1, <1>2, <1>5, <1>6 DEF Agreement
<1> QED
  BY <1>3, <1>7, <1>8 DEF EnrollInv

\* A step of the boxes and the registrar: every certificate was there, or has just been issued.
LEMMA BoxMoves ==
  ASSUME EnrollInv, UNCHANGED <<day, signerState>>, BoxStates',
         \A p \in Pledges : \A c \in {pledge'[p].leaf, answer'[p]} :
           c = NoLeaf \/ c \in {pledge[p].leaf, answer[p]} \/ \E n \in Nat : c = Issue(n)
  PROVE  EnrollInv'
<1>1. SignerStates'
  BY DEF EnrollInv, SignerStates, signerState
<1>2. ASSUME ~torn, LeafLife < RootOverlap, NEW n \in Nat PROVE Trusted(Issue(n))
  BY <1>2, IssueMade, EnrollAssumption DEF EnrollInv, SignerStates, Agreement, Trusted
<1>3. ASSUME ~torn, LeafLife < RootOverlap, NEW p \in Pledges, NEW c \in {pledge'[p].leaf, answer'[p]}, c # NoLeaf
      PROVE  Trusted(c)
  BY <1>2, <1>3 DEF EnrollInv, Agreement
<1>4. Agreement'
  BY <1>3 DEF EnrollInv, Agreement, Trusted, signerState
<1> QED
  BY <1>1, <1>4 DEF EnrollInv

Greets(k, n, m) == [k EXCEPT !.pub = n, !.hellos = m]
Enrols(k, c) == [k EXCEPT !.leaf = c, !.temp = FALSE]
Renews(k, c) == [k EXCEPT !.leaf = c]

LEMMA BoxGreets ==
  ASSUME NEW k \in Boxes, NEW n \in Nat, NEW m \in Nat
  PROVE  /\ Greets(k, n, m) \in Boxes /\ Greets(k, n, m).pub = n
         /\ Greets(k, n, m).temp = k.temp /\ Greets(k, n, m).leaf = k.leaf
<1> HIDE DEF Leaves
<1> QED
  BY DEF Boxes, Greets

LEMMA BoxEnrols ==
  ASSUME NEW k \in Boxes, NEW c \in Leaves
  PROVE  /\ Enrols(k, c) \in Boxes /\ Enrols(k, c).pub = k.pub
         /\ Enrols(k, c).temp = FALSE /\ Enrols(k, c).leaf = c
BY DEF Boxes, Enrols

LEMMA BoxRenews ==
  ASSUME NEW k \in Boxes, NEW c \in Leaves
  PROVE  /\ Renews(k, c) \in Boxes /\ Renews(k, c).pub = k.pub
         /\ Renews(k, c).temp = k.temp /\ Renews(k, c).leaf = c
BY DEF Boxes, Renews

\* A box moves alone.
LEMMA PledgeMoves ==
  ASSUME pledge \in [Pledges -> Boxes], NEW p \in Pledges, NEW x \in Boxes, pledge' = [pledge EXCEPT ![p] = x]
  PROVE  /\ pledge' \in [Pledges -> Boxes] /\ pledge'[p] = x
         /\ \A q \in Pledges : q # p => pledge'[q] = pledge[q]
OBVIOUS

\* What waits is dropped, or stays.
LEMMA UnexpiredHellos ==
  ASSUME BoxStates
  PROVE  /\ Unexpired \in [Pledges -> Hellos]
         /\ \A p \in Pledges : Unexpired[p].pub <= pledge[p].pub
<1>1. NoHello \in Hellos /\ NoHello.pub = 0
  BY DEF NoHello, Hellos
<1>2. \A p \in Pledges : pledge[p].pub \in Nat
  BY DEF BoxStates, Boxes
<1>3. \A p \in Pledges : Unexpired[p] \in {NoHello, waiting[p]}
  BY DEF Unexpired
<1>4. Unexpired \in [Pledges -> Hellos]
  BY <1>1 DEF Unexpired, BoxStates
<1> QED
  BY <1>1, <1>2, <1>3, <1>4 DEF BoxStates

\* A hello, which may be lost.
LEMMA GreetSteps ==
  ASSUME EnrollInv, NEW p \in Pledges, HelloLost(p) \/ Request(p)
  PROVE  EnrollInv'
<1>1. BoxStates
  BY DEF EnrollInv
<1>2. PICK k \in Boxes : k = pledge[p]
  BY <1>1 DEF BoxStates
<1>3. PICK n \in Nat, m \in Nat : n = k.pub + 1 /\ m = k.hellos + 1
  BY DEF Boxes
<1>4. pledge' = [pledge EXCEPT ![p] = Greets(k, n, m)]
  BY <1>2, <1>3 DEF HelloLost, Request, Greeted, Greets
<1>5. PICK x \in Boxes : x = Greets(k, n, m)
  BY BoxGreets
<1>6. x.pub = n /\ x.temp = k.temp /\ x.leaf = k.leaf /\ k.pub \in Nat /\ k.pub <= n
  <2>1. Greets(k, n, m).pub = n /\ Greets(k, n, m).temp = k.temp /\ Greets(k, n, m).leaf = k.leaf
    BY BoxGreets
  <2>2. k.pub \in Nat /\ k.pub <= n
    BY <1>3 DEF Boxes
  <2> QED
    BY <1>5, <2>1, <2>2
<1>7. pledge' \in [Pledges -> Boxes] /\ pledge'[p] = x /\ \A q \in Pledges : q # p => pledge'[q] = pledge[q]
  BY <1>1, <1>4, <1>5, PledgeMoves DEF BoxStates
<1>8. \A q \in Pledges : /\ pledge'[q].temp = pledge[q].temp /\ pledge'[q].leaf = pledge[q].leaf
                        /\ pledge'[q].pub \in Nat /\ pledge[q].pub \in Nat /\ pledge[q].pub <= pledge'[q].pub
  <2>1. \A q \in Pledges : pledge[q].pub \in Nat
    BY <1>1 DEF BoxStates, Boxes
  <2> QED
    BY <1>2, <1>6, <1>7, <2>1
<1>9. UNCHANGED <<day, signerState, voucher, answer>>
  BY DEF HelloLost, Request
<1>10. waiting' \in [Pledges -> Hellos] /\ \A q \in Pledges : waiting'[q].pub <= pledge'[q].pub
  <2>1. \A q \in Pledges : waiting[q].pub \in Nat /\ Unexpired[q].pub \in Nat /\ Unexpired[q].pub <= pledge[q].pub
    BY <1>1, UnexpiredHellos DEF BoxStates, Hellos
  <2>2. CASE HelloLost(p)
    BY <1>1, <1>8, <2>1, <2>2 DEF BoxStates, HelloLost
  <2>3. CASE Request(p)
    <3>1. PICK e \in Nat : e = day + ApprovalTTL
      BY EnrollAssumption DEF EnrollInv, SignerStates
    <3>2. PICK h \in Hellos : h = [pub |-> n, expires |-> e] /\ h.pub = n
      <4>1. [pub |-> n, expires |-> e] \in Hellos /\ [pub |-> n, expires |-> e].pub = n
        BY DEF Hellos
      <4> QED
        BY <4>1
    <3>3. waiting' = [Unexpired EXCEPT ![p] = h]
      BY <1>6, <1>7, <2>3, <3>1, <3>2 DEF Request
    <3> QED
      BY <1>6, <1>7, <1>8, <2>1, <3>2, <3>3, UnexpiredHellos, <1>1
  <2> QED
    BY <2>2, <2>3
<1>11. BoxStates'
  BY <1>1, <1>7, <1>8, <1>9, <1>10 DEF BoxStates
<1> QED
  BY <1>8, <1>9, <1>11, BoxMoves

\* What waits is answered or refused, or a voucher answers for it.
LEMMA AnswerSteps ==
  ASSUME EnrollInv, NEW p \in Pledges, Approve(p) \/ Reject(p) \/ Voucher(p) \/ EnrollWithVoucher(p)
  PROVE  EnrollInv'
<1>1. BoxStates /\ SignerStates
  BY DEF EnrollInv
<1>2. UNCHANGED <<day, signerState, pledge>>
  BY DEF Approve, Reject, Voucher, EnrollWithVoucher
<1>3. NoHello \in Hellos /\ NoHello.pub = 0
  BY DEF NoHello, Hellos
<1>4. waiting' \in [Pledges -> Hellos] /\ \A q \in Pledges : waiting'[q].pub <= pledge[q].pub
  <2>1. \A q \in Pledges : pledge[q].pub \in Nat
    BY <1>1 DEF BoxStates, Boxes
  <2>2. waiting' \in {waiting, [waiting EXCEPT ![p] = NoHello], [Unexpired EXCEPT ![p] = NoHello]}
    BY DEF Approve, Reject, Voucher, EnrollWithVoucher
  <2> QED
    BY <1>1, <1>3, <2>1, <2>2, UnexpiredHellos DEF BoxStates
<1>5. PICK n \in Nat : answer' \in {answer, [answer EXCEPT ![p] = Issue(n)]}
  <2>1. waiting[p].pub \in Nat /\ voucher[p].nonce \in Nat
    BY <1>1 DEF BoxStates, Hellos, Vouchers
  <2> QED
    BY <2>1 DEF Approve, Reject, Voucher, EnrollWithVoucher
<1>6. answer' \in [Pledges -> Leaves] /\ \A q \in Pledges : answer'[q] \in {answer[q], Issue(n)}
  BY <1>1, <1>5, IssueMade DEF BoxStates
<1>7. voucher' \in [Pledges -> Vouchers]
  <2>1. CASE Voucher(p)
    <3>1. PICK n_ \in Nat, e \in Nat : n_ = pledge[p].pub /\ e = day + VoucherLife
      BY <1>1, EnrollAssumption DEF BoxStates, SignerStates, Boxes
    <3>2. PICK x \in Vouchers : x = [nonce |-> n_, end |-> e]
      BY DEF Vouchers
    <3>3. voucher' = [voucher EXCEPT ![p] = x]
      BY <2>1, <3>1, <3>2 DEF Voucher
    <3> QED
      BY <1>1, <3>2, <3>3 DEF BoxStates
  <2>2. CASE ~Voucher(p)
    BY <1>1, <2>2 DEF BoxStates, Approve, Reject, EnrollWithVoucher
  <2> QED
    BY <2>1, <2>2
<1>8. BoxStates'
  BY <1>1, <1>2, <1>4, <1>6, <1>7 DEF BoxStates
<1> QED
  BY <1>2, <1>6, <1>8, BoxMoves

\* A box keeps the certificate it was answered with, or has a new one issued.
LEMMA KeepSteps ==
  ASSUME EnrollInv, NEW p \in Pledges, Finish(p) \/ Renew(p)
  PROVE  EnrollInv'
<1>1. BoxStates /\ SignerStates
  BY DEF EnrollInv
<1>2. UNCHANGED <<day, signerState, waiting, voucher>>
  BY DEF Finish, Renew
<1>3. PICK k \in Boxes : k = pledge[p]
  BY <1>1 DEF BoxStates
<1>4. answer[p] \in Leaves /\ k.leaf.pub \in Nat /\ k.temp = (k.leaf = NoLeaf)
  BY <1>1, <1>3 DEF BoxStates, Boxes, Leaves
<1>5. answer' \in [Pledges -> Leaves] /\ \A q \in Pledges : answer'[q] \in {answer[q], NoLeaf}
  BY <1>1, NoLeafFields DEF BoxStates, Finish, Renew
<1>6. PICK x \in Boxes : /\ pledge' = [pledge EXCEPT ![p] = x] /\ x.pub = k.pub /\ x.temp = (x.leaf = NoLeaf)
                         /\ x.leaf \in {k.leaf, answer[p], Issue(k.leaf.pub)}
  <2>1. CASE Finish(p) /\ BundleAccepts(answer[p])
    <3>1. pledge' = [pledge EXCEPT ![p] = Enrols(k, answer[p])] /\ answer[p] # NoLeaf
      BY <1>3, <2>1 DEF Finish, Enrols
    <3>2. PICK x \in Boxes : x = Enrols(k, answer[p])
      BY <1>4, BoxEnrols
    <3>3. x.pub = k.pub /\ x.temp = FALSE /\ x.leaf = answer[p]
      BY <1>4, <3>2, BoxEnrols
    <3>4. x.temp = (x.leaf = NoLeaf)
      BY <3>1, <3>3, ZenonT(60)
    <3> QED
      BY <3>1, <3>2, <3>3, <3>4, ZenonT(60)
  <2>2. CASE Finish(p) /\ ~BundleAccepts(answer[p])
    <3>1. pledge' = [pledge EXCEPT ![p] = k]
      BY <1>1, <1>3, <2>2 DEF Finish, BoxStates
    <3> QED
      BY <1>4, <3>1, ZenonT(60)
  <2>3. CASE Renew(p)
    <3>1. pledge' = [pledge EXCEPT ![p] = Renews(k, Issue(k.leaf.pub))] /\ k.leaf # NoLeaf
      BY <1>3, <2>3 DEF Renew, Renews
    <3>2. Issue(k.leaf.pub) \in Leaves /\ Issue(k.leaf.pub) # NoLeaf
      BY <1>1, <1>4, IssueMade
    <3>3. PICK x \in Boxes : x = Renews(k, Issue(k.leaf.pub))
      BY <3>2, BoxRenews
    <3>4. x.pub = k.pub /\ x.temp = k.temp /\ x.leaf = Issue(k.leaf.pub)
      BY <3>2, <3>3, BoxRenews
    <3>5. x.temp = (x.leaf = NoLeaf)
      BY <1>4, <3>1, <3>2, <3>4, ZenonT(60)
    <3> QED
      BY <3>1, <3>3, <3>4, <3>5, ZenonT(60)
  <2> QED
    BY <2>1, <2>2, <2>3
<1>7. pledge' \in [Pledges -> Boxes] /\ pledge'[p] = x /\ \A q \in Pledges : q # p => pledge'[q] = pledge[q]
  BY <1>1, <1>6, PledgeMoves DEF BoxStates
<1>8. \A q \in Pledges : pledge'[q].pub = pledge[q].pub /\ pledge'[q].temp = (pledge'[q].leaf = NoLeaf)
  BY <1>1, <1>3, <1>6, <1>7 DEF BoxStates
<1>9. BoxStates'
  BY <1>1, <1>2, <1>5, <1>7, <1>8 DEF BoxStates
<1>10. \A q \in Pledges : pledge'[q].leaf \in {pledge[q].leaf, answer[q], Issue(k.leaf.pub)}
  BY <1>3, <1>6, <1>7
<1> QED
  BY <1>2, <1>4, <1>5, <1>9, <1>10, BoxMoves

\* Time passes, and what was signed runs no longer than before.
LEMMA DayStep ==
  ASSUME EnrollInv, NextDay
  PROVE  EnrollInv'
<1> USE EnrollAssumption DEF EnrollInv, NextDay, signerState, boxState
<1>1. day \in Nat /\ day' = day + 1 /\ day' \in 1..MaxDays
  BY DEF SignerStates
<1>2. SignerStates'
  BY <1>1 DEF SignerStates
<1>3. BoxStates'
  BY DEF BoxStates
<1>4. \A p \in Pledges : pledge[p].leaf.end \in Nat /\ answer[p].end \in Nat
  BY DEF BoxStates, Boxes, Leaves
<1>5. ASSUME NEW c, c.end \in Nat, Trusted(c) PROVE Trusted(c)'
  BY <1>1, <1>5 DEF Trusted
<1>6. Agreement'
  BY <1>4, <1>5 DEF Agreement
<1> QED
  BY <1>2, <1>3, <1>6

\* A new root under a new name: what the old one has signed runs out before it does.
LEMMA RotateStep ==
  ASSUME EnrollInv, RotateRoot
  PROVE  EnrollInv'
<1>1. SignerStates /\ BoxStates /\ Agreement
  BY DEF EnrollInv
<1>2. UNCHANGED <<day, storedRoot, backup, restarts, torn, boxState>> /\ unsaved' = TRUE
  BY DEF RotateRoot
<1>3. PICK g \in Nat \ {0}, k \in Nat, n \in Nat \ {0}, j \in Nat, e \in Nat :
        /\ g = root.gen /\ k = root.key /\ n = g + 1
        /\ j = lastKey + 1 /\ j \in 1..MaxRoots /\ e = day + RootOverlap /\ e \in 1..(MaxDays + RootOverlap)
  BY <1>1, EnrollAssumption DEF RotateRoot, SignerStates, Roots
<1>4. g \in DOMAIN bundle /\ k \in 1..lastKey /\ lastKey \in Nat
  BY <1>1, <1>3 DEF SignerStates
<1>5. lastKey' = j /\ root' = [gen |-> n, key |-> j]
  BY <1>3 DEF RotateRoot, NextName
<1>6. root' \in Roots /\ root'.gen = n /\ root'.key = j
  BY <1>5 DEF Roots
<1>7. PICK gone \in Entries : gone = [key |-> k, retire |-> e] /\ gone.key = k /\ gone.retire = e
  <2>1. [key |-> k, retire |-> e] \in Entries /\ [key |-> k, retire |-> e].key = k /\ [key |-> k, retire |-> e].retire = e
    BY DEF Entries
  <2> QED
    BY <2>1
<1>8. PICK fresh \in Entries : fresh = [key |-> j, retire |-> 0] /\ fresh.key = j /\ fresh.retire = 0
  <2>1. [key |-> j, retire |-> 0] \in Entries /\ [key |-> j, retire |-> 0].key = j /\ [key |-> j, retire |-> 0].retire = 0
    BY DEF Entries
  <2> QED
    BY <2>1
<1>9. bundle' = [h \in DOMAIN bundle \cup {n} |-> IF h = g THEN gone ELSE IF h = n THEN fresh ELSE bundle[h]]
  BY <1>3, <1>7, <1>8 DEF RotateRoot, NextName
<1>10. DOMAIN bundle' = DOMAIN bundle \cup {n}
  BY <1>9
<1>11. /\ bundle'[g] = gone /\ bundle'[n] = fresh
       /\ \A h \in DOMAIN bundle \ {g, n} : bundle'[h] = bundle[h]
  BY <1>3, <1>4, <1>9
<1>12. SignerStates'
  <2>1. DOMAIN bundle' \subseteq Nat /\ bundle' \in [DOMAIN bundle' -> Entries]
    BY <1>1, <1>9, <1>10 DEF SignerStates
  <2>2. \A h \in DOMAIN bundle' : bundle'[h].key \in 1..lastKey' /\ bundle'[h].retire \in 0..(MaxDays + RootOverlap)
    <3>1. ASSUME NEW h \in DOMAIN bundle \ {g, n}
          PROVE  bundle'[h].key \in 1..lastKey' /\ bundle'[h].retire \in 0..(MaxDays + RootOverlap)
      BY <1>1, <1>3, <1>4, <1>5, <1>11, <3>1 DEF SignerStates
    <3>2. 0 \in 0..(MaxDays + RootOverlap) /\ e \in 0..(MaxDays + RootOverlap) /\ k \in 1..lastKey' /\ j \in 1..lastKey'
      BY <1>3, <1>4, <1>5, EnrollAssumption
    <3> QED
      BY <1>7, <1>8, <1>10, <1>11, <3>1, <3>2
  <2>3. \A r \in {root', storedRoot', backup'} : r.gen \in DOMAIN bundle' /\ r.key \in 1..lastKey'
    BY <1>1, <1>2, <1>3, <1>4, <1>5, <1>6, <1>10 DEF SignerStates
  <2>4. day' \in 1..MaxDays /\ lastKey' \in 1..MaxRoots /\ restarts' \in 0..MaxRestarts
    BY <1>1, <1>2, <1>3, <1>5 DEF SignerStates
  <2>5. unsaved' \in BOOLEAN /\ torn' \in BOOLEAN
    BY <1>1, <1>2, ZenonT(60) DEF SignerStates
  <2>6. storedRoot' \in Roots /\ backup' \in Roots
    BY <1>1, <1>2 DEF SignerStates
  <2> QED
    BY ONLY <1>6, <2>1, <2>2, <2>3, <2>4, <2>5, <2>6, ZenonT(60) DEF SignerStates
<1>13. BoxStates'
  BY <1>1, <1>2 DEF BoxStates, boxState
<1>14. ASSUME ~torn, LeafLife < RootOverlap PROVE
         /\ \A h \in DOMAIN bundle' : h <= root'.gen
         /\ bundle'[root'.gen].key = root'.key /\ bundle'[root'.gen].retire = 0
         /\ \A p \in Pledges : \A c \in {pledge[p].leaf, answer[p]} : c # NoLeaf => Trusted(c)'
  <2>1. \A h \in DOMAIN bundle : h \in Nat /\ h <= g
    BY <1>1, <1>3, <1>14 DEF Agreement, SignerStates
  <2>2. \A h \in DOMAIN bundle' : h <= root'.gen
    BY <1>3, <1>6, <1>10, <2>1
  <2>3. n \notin DOMAIN bundle
    BY <1>3, <2>1
  <2>4. ASSUME NEW c, c.end \in Nat, Trusted(c) PROVE Trusted(c)'
    <3>1. c.gen \in DOMAIN bundle /\ c.gen # n /\ c.end <= day + LeafLife
      BY <2>3, <2>4 DEF Trusted
    <3>2. CASE c.gen = g
      <4>1. c.key = k
        BY <1>1, <1>3, <1>14, <2>4, <3>2 DEF Agreement, Trusted
      <4>2. c.end < e
        BY <1>1, <1>3, <1>14, <2>4, <3>1, EnrollAssumption DEF SignerStates
      <4> QED
        BY <1>2, <1>7, <1>10, <1>11, <3>1, <3>2, <4>1, <4>2 DEF Trusted
    <3>3. CASE c.gen # g
      BY <1>2, <1>10, <1>11, <2>4, <3>1, <3>3 DEF Trusted
    <3> QED
      BY <3>2, <3>3
  <2>5. \A p \in Pledges : pledge[p].leaf.end \in Nat /\ answer[p].end \in Nat
    BY <1>1 DEF BoxStates, Boxes, Leaves
  <2>6. \A p \in Pledges : \A c \in {pledge[p].leaf, answer[p]} : c # NoLeaf => Trusted(c)'
    BY <1>1, <1>14, <2>4, <2>5 DEF Agreement
  <2> QED
    BY <1>6, <1>8, <1>11, <2>2, <2>6
<1>15. Agreement'
  BY <1>2, <1>14 DEF Agreement, boxState
<1> QED
  BY <1>12, <1>13, <1>15 DEF EnrollInv

\* The signer stores its root, is backed up, dies and comes back from what was stored.
LEMMA SignerSteps ==
  ASSUME EnrollInv, PersistRoot \/ TakeBackup \/ RestartSigner \/ RestoreSigner
  PROVE  EnrollInv'
<1>1. SignerStates /\ BoxStates /\ Agreement
  BY DEF EnrollInv
<1>2. UNCHANGED <<day, lastKey, bundle, voucher, pledge, answer>>
  BY DEF PersistRoot, TakeBackup, RestartSigner, RestoreSigner, RestartFrom, boxState
<1>4. {root', storedRoot', backup'} \subseteq {root, storedRoot, backup}
  BY DEF PersistRoot, TakeBackup, RestartSigner, RestoreSigner, RestartFrom
<1>5. restarts' \in 0..MaxRestarts
  BY <1>1, EnrollAssumption DEF SignerStates, PersistRoot, TakeBackup, RestartSigner, RestoreSigner, RestartFrom
<1>6. (torn' = torn /\ root' = root) \/ torn' = (torn \/ root' # root)
  BY DEF PersistRoot, TakeBackup, RestartSigner, RestoreSigner, RestartFrom
<1>7. unsaved' \in BOOLEAN /\ torn' \in BOOLEAN
  <2>1. unsaved' = FALSE \/ unsaved' = unsaved
    BY DEF PersistRoot, TakeBackup, RestartSigner, RestoreSigner, RestartFrom
  <2> QED
    BY <1>1, <1>6, <2>1, ZenonT(60) DEF SignerStates
<1>8. SignerStates'
  <2>1. root' \in Roots /\ storedRoot' \in Roots /\ backup' \in Roots
    BY <1>1, <1>4 DEF SignerStates
  <2>2. \A r \in {root', storedRoot', backup'} : r.gen \in DOMAIN bundle /\ r.key \in 1..lastKey
    BY <1>1, <1>4 DEF SignerStates
  <2> QED
    BY <1>1, <1>2, <1>5, <1>7, <2>1, <2>2 DEF SignerStates
<1>9. BoxStates'
  <2>1. NoHello \in Hellos /\ NoHello.pub = 0
    BY DEF NoHello, Hellos
  <2>2. waiting' = waiting \/ waiting' = [p \in Pledges |-> NoHello]
    BY DEF PersistRoot, TakeBackup, RestartSigner, RestoreSigner, RestartFrom, boxState
  <2>3. \A p \in Pledges : pledge[p].pub \in Nat
    BY <1>1 DEF BoxStates, Boxes
  <2>4. waiting' \in [Pledges -> Hellos] /\ \A p \in Pledges : waiting'[p].pub <= pledge[p].pub
    BY <1>1, <2>1, <2>2, <2>3 DEF BoxStates
  <2> QED
    BY <1>1, <1>2, <2>4 DEF BoxStates
<1>10. ~torn' => ~torn /\ root' = root
  BY <1>6
<1>11. Agreement'
  BY <1>1, <1>2, <1>10 DEF Agreement, Trusted
<1> QED
  BY <1>8, <1>9, <1>11 DEF EnrollInv

\* Every step keeps the invariant.
LEMMA EnrollStep == EnrollInv /\ [EnrollNext]_enrollVars => EnrollInv'
<1> SUFFICES ASSUME EnrollInv, [EnrollNext]_enrollVars PROVE EnrollInv'
  OBVIOUS
<1>1. CASE EnrollNext
  BY <1>1, DayStep, RotateStep, SignerSteps, GreetSteps, AnswerSteps, KeepSteps DEF EnrollNext
<1>2. CASE UNCHANGED enrollVars
  BY <1>2 DEF enrollVars, signerState, boxState, EnrollInv, SignerStates, BoxStates, Agreement, Trusted
<1> QED
  BY <1>1, <1>2

LEMMA EnrollInductive == EnrollSpec => []EnrollInv
BY EnrollBegins, EnrollStep, PTL DEF EnrollSpec

\* With an overlap of the roots that is longer than a certificate runs, whatever is
\* rotated, renewed, restarted from what was stored: a certificate that has not run out
\* is accepted by every peer that holds the bundle (rotate_root, TrustBundle, renew).
THEOREM NothingGoesDark ==
  ASSUME LeafLife < RootOverlap
  PROVE  EnrollSpec => []NeverDark
<1>1. ASSUME EnrollInv, ~torn PROVE NeverDark
  <2>1. SignerStates /\ BoxStates /\ Agreement
    BY <1>1 DEF EnrollInv
  <2>2. day \in Nat /\ LeafLife \in Nat /\ day <= day + LeafLife
    BY <2>1, EnrollAssumption DEF SignerStates
  <2>3. ASSUME NEW c, c.end \in Nat, Trusted(c), day <= c.end PROVE BundleAccepts(c)
    <3>1. bundle[c.gen].retire \in Nat
      BY <2>1, <2>3 DEF SignerStates, Trusted
    <3> QED
      BY <2>2, <2>3, <3>1 DEF Trusted, BundleAccepts
  <2>4. BundleAccepts(Issue(0))
    <3>1. Issue(0).gen = root.gen /\ Issue(0).key = root.key /\ Issue(0).end = day + LeafLife
      BY <2>1, IssueMade
    <3>2. root.gen \in DOMAIN bundle /\ bundle[root.gen].key = root.key /\ bundle[root.gen].retire = 0
      BY <1>1, <2>1 DEF SignerStates, Agreement
    <3> QED
      BY <2>2, <3>1, <3>2 DEF BundleAccepts
  <2>5. \A p \in Pledges : pledge[p].leaf.end \in Nat
    BY <2>1 DEF BoxStates, Boxes, Leaves
  <2>6. ASSUME NEW p \in Pledges, pledge[p].leaf # NoLeaf, day <= pledge[p].leaf.end
        PROVE  BundleAccepts(pledge[p].leaf)
    BY <1>1, <2>1, <2>3, <2>5, <2>6 DEF Agreement
  <2> QED
    BY <2>4, <2>6 DEF NeverDark
<1>2. EnrollInv => NeverDark
  BY <1>1 DEF NeverDark
<1> QED
  BY <1>2, EnrollInductive, PTL

\* The types of the signer and the boxes.
THEOREM EnrollTypeCorrect == EnrollSpec => []EnrollTypeOK
<1>1. EnrollInv => EnrollTypeOK
  BY DEF EnrollInv, SignerStates, BoxStates, EnrollTypeOK
<1> QED
  BY <1>1, EnrollInductive, PTL

-----------------------------------------------------------------------------
\* The domain's users.

IdentitySpec == IdentityInit /\ [][IdentityNext]_identityVars

Sets == [Users -> Nat]
Publications == [at : {"idle", "read", "put"}, rev : Nat, puts : {0, 1}, left : SUBSET Users, got : Sets]
AtLeast(x, y) == \A u \in Users : x[u] >= y[u]

IdentityStates ==
  /\ record \in Sets /\ edits \in 0..MaxEdits /\ editing \subseteq Users /\ dirty \in BOOLEAN
  /\ publishedRev \in 0..published /\ published \in 0..MaxPublications /\ pointer \in 0..published
  /\ publication \in Publications /\ promised \in Sets
  /\ DOMAIN object \subseteq 1..published /\ object \in [DOMAIN object -> Sets]

\* What is stored is an edit that was made, and no older than what was promised.
Kept ==
  /\ \A u \in Users : record[u] <= edits /\ publication.got[u] <= edits
  /\ \A r \in DOMAIN object : \A u \in Users : object[r][u] <= edits
  /\ AtLeast(record, promised)
  /\ pointer # 0 => pointer \in DOMAIN object /\ AtLeast(object[pointer], promised)

\* What a publication has read lies between the promise and the store; what it has put is
\* its object.
PublicationOK(k) ==
  /\ k.at # "idle" => k.rev \in 1..published
  /\ k.at = "put" => k.left = {}
  /\ k.at # "idle" => \A u \in Users \ k.left : promised[u] <= k.got[u] /\ k.got[u] <= record[u]
  /\ k.puts = 1 => k.at = "put" /\ k.rev \in DOMAIN object /\ object[k.rev] = k.got

IdentityInv == IdentityStates /\ Kept /\ PublicationOK(publication)

LEMMA QuietPublication ==
  /\ Quiet \in Publications /\ Quiet.at = "idle" /\ Quiet.puts = 0 /\ \A u \in Users : Quiet.got[u] = 0
BY DEF Quiet, Publications, NoSet, Sets

\* The publication fields, whatever it is.
LEMMA PublicationFields ==
  ASSUME NEW k \in Publications
  PROVE  /\ k.at \in {"idle", "read", "put"} /\ k.rev \in Nat /\ k.puts \in {0, 1} /\ k.left \subseteq Users
         /\ k.got \in Sets
BY DEF Publications

\* The users begin in the invariant.
LEMMA IdentityBegins == IdentityInit => IdentityInv
<1> SUFFICES ASSUME IdentityInit PROVE IdentityInv
  OBVIOUS
<1> USE IdentityAssumption DEF IdentityInit
<1>1. record \in Sets /\ promised \in Sets /\ \A u \in Users : record[u] = 0 /\ promised[u] = 0
  BY DEF NoSet, Sets
<1>2. IdentityStates
  <2>1. dirty \in BOOLEAN
    BY ZenonT(60)
  <2>2. DOMAIN object = {}
    OBVIOUS
  <2> QED
    BY <1>1, <2>1, <2>2, QuietPublication DEF IdentityStates
<1>3. Kept
  BY <1>1, QuietPublication DEF Kept, AtLeast
<1>4. PublicationOK(publication)
  BY QuietPublication DEF PublicationOK
<1> QED
  BY <1>2, <1>3, <1>4 DEF IdentityInv

\* A record that is edited gets the number of the edit.
LEMMA EditSteps ==
  ASSUME IdentityInv, (\E u \in Users : BeginEdit(u)) \/ EndEdit
  PROVE  IdentityInv'
<1> USE IdentityAssumption DEF IdentityInv
<1>1. ASSUME NEW u \in Users, BeginEdit(u) PROVE IdentityInv'
  <2>1. edits \in Nat /\ edits' = edits + 1 /\ edits' \in 0..MaxEdits /\ editing' \subseteq Users
    BY <1>1 DEF BeginEdit, IdentityStates
  <2>2. UNCHANGED <<record, publishVars>>
    BY <1>1 DEF BeginEdit
  <2>3. IdentityStates'
    BY <2>1, <2>2 DEF IdentityStates, publishVars
  <2>4. Kept'
    <3>1. \A w \in Users : record[w] \in Nat /\ publication.got[w] \in Nat
      BY PublicationFields DEF IdentityStates, Sets
    <3>2. \A r \in DOMAIN object : \A w \in Users : object[r][w] \in Nat
      BY DEF IdentityStates, Sets
    <3> QED
      BY <2>1, <2>2, <3>1, <3>2 DEF Kept, AtLeast, publishVars
  <2>5. PublicationOK(publication)'
    BY <2>2 DEF PublicationOK, publishVars
  <2> QED
    BY <2>3, <2>4, <2>5
<1>2. ASSUME EndEdit PROVE IdentityInv'
  <2>1. PICK u \in Users : record' = [record EXCEPT ![u] = edits]
    BY <1>2 DEF EndEdit, IdentityStates
  <2>2. UNCHANGED <<edits, publishedRev, publication, published, object, pointer, promised>>
        /\ dirty' = TRUE /\ editing' = {}
    BY <1>2 DEF EndEdit
  <2>3. /\ record' \in Sets /\ record'[u] = edits /\ record[u] <= edits /\ edits \in Nat
        /\ \A w \in Users : w # u => record'[w] = record[w]
    BY <2>1 DEF IdentityStates, Sets, Kept
  <2>4. \A w \in Users : record[w] \in Nat /\ record'[w] \in Nat /\ record[w] <= record'[w] /\ record'[w] <= edits
    BY <2>3 DEF IdentityStates, Sets, Kept
  <2>5. \A w \in Users : promised[w] \in Nat /\ publication.got[w] \in Nat
    BY PublicationFields DEF IdentityStates, Sets
  <2>6. dirty' \in BOOLEAN
    BY <2>2, ZenonT(60)
  <2>7. IdentityStates'
    BY <2>2, <2>3, <2>6 DEF IdentityStates
  <2>8. Kept'
    BY <2>2, <2>4, <2>5 DEF Kept, AtLeast
  <2>9. PublicationOK(publication)'
    BY <2>2, <2>4, <2>5 DEF PublicationOK
  <2> QED
    BY <2>7, <2>8, <2>9
<1> QED
  BY <1>1, <1>2

\* The states a publication goes through.
Reads(rev) == [Quiet EXCEPT !.at = "read", !.rev = rev, !.left = Users]
HasRead(k, to, rest, set) == [k EXCEPT !.got = set, !.left = rest, !.at = to]
HasPut(k) == [k EXCEPT !.puts = 1]

LEMMA PublicationReads ==
  ASSUME NEW rev \in Nat
  PROVE  /\ Reads(rev) \in Publications /\ Reads(rev).at = "read" /\ Reads(rev).rev = rev
         /\ Reads(rev).left = Users /\ Reads(rev).puts = 0 /\ Reads(rev).got = NoSet
<1>1. NoSet \in Sets
  BY DEF NoSet, Sets
<1> QED
  BY <1>1 DEF Reads, Quiet, Publications

LEMMA PublicationHasRead ==
  ASSUME NEW k \in Publications, NEW to \in {"read", "put"}, NEW rest \in SUBSET Users, NEW set \in Sets
  PROVE  /\ HasRead(k, to, rest, set) \in Publications /\ HasRead(k, to, rest, set).at = to
         /\ HasRead(k, to, rest, set).left = rest /\ HasRead(k, to, rest, set).got = set
         /\ HasRead(k, to, rest, set).puts = k.puts /\ HasRead(k, to, rest, set).rev = k.rev
BY DEF HasRead, Publications

LEMMA PublicationHasPut ==
  ASSUME NEW k \in Publications
  PROVE  /\ HasPut(k) \in Publications /\ HasPut(k).at = k.at /\ HasPut(k).left = k.left
         /\ HasPut(k).got = k.got /\ HasPut(k).puts = 1 /\ HasPut(k).rev = k.rev
BY DEF HasPut, Publications

\* A publication moves, and what is stored stays.
LEMMA PublicationMoves ==
  ASSUME IdentityInv, publication' \in Publications,
         PublicationOK(publication'), \A u \in Users : publication'.got[u] <= edits,
         UNCHANGED <<recordVars, publishedRev, published, object, pointer, promised>>, dirty' \in BOOLEAN
  PROVE  IdentityInv'
<1>1. IdentityStates'
  BY DEF IdentityInv, IdentityStates, recordVars
<1>2. Kept'
  BY DEF IdentityInv, Kept, AtLeast, recordVars
<1>3. PublicationOK(publication)'
  BY DEF PublicationOK, recordVars
<1> QED
  BY <1>1, <1>2, <1>3 DEF IdentityInv

\* A publication begins, reads a record, or fails.
LEMMA ReadSteps ==
  ASSUME IdentityInv, PublishBegin \/ PublishRead \/ PublishFails
  PROVE  IdentityInv'
<1>0. dirty \in BOOLEAN /\ edits \in Nat /\ published \in Nat /\ record \in Sets
  BY DEF IdentityInv, IdentityStates
<1>1. PICK k \in Publications : k = publication /\ PublicationOK(k) /\ \A u \in Users : k.got[u] <= edits
  BY DEF IdentityInv, IdentityStates, Kept
<1>2. CASE PublishBegin
  <2>1. PICK rev \in Nat : rev = publishedRev + 1
    BY DEF IdentityInv, IdentityStates
  <2>2. publication' = Reads(rev) /\ published' = published + 1
    BY <1>2, <2>1 DEF PublishBegin, Reads
  <2>3. UNCHANGED <<recordVars, dirty, publishedRev, object, pointer, promised>> /\ published' \in 0..MaxPublications
    BY <1>0, <1>2, IdentityAssumption DEF PublishBegin
  <2>4. rev \in 1..published' /\ publishedRev \in 0..published' /\ pointer \in 0..published' /\ DOMAIN object \subseteq 1..published'
    BY <1>0, <2>1, <2>2 DEF IdentityInv, IdentityStates
  <2>5. PICK r \in Publications : r = Reads(rev)
    BY PublicationReads
  <2>6. r.at = "read" /\ r.rev = rev /\ r.left = Users /\ r.puts = 0 /\ \A u \in Users : r.got[u] = 0
    BY <2>5, PublicationReads DEF NoSet
  <2>7. IdentityStates'
    BY <1>0, <2>2, <2>3, <2>4, <2>5 DEF IdentityInv, IdentityStates, recordVars
  <2>8. Kept'
    BY <1>0, <2>2, <2>3, <2>5, <2>6 DEF IdentityInv, Kept, AtLeast, recordVars
  <2>9. PublicationOK(r)'
    BY <2>4, <2>6 DEF PublicationOK
  <2> QED
    BY <2>2, <2>5, <2>7, <2>8, <2>9 DEF IdentityInv
<1>3. CASE PublishRead
  <2>1. PICK u \in k.left : publication' = [k EXCEPT !.got[u] = record[u], !.left = k.left \ {u},
                                                     !.at = IF k.left = {u} THEN "put" ELSE "read"]
    BY <1>1, <1>3 DEF PublishRead
  <2>2. u \in Users /\ k.at = "read" /\ k.left \ {u} \in SUBSET Users /\ k.got \in Sets /\ k.puts \in {0, 1}
    BY <1>1, <1>3, <2>1, PublicationFields DEF PublishRead
  <2>3. PICK set \in Sets : set = [k.got EXCEPT ![u] = record[u]]
    BY <1>0, <2>2 DEF Sets
  <2>4. PICK to \in {"read", "put"} : to = IF k.left = {u} THEN "put" ELSE "read"
    OBVIOUS
  <2>5. publication' = HasRead(k, to, k.left \ {u}, set)
    BY <2>1, <2>3, <2>4 DEF HasRead
  <2>6. PICK r \in Publications : r = HasRead(k, to, k.left \ {u}, set)
    BY <2>2, PublicationHasRead
  <2>7. r.at = to /\ r.left = k.left \ {u} /\ r.got = set /\ r.puts = k.puts /\ r.rev = k.rev
    BY <2>2, <2>6, PublicationHasRead
  <2>8. set[u] = record[u] /\ \A w \in Users : w # u => set[w] = k.got[w]
    BY <2>2, <2>3 DEF Sets
  <2>9. promised[u] <= record[u] /\ record[u] <= edits /\ record[u] \in Nat
    BY <1>0, <2>2 DEF IdentityInv, IdentityStates, Kept, AtLeast, Sets
  <2>10. PublicationOK(r)
    BY <1>1, <2>2, <2>4, <2>7, <2>8, <2>9 DEF PublicationOK
  <2>11. \A w \in Users : r.got[w] <= edits
    BY <1>1, <2>7, <2>8, <2>9
  <2>12. UNCHANGED <<recordVars, dirty, publishedRev, published, object, pointer, promised>>
    BY <1>3 DEF PublishRead
  <2> QED
    BY <1>0, <2>5, <2>6, <2>10, <2>11, <2>12, PublicationMoves
<1>4. CASE PublishFails
  <2>1. PublicationOK(Quiet) /\ \A w \in Users : Quiet.got[w] <= edits
    BY <1>0, QuietPublication DEF PublicationOK
  <2> QED
    BY <1>0, <1>4, <2>1, QuietPublication, PublicationMoves DEF PublishFails
<1> QED
  BY <1>2, <1>3, <1>4

\* The object is put, and then the pointer.
LEMMA PutSteps ==
  ASSUME IdentityInv, PublishPut
  PROVE  IdentityInv'
<1>0. /\ dirty \in BOOLEAN /\ edits \in Nat /\ published \in Nat /\ record \in Sets
      /\ DOMAIN object \subseteq 1..published /\ object \in [DOMAIN object -> Sets]
  BY DEF IdentityInv, IdentityStates
<1>1. PICK k \in Publications : k = publication /\ PublicationOK(k) /\ \A u \in Users : k.got[u] <= edits
  BY DEF IdentityInv, IdentityStates, Kept
<1>2. /\ k.at = "put" /\ k.left = {} /\ k.puts \in {0, 1} /\ k.got \in Sets /\ k.rev \in 1..published
      /\ \A u \in Users : promised[u] <= k.got[u] /\ k.got[u] <= record[u]
  BY <1>1, PublicationFields DEF PublishPut, PublicationOK
<1>3. UNCHANGED <<recordVars, published>>
  BY DEF PublishPut
<1>4. CASE k.puts = 0
  <2>1. /\ object' = Written(k.rev, k.got) /\ pointer' = pointer
        /\ publication' = [k EXCEPT !.puts = k.puts + 1] /\ UNCHANGED <<dirty, publishedRev, promised>>
    BY <1>1, <1>4 DEF PublishPut, PublishOrder
  <2>2. publication' = HasPut(k)
    BY <1>4, <2>1 DEF HasPut
  <2>3. PICK r \in Publications : r = HasPut(k)
    BY PublicationHasPut
  <2>4. r.at = k.at /\ r.left = k.left /\ r.got = k.got /\ r.puts = 1 /\ r.rev = k.rev
    BY <2>3, PublicationHasPut
  <2>5. /\ DOMAIN object' = DOMAIN object \cup {k.rev} /\ object'[k.rev] = k.got
        /\ \A m \in DOMAIN object : m # k.rev => object'[m] = object[m]
    BY <2>1 DEF Written
  <2>6. DOMAIN object' \subseteq 1..published /\ object' \in [DOMAIN object' -> Sets]
    <3>1. DOMAIN object' \subseteq 1..published
      BY <1>0, <1>2, <2>5
    <3>2. object' = [m \in DOMAIN object \cup {k.rev} |-> IF m = k.rev THEN k.got ELSE object[m]]
      BY <2>1 DEF Written
    <3> HIDE DEF Sets
    <3>3. \A m \in DOMAIN object \cup {k.rev} : (IF m = k.rev THEN k.got ELSE object[m]) \in Sets
      BY <1>0, <1>2
    <3> QED
      BY <3>1, <3>2, <3>3
  <2>7. IdentityStates'
    BY <1>0, <1>3, <2>1, <2>2, <2>3, <2>6 DEF IdentityInv, IdentityStates, recordVars
  <2>8. Kept'
    <3>1. \A m \in DOMAIN object' : \A u \in Users : object'[m][u] <= edits
      BY <1>1, <2>5 DEF IdentityInv, Kept
    <3>2. pointer # 0 => pointer \in DOMAIN object' /\ AtLeast(object'[pointer], promised)
      <4>1. \A u \in Users : k.got[u] >= promised[u]
        BY <1>2, PublicationFields DEF IdentityInv, IdentityStates, Sets
      <4> QED
        BY <2>5, <4>1 DEF IdentityInv, Kept, AtLeast
    <3>3. \A u \in Users : r.got[u] <= edits
      BY <1>1, <2>4
    <3> QED
      BY <1>3, <2>1, <2>2, <2>3, <3>1, <3>2, <3>3 DEF IdentityInv, Kept, AtLeast, recordVars
  <2>9. PublicationOK(r)'
    BY <1>2, <1>3, <2>1, <2>4, <2>5 DEF PublicationOK, recordVars
  <2> QED
    BY <2>2, <2>3, <2>7, <2>8, <2>9 DEF IdentityInv
<1>5. CASE k.puts = 1
  <2>1. /\ object' = object /\ pointer' = k.rev
        /\ publication' = Quiet /\ dirty' = FALSE /\ publishedRev' = k.rev /\ promised' = k.got
    BY <1>1, <1>5 DEF PublishPut, PublishOrder
  <2>2. k.rev \in DOMAIN object /\ object[k.rev] = k.got
    BY <1>1, <1>5 DEF PublicationOK
  <2>3. dirty' \in BOOLEAN
    BY <2>1, ZenonT(60)
  <2>4. IdentityStates'
    <3>1. publishedRev' \in 0..published /\ pointer' \in 0..published
      BY <1>0, <1>2, <2>1
    <3> QED
      BY <1>0, <1>2, <1>3, <2>1, <2>3, <3>1, QuietPublication DEF IdentityInv, IdentityStates, recordVars
  <2>5. Kept'
    <3>1. \A u \in Users : k.got[u] \in Nat /\ record[u] \in Nat /\ record[u] >= k.got[u] /\ k.got[u] >= k.got[u]
      BY <1>0, <1>2 DEF Sets
    <3> QED
      BY <1>0, <1>3, <2>1, <2>2, <3>1, QuietPublication DEF IdentityInv, Kept, AtLeast, recordVars
  <2>6. PublicationOK(Quiet)'
    BY QuietPublication DEF PublicationOK
  <2> QED
    BY <2>1, <2>4, <2>5, <2>6 DEF IdentityInv
<1> QED
  BY <1>2, <1>4, <1>5

\* A new life knows nothing of a publication; a domain that is hosted again has what the
\* pointer's object says.
LEMMA LifeSteps ==
  ASSUME IdentityInv, Reincarnate \/ Rehost
  PROVE  IdentityInv'
<1>1. /\ editing' = {} /\ dirty' = FALSE /\ publication' = Quiet
      /\ UNCHANGED <<edits, published, object, pointer, promised>>
  BY DEF Reincarnate, Rehost, NewLife
<1>2. /\ publishedRev' \in 0..published /\ record' \in Sets /\ AtLeast(record', promised)
      /\ \A u \in Users : record'[u] <= edits
  <2>1. CASE Reincarnate
    BY <2>1 DEF Reincarnate, NewLife, IdentityInv, IdentityStates, Kept, Sets
  <2>2. CASE Rehost
    <3>1. pointer \in DOMAIN object /\ pointer # 0 /\ publishedRev' = pointer /\ record' = object[pointer]
      BY <2>2 DEF Rehost, NewLife, IdentityInv, IdentityStates
    <3>2. object[pointer] \in Sets
      BY <3>1 DEF IdentityInv, IdentityStates
    <3> QED
      BY <3>1, <3>2 DEF IdentityInv, IdentityStates, Kept
  <2> QED
    BY <2>1, <2>2
<1>3. dirty' \in BOOLEAN
  BY <1>1, ZenonT(60)
<1>4. IdentityStates'
  BY <1>1, <1>2, <1>3, QuietPublication DEF IdentityInv, IdentityStates
<1>5. Kept'
  <2>1. edits \in Nat
    BY DEF IdentityInv, IdentityStates
  <2> QED
    BY <1>1, <1>2, <2>1, QuietPublication DEF IdentityInv, Kept, AtLeast
<1>6. PublicationOK(Quiet)'
  BY QuietPublication DEF PublicationOK
<1> QED
  BY <1>1, <1>4, <1>5, <1>6 DEF IdentityInv

\* Every step keeps the invariant.
LEMMA IdentityStep == IdentityInv /\ [IdentityNext]_identityVars => IdentityInv'
<1> SUFFICES ASSUME IdentityInv, [IdentityNext]_identityVars PROVE IdentityInv'
  OBVIOUS
<1>1. CASE IdentityNext
  BY <1>1, EditSteps, ReadSteps, PutSteps, LifeSteps DEF IdentityNext
<1>2. CASE UNCHANGED identityVars
  BY <1>2 DEF identityVars, recordVars, publishVars, IdentityInv, IdentityStates, Kept, PublicationOK, AtLeast
<1> QED
  BY <1>1, <1>2

LEMMA IdentityInductive == IdentitySpec => []IdentityInv
BY IdentityBegins, IdentityStep, PTL DEF IdentitySpec

\* Wherever the publisher dies, fails or is hosted again, and although it writes over
\* objects of earlier lives: the pointer names an object, and a domain restored from it has
\* every user at least as it was in the last completed publication (publish, restore).
THEOREM RestoredIsFresh == IdentitySpec => []RestoredSetIsFresh
<1>1. IdentityInv => RestoredSetIsFresh
  BY DEF IdentityInv, Kept, AtLeast, RestoredSetIsFresh
<1> QED
  BY <1>1, IdentityInductive, PTL

\* The types of the users' store and its publisher.
THEOREM IdentityTypeCorrect == IdentitySpec => []IdentityTypeOK
<1>1. ASSUME IdentityInv PROVE IdentityTypeOK
  <2>1. publication.got \in Sets /\ publication.at \in {"idle", "read", "put"} /\ publication.puts \in 0..1
    BY <1>1, PublicationFields DEF IdentityInv, IdentityStates
  <2>2. \A u \in Users : record[u] \in 0..edits /\ publication.got[u] \in 0..edits
    BY <1>1, <2>1 DEF IdentityInv, IdentityStates, Kept, Sets
  <2>3. {pointer, publishedRev} \subseteq 0..MaxPublications /\ DOMAIN object \subseteq 1..MaxPublications
        /\ edits <= MaxEdits
    BY <1>1, IdentityAssumption DEF IdentityInv, IdentityStates
  <2> QED
    BY <1>1, <2>1, <2>2, <2>3 DEF IdentityInv, IdentityStates, IdentityTypeOK
<1> QED
  BY <1>1, IdentityInductive, PTL

-----------------------------------------------------------------------------
\* The spool of an appliance.

SpoolSpec == SpoolInit /\ [][SpoolNext]_spoolVars

Segments == [camera : Channels, launch : Nat, number : Nat, born : Nat]
Children == [launch : Nat, open : SUBSET Segments]
Uploads == [at : {"asleep", "send", "acknowledged"}, todo : SUBSET Segments, sent : Nat]
Of(l) == {s \in segments : s.launch = l}

SpoolStates ==
  /\ child \in [Channels -> Children] /\ launches \in Nat /\ uploader \in Uploads
  /\ segments \subseteq Segments /\ IsFiniteSet(segments)
  /\ stored \subseteq segments /\ whole \subseteq segments /\ inCloud \subseteq segments

\* Segments are numbered as they are opened, and the names of a camera's segments grow with them.
Numbered ==
  /\ \A s \in segments : /\ s.born < Cardinality(segments) /\ s.launch <= launches
                         /\ s.number < Cardinality(Of(s.launch))
  /\ \A s, t \in segments : s.born = t.born => s = t
  /\ \A s, t \in segments : s.launch = t.launch /\ s.number = t.number => s = t
  /\ \A s, t \in segments : s.camera = t.camera /\ s.born < t.born => Before(s, t)
  /\ \A c \in Channels : /\ child[c].launch <= launches
                         /\ child[c].launch = 0 => child[c].open = {}
                         /\ child[c].launch # 0 => \A s \in segments : s.camera = c => s.launch <= child[c].launch

\* What is open is of its camera, in the spool and not finalized.
OpenOnes ==
  \A c \in Channels : \A s \in child[c].open : s.camera = c /\ s \in stored /\ s \notin whole

\* What a pass still has to send is in the spool, with all that lies before it.
PassOK(k) ==
  /\ k.at = "asleep" => k.todo = {}
  /\ k.at # "asleep" => k.todo # {}
  /\ k.sent < Budget /\ k.todo \subseteq stored
  /\ \A t \in k.todo, s \in stored : s.camera = t.camera /\ s.born < t.born => s \in k.todo
  /\ k.at = "acknowledged" => First(k.todo) \in inCloud /\ First(k.todo) \in whole

SpoolInv == SpoolStates /\ Numbered /\ OpenOnes /\ PassOK(uploader) /\ ArchiveIsContiguous

LEMMA AsleepPass == Asleep \in Uploads /\ Asleep.at = "asleep" /\ Asleep.todo = {} /\ Asleep.sent = 0
BY DEF Asleep, Uploads

LEMMA NoChildFields == NoChild \in Children /\ NoChild.launch = 0 /\ NoChild.open = {}
BY DEF NoChild, Children

\* A pass that has still so much to send.
Listed(list, n) == [at |-> "send", todo |-> list, sent |-> n]

LEMMA ListedFields ==
  ASSUME NEW list \in SUBSET Segments, NEW n \in Nat
  PROVE  /\ Listed(list, n) \in Uploads /\ Listed(list, n).at = "send"
         /\ Listed(list, n).todo = list /\ Listed(list, n).sent = n
<1> HIDE DEF Segments
<1> QED
  BY DEF Listed, Uploads

\* An upload that sleeps keeps every promise of a pass.
LEMMA AsleepOK == PassOK(Asleep) /\ PassOK(Asleep)'
BY AsleepPass, SpoolAssumption DEF PassOK

\* The spool begins in the invariant.
LEMMA SpoolBegins == SpoolInit => SpoolInv
<1> SUFFICES ASSUME SpoolInit PROVE SpoolInv
  OBVIOUS
<1> USE DEF SpoolInit
<1>1. SpoolStates
  BY NoChildFields, AsleepPass, FS_EmptySet DEF SpoolStates
<1>2. Numbered
  BY NoChildFields DEF Numbered
<1>3. OpenOnes
  BY NoChildFields DEF OpenOnes
<1>4. ArchiveIsContiguous
  BY DEF ArchiveIsContiguous, Sent
<1> QED
  BY <1>1, <1>2, <1>3, <1>4, AsleepOK DEF SpoolInv

\* The segments are in one order by name.
LEMMA NamesAreOrdered ==
  ASSUME SpoolStates, Numbered
  PROVE  /\ \A s, t \in segments : s # t => Before(s, t) \/ Before(t, s)
         /\ \A s, t \in segments : ~(Before(s, t) /\ Before(t, s))
         /\ \A s, t, u \in segments : Before(s, t) /\ Before(t, u) => Before(s, u)
<1>1. \A s \in segments : s.launch \in Nat /\ s.number \in Nat
  BY DEF SpoolStates, Segments
<1> QED
  BY <1>1 DEF Numbered, Before

\* The oldest name of a list comes before all the others.
LEMMA FirstIsOldest ==
  ASSUME SpoolStates, Numbered, NEW list \in SUBSET segments, list # {}
  PROVE  First(list) \in list /\ \A t \in list \ {First(list)} : Before(First(list), t)
<1> DEFINE Beats == {p \in list \X list : Before(p[1], p[2])}
<1>1. \A s, t \in list : <<s, t>> \in Beats <=> Before(s, t)
  OBVIOUS
<1> HIDE DEF Beats
<1>2. IsFiniteSet(list)
  BY FS_Subset DEF SpoolStates
<1>3. \A s \in list : <<s, s>> \notin Beats
  BY <1>1, NamesAreOrdered
<1>4. \A s, t, u \in list : <<s, t>> \in Beats /\ <<t, u>> \in Beats => <<s, u>> \in Beats
  BY <1>1, NamesAreOrdered
<1>5. PICK s \in list : \A t \in list : <<t, s>> \notin Beats
  BY <1>2, <1>3, <1>4, Unbeaten
<1>6. \A t \in list \ {s} : Before(s, t)
  BY <1>1, <1>5, NamesAreOrdered
<1> QED
  BY <1>6 DEF First

\* A pipeline is launched under a number none had, and ends with or without finalizing.
LEMMA ChildSteps ==
  ASSUME SpoolInv, NEW c \in Channels, Launch(c) \/ PipelineEnds(c)
  PROVE  SpoolInv'
<1>1. SpoolStates /\ Numbered /\ OpenOnes /\ PassOK(uploader) /\ ArchiveIsContiguous
  BY DEF SpoolInv
<1>2. UNCHANGED <<segments, stored, uploader, inCloud>>
  BY DEF Launch, PipelineEnds, sendVars
<1>3. PICK x \in Children :
        /\ child' = [child EXCEPT ![c] = x] /\ x.open \subseteq child[c].open /\ x.launch <= launches'
        /\ x.launch # 0 => \A s \in segments : s.launch <= x.launch
        /\ x.launch = 0 => x.open = {}
        /\ launches' \in Nat /\ launches <= launches'
        /\ whole' = whole \/ (whole' = whole \cup child[c].open /\ x.open = {})
  <2>1. launches \in Nat /\ \A s \in segments : s.launch \in Nat /\ s.launch <= launches
    BY <1>1 DEF SpoolStates, Segments, Numbered
  <2>2. CASE Launch(c)
    <3>1. PICK n \in Nat : n = launches + 1
      BY <2>1
    <3>2. PICK k \in Children : k = child[c]
      BY <1>1 DEF SpoolStates
    <3>3. [k EXCEPT !.launch = n] \in Children /\ [k EXCEPT !.launch = n].launch = n /\ [k EXCEPT !.launch = n].open = k.open
      BY DEF Children
    <3>4. PICK x \in Children : x = [k EXCEPT !.launch = n] /\ x.launch = n /\ x.open = k.open
      BY <3>3
    <3>5. child' = [child EXCEPT ![c] = x] /\ launches' = n /\ whole' = whole
      BY <2>2, <3>1, <3>2, <3>4 DEF Launch
    <3>6. \A s \in segments : s.launch <= n
      BY <2>1, <3>1
    <3>7. n # 0 /\ launches <= n
      BY <2>1, <3>1
    <3>8. /\ child' = [child EXCEPT ![c] = x] /\ x.open \subseteq child[c].open /\ x.launch <= launches'
          /\ x.launch # 0 => \A s \in segments : s.launch <= x.launch
          /\ x.launch = 0 => x.open = {}
          /\ launches' \in Nat /\ launches <= launches'
          /\ whole' = whole \/ (whole' = whole \cup child[c].open /\ x.open = {})
      BY <2>1, <3>2, <3>4, <3>5, <3>6, <3>7
    <3> QED
      BY <3>8
  <2>3. CASE PipelineEnds(c)
    <3>1. /\ child' = [child EXCEPT ![c] = NoChild] /\ launches' = launches
          /\ whole' = whole \/ whole' = whole \cup child[c].open
      BY <2>3 DEF PipelineEnds
    <3>2. PICK x \in Children : x = NoChild
      BY NoChildFields
    <3>3. x.launch = 0 /\ x.open = {}
      BY <3>2, NoChildFields
    <3>4. /\ child' = [child EXCEPT ![c] = x] /\ x.open \subseteq child[c].open /\ x.launch <= launches'
          /\ x.launch # 0 => \A s \in segments : s.launch <= x.launch
          /\ x.launch = 0 => x.open = {}
          /\ launches' \in Nat /\ launches <= launches'
          /\ whole' = whole \/ (whole' = whole \cup child[c].open /\ x.open = {})
      BY <2>1, <3>1, <3>2, <3>3
    <3> QED
      BY <3>4
  <2> QED
    BY <2>2, <2>3
<1>4. /\ child' \in [Channels -> Children] /\ child'[c] = x
      /\ \A d \in Channels : d # c => child'[d] = child[d]
  BY <1>1, <1>3 DEF SpoolStates
<1>5. whole' \subseteq segments /\ whole \subseteq whole'
  BY <1>1, <1>3 DEF SpoolStates, OpenOnes
<1>6. SpoolStates'
  BY <1>1, <1>2, <1>3, <1>4, <1>5 DEF SpoolStates
<1>7. Numbered'
  <2>1. /\ launches \in Nat /\ \A s \in segments : s.launch \in Nat
        /\ \A d \in Channels : child[d].launch \in Nat
    BY <1>1 DEF SpoolStates, Segments, Children
  <2>2. \A s \in segments : /\ s.born < Cardinality(segments') /\ s.launch <= launches'
                            /\ s.number < Cardinality(Of(s.launch)')
    BY <1>1, <1>2, <1>3, <2>1 DEF Numbered, Of
  <2>3. \A d \in Channels : /\ child'[d].launch <= launches'
                            /\ child'[d].launch = 0 => child'[d].open = {}
                            /\ child'[d].launch # 0 => \A s \in segments : s.camera = d => s.launch <= child'[d].launch
    BY <1>1, <1>3, <1>4, <2>1 DEF Numbered
  <2> QED
    BY <1>1, <1>2, <2>2, <2>3 DEF Numbered
<1>8. OpenOnes'
  BY <1>1, <1>2, <1>3, <1>4 DEF OpenOnes
<1>9. PassOK(uploader)'
  BY <1>1, <1>2, <1>5 DEF PassOK
<1>10. ArchiveIsContiguous'
  BY <1>1, <1>2 DEF ArchiveIsContiguous, Sent
<1> QED
  BY <1>6, <1>7, <1>8, <1>9, <1>10 DEF SpoolInv

SegmentOf(c, l, n, b) == [camera |-> c, launch |-> l, number |-> n, born |-> b]

LEMMA SegmentMade ==
  ASSUME NEW c \in Channels, NEW l \in Nat, NEW n \in Nat, NEW b \in Nat
  PROVE  /\ SegmentOf(c, l, n, b) \in Segments
         /\ SegmentOf(c, l, n, b).camera = c /\ SegmentOf(c, l, n, b).launch = l
         /\ SegmentOf(c, l, n, b).number = n /\ SegmentOf(c, l, n, b).born = b
BY DEF SegmentOf, Segments

\* A segment is opened: the last of its camera, by number, by launch and by birth.
LEMMA SegmentStep ==
  ASSUME SpoolInv, NEW c \in Channels, NextSegment(c)
  PROVE  SpoolInv'
<1>1. SpoolStates /\ Numbered /\ OpenOnes /\ PassOK(uploader) /\ ArchiveIsContiguous
  BY DEF SpoolInv
<1>2. PICK k \in Children : k = child[c]
  BY <1>1 DEF SpoolStates
<1>3. k.launch \in Nat /\ k.launch # 0
  <2>1. k # NoChild
    BY <1>2 DEF NextSegment
  <2>2. k.launch = 0 => k.open = {}
    BY <1>1, <1>2 DEF Numbered
  <2> QED
    BY <2>1, <2>2 DEF Children, NoChild
<1>4. /\ IsFiniteSet(segments) /\ Cardinality(segments) \in Nat
      /\ \A l : IsFiniteSet(Of(l)) /\ Cardinality(Of(l)) \in Nat
  <2>1. \A l : Of(l) \in SUBSET segments
    BY DEF Of
  <2> QED
    BY <1>1, <2>1, FS_Subset, FS_CardinalityType DEF SpoolStates
<1>5. PICK new \in Segments :
        /\ new = SegmentOf(c, k.launch, Cardinality(Of(k.launch)), Cardinality(segments))
        /\ new.camera = c /\ new.launch = k.launch
        /\ new.number = Cardinality(Of(k.launch)) /\ new.born = Cardinality(segments)
  BY <1>3, <1>4, SegmentMade
<1>6. PICK x \in Children : x = [k EXCEPT !.open = {new}] /\ x.launch = k.launch /\ x.open = {new}
  <2>1. /\ [k EXCEPT !.open = {new}] \in Children
        /\ [k EXCEPT !.open = {new}].launch = k.launch /\ [k EXCEPT !.open = {new}].open = {new}
    BY DEF Children
  <2> QED
    BY <2>1
<1>7. /\ segments' = segments \cup {new} /\ stored' = stored \cup {new} /\ whole' = whole \cup k.open
      /\ child' = [child EXCEPT ![c] = x] /\ UNCHANGED <<launches, uploader, inCloud>>
  BY <1>2, <1>5, <1>6 DEF NextSegment, SegmentOf, Of, sendVars
<1>8. new \notin segments /\ \A s \in segments : s.born \in Nat /\ s.born < new.born
  BY <1>1, <1>4, <1>5 DEF SpoolStates, Segments, Numbered
<1>9. IsFiniteSet(segments') /\ Cardinality(segments') = Cardinality(segments) + 1
  BY <1>4, <1>7, <1>8, FS_AddElement
<1>10. \A l : Cardinality(Of(l)') = IF l = k.launch THEN Cardinality(Of(l)) + 1 ELSE Cardinality(Of(l))
  <2>1. Of(k.launch)' = Of(k.launch) \cup {new} /\ new \notin Of(k.launch)
    BY <1>5, <1>7, <1>8 DEF Of
  <2>2. \A l : l # k.launch => Of(l)' = Of(l)
    BY <1>5, <1>7 DEF Of
  <2>3. Cardinality(Of(k.launch) \cup {new}) = Cardinality(Of(k.launch)) + 1
    BY <1>4, <2>1, FS_AddElement
  <2> QED
    BY <2>1, <2>2, <2>3
<1>11. /\ child' \in [Channels -> Children] /\ child'[c] = x
       /\ \A d \in Channels : d # c => child'[d] = child[d]
  BY <1>1, <1>7 DEF SpoolStates
<1>12. k.open \subseteq stored /\ \A s \in k.open : s.camera = c /\ s \in segments
  BY <1>1, <1>2 DEF OpenOnes, SpoolStates
<1>13. SpoolStates'
  BY <1>1, <1>7, <1>9, <1>11, <1>12 DEF SpoolStates
<1>14. Numbered'
  <2>1. /\ launches \in Nat /\ \A s \in segments : s.launch \in Nat /\ s.number \in Nat /\ s.born \in Nat
        /\ \A d \in Channels : child[d].launch \in Nat
    BY <1>1 DEF SpoolStates, Segments, Children
  <2>2. \A s \in segments : s.camera = c => s.launch <= k.launch
    BY <1>1, <1>2, <1>3 DEF Numbered
  <2>3. k.launch <= launches
    BY <1>1, <1>2 DEF Numbered
  <2>4. \A s \in segments' : /\ s.born < Cardinality(segments') /\ s.launch <= launches'
                             /\ s.number < Cardinality(Of(s.launch)')
    <3>1. \A s \in segments : /\ s.born < Cardinality(segments) /\ s.launch <= launches
                              /\ s.number < Cardinality(Of(s.launch))
      BY <1>1 DEF Numbered
    <3>2. \A s \in segments : /\ s.born < Cardinality(segments') /\ s.launch <= launches'
                              /\ s.number < Cardinality(Of(s.launch)')
      BY <1>4, <1>7, <1>9, <1>10, <2>1, <3>1
    <3>3. /\ new.born < Cardinality(segments') /\ new.launch <= launches'
          /\ new.number < Cardinality(Of(new.launch)')
      BY <1>4, <1>5, <1>7, <1>9, <1>10, <2>3
    <3> QED
      BY <1>7, <3>2, <3>3
  <2>5. \A s, t \in segments' : s.born = t.born => s = t
    BY <1>1, <1>7, <1>8, <2>1 DEF Numbered
  <2>6. \A s \in segments : s.launch = new.launch => s.number < new.number
    BY <1>1, <1>5 DEF Numbered
  <2>7. \A s, t \in segments' : s.launch = t.launch /\ s.number = t.number => s = t
    <3>1. \A s, t \in segments : s.launch = t.launch /\ s.number = t.number => s = t
      BY <1>1 DEF Numbered
    <3>2. \A s \in segments : ~(s.launch = new.launch /\ s.number = new.number)
      BY <1>4, <1>5, <2>1, <2>6
    <3> QED
      BY <1>7, <3>1, <3>2
  <2>8. \A s, t \in segments' : s.camera = t.camera /\ s.born < t.born => Before(s, t)
    <3>1. \A s, t \in segments : s.camera = t.camera /\ s.born < t.born => Before(s, t)
      BY <1>1 DEF Numbered
    <3>2. \A s \in segments : s.camera = c => Before(s, new)
      BY <1>3, <1>5, <2>1, <2>2, <2>6 DEF Before
    <3>3. \A t \in segments' : ~(new.born < t.born)
      BY <1>4, <1>5, <1>7, <1>8
    <3> QED
      BY <1>5, <1>7, <3>1, <3>2, <3>3
  <2>9. \A d \in Channels :
          /\ child'[d].launch <= launches'
          /\ child'[d].launch = 0 => child'[d].open = {}
          /\ child'[d].launch # 0 => \A s \in segments' : s.camera = d => s.launch <= child'[d].launch
    <3>1. CASE TRUE
      <4> TAKE d \in Channels
      <4>1. CASE d = c
        BY <1>3, <1>5, <1>6, <1>7, <1>11, <2>2, <2>3, <4>1
      <4>2. CASE d # c
        BY <1>1, <1>5, <1>7, <1>11, <4>2 DEF Numbered
      <4> QED
        BY <4>1, <4>2
    <3> QED
      BY <3>1
  <2> QED
    BY <2>4, <2>5, <2>7, <2>8, <2>9 DEF Numbered
<1>15. OpenOnes'
  <2> SUFFICES ASSUME NEW d \in Channels, NEW s \in child'[d].open
               PROVE  s.camera = d /\ s \in stored' /\ s \notin whole'
    BY DEF OpenOnes
  <2>1. CASE d = c
    BY <1>1, <1>5, <1>6, <1>7, <1>8, <1>11, <1>12, <2>1 DEF SpoolStates
  <2>2. CASE d # c
    BY <1>1, <1>7, <1>11, <1>12, <2>2 DEF OpenOnes
  <2> QED
    BY <2>1, <2>2
<1>16. \A t \in segments : ~(new.born < t.born)
  BY <1>4, <1>5, <1>8
<1>17. PassOK(uploader)'
  <2>1. uploader.todo \subseteq segments
    BY <1>1 DEF PassOK, SpoolStates
  <2> QED
    BY <1>1, <1>7, <1>16, <2>1 DEF PassOK
<1>18. ArchiveIsContiguous'
  BY <1>1, <1>7, <1>8, <1>16 DEF ArchiveIsContiguous, Sent
<1> QED
  BY <1>13, <1>14, <1>15, <1>17, <1>18 DEF SpoolInv

\* What the uploader does to the spool: the camera's pipelines do not notice.
UploadKeeps == UNCHANGED <<child, launches, segments, whole>>

LEMMA ChildrenUnnoticed ==
  ASSUME SpoolInv, UploadKeeps, stored' \subseteq stored, inCloud' \subseteq segments, uploader' \in Uploads,
         \A c \in Channels : child[c].open \subseteq stored'
  PROVE  SpoolStates' /\ Numbered' /\ OpenOnes'
<1>1. SpoolStates'
  BY DEF SpoolInv, SpoolStates, UploadKeeps
<1>2. Numbered'
  BY DEF SpoolInv, Numbered, UploadKeeps, Of
<1>3. OpenOnes'
  BY DEF SpoolInv, OpenOnes, UploadKeeps
<1> QED
  BY <1>1, <1>2, <1>3

\* The link turns, a pass begins, an upload is acknowledged or fails, the uploader is killed: nothing leaves the spool.
LEMMA SendSteps ==
  ASSUME SpoolInv, LinkTurns \/ DrainBegins \/ Send \/ KillUploader
  PROVE  SpoolInv'
<1>1. SpoolStates /\ Numbered /\ OpenOnes /\ PassOK(uploader) /\ ArchiveIsContiguous
  BY DEF SpoolInv
<1>2. UploadKeeps /\ stored' = stored
  BY DEF LinkTurns, DrainBegins, Send, KillUploader, childVars, UploadKeeps
<1>3. uploader \in Uploads /\ stored \subseteq Segments /\ Budget \in Nat \ {0}
  BY <1>1, SpoolAssumption DEF SpoolStates
<1>4. uploader' \in Uploads /\ inCloud \subseteq inCloud' /\ inCloud' \subseteq segments /\ PassOK(uploader)'
  <2>1. CASE LinkTurns
    <3>1. uploader' = uploader /\ inCloud' = inCloud
      BY <2>1 DEF LinkTurns, sendVars
    <3>2. whole' = whole /\ stored' = stored
      BY <1>2 DEF UploadKeeps
    <3>3. PassOK(uploader)'
      BY <1>1, <3>1, <3>2 DEF PassOK
    <3> QED
      BY <1>1, <1>3, <3>1, <3>3 DEF SpoolStates
  <2>2. CASE DrainBegins
    <3>1. PICK u \in Uploads : u = Listed(stored, 0) /\ u.at = "send" /\ u.todo = stored /\ u.sent = 0
      BY <1>3, ListedFields
    <3>2. uploader' = u /\ stored # {} /\ inCloud' = inCloud
      BY <2>2, <3>1 DEF DrainBegins, Listed
    <3> QED
      BY <1>1, <1>2, <1>3, <3>1, <3>2 DEF PassOK, SpoolStates
  <2>3. CASE Send
    <3>1. uploader.at = "send" /\ uploader.todo # {} /\ uploader.todo \subseteq segments
      BY <1>1, <2>3 DEF Send, PassOK, SpoolStates
    <3>2. PICK s \in segments : s = First(uploader.todo)
      BY <1>1, <3>1, FirstIsOldest
    <3>3. CASE linkUp /\ s \in whole /\ inCloud' = inCloud \cup {s} /\ uploader' = [uploader EXCEPT !.at = "acknowledged"]
      <4>1. /\ [uploader EXCEPT !.at = "acknowledged"] \in Uploads
            /\ [uploader EXCEPT !.at = "acknowledged"].at = "acknowledged"
            /\ [uploader EXCEPT !.at = "acknowledged"].todo = uploader.todo
            /\ [uploader EXCEPT !.at = "acknowledged"].sent = uploader.sent
        BY <1>3 DEF Uploads
      <4>2. PICK u \in Uploads : u = uploader' /\ u.at = "acknowledged" /\ u.todo = uploader.todo /\ u.sent = uploader.sent
        BY <3>3, <4>1
      <4> QED
        BY <1>1, <1>2, <3>1, <3>2, <3>3, <4>2 DEF PassOK, SpoolStates, UploadKeeps
    <3>4. CASE uploader' = Asleep /\ inCloud' \in {inCloud, inCloud \cup ({s} \cap whole)}
      BY <1>1, <3>2, <3>4, AsleepPass, AsleepOK DEF PassOK, SpoolStates
    <3> QED
      BY <2>3, <3>2, <3>3, <3>4 DEF Send, AfterFailure
  <2>4. CASE KillUploader
    BY <1>1, <2>4, AsleepPass, AsleepOK DEF KillUploader, PassOK, SpoolStates
  <2> QED
    BY <2>1, <2>2, <2>3, <2>4
<1>5. SpoolStates' /\ Numbered' /\ OpenOnes'
  BY <1>1, <1>2, <1>4, ChildrenUnnoticed DEF OpenOnes
<1>6. ArchiveIsContiguous'
  BY <1>1, <1>2, <1>4 DEF ArchiveIsContiguous, Sent, UploadKeeps
<1> QED
  BY <1>4, <1>5, <1>6 DEF SpoolInv

\* What was acknowledged leaves the spool: it is the oldest of its camera.
LEMMA RemoveStep == SpoolInv /\ RemoveSent => SpoolInv'
<1> SUFFICES ASSUME SpoolInv, RemoveSent PROVE SpoolInv'
  OBVIOUS
<1>1. SpoolStates /\ Numbered /\ OpenOnes /\ PassOK(uploader) /\ ArchiveIsContiguous
  BY DEF SpoolInv
<1>2. /\ uploader \in Uploads /\ uploader.at = "acknowledged" /\ uploader.todo # {}
      /\ uploader.todo \subseteq stored /\ stored \subseteq segments /\ Budget \in Nat \ {0}
      /\ uploader.sent \in Nat /\ uploader.sent < Budget /\ uploader.todo \subseteq Segments
  BY <1>1, SpoolAssumption DEF RemoveSent, PassOK, SpoolStates, Uploads
<1>3. PICK s \in uploader.todo : s = First(uploader.todo) /\ \A t \in uploader.todo \ {s} : Before(s, t)
  BY <1>1, <1>2, FirstIsOldest
<1>4. s \in inCloud /\ s \in whole
  BY <1>1, <1>2, <1>3 DEF PassOK
<1>5. UploadKeeps /\ stored' = stored \ {s} /\ inCloud' = inCloud
  BY <1>3 DEF RemoveSent, childVars, UploadKeeps
<1>6. \A t \in stored : t.camera = s.camera => ~(t.born < s.born)
  <2>1. \A t \in stored : t.camera = s.camera /\ t.born < s.born => t \in uploader.todo /\ Before(t, s)
    BY <1>1, <1>2 DEF PassOK, Numbered
  <2>2. \A t \in segments : s.born < s.born => FALSE
    BY <1>1, <1>2 DEF SpoolStates, Segments
  <2>3. \A t \in stored : t.camera = s.camera /\ t.born < s.born => t # s
    BY <1>2, <2>2
  <2> QED
    BY <1>1, <1>2, <1>3, <2>1, <2>3, NamesAreOrdered
<1>7. uploader' \in Uploads /\ PassOK(uploader)'
  <2>1. CASE uploader' = Asleep
    BY <2>1, AsleepPass, AsleepOK DEF PassOK
  <2>2. CASE /\ uploader.todo \ {s} # {} /\ uploader.sent + 1 # Budget
             /\ uploader' = [at |-> "send", todo |-> uploader.todo \ {s}, sent |-> uploader.sent + 1]
    <3>1. PICK left \in SUBSET Segments : left = uploader.todo \ {s}
      BY <1>2
    <3>2. PICK n \in Nat : n = uploader.sent + 1 /\ n < Budget
      BY <1>2, <2>2
    <3>3. PICK u \in Uploads : u = Listed(left, n) /\ u.at = "send" /\ u.todo = left /\ u.sent = n
      BY ListedFields
    <3>4. uploader' = u
      BY <2>2, <3>1, <3>2, <3>3 DEF Listed
    <3>5. \A t \in u.todo, r \in stored' : r.camera = t.camera /\ r.born < t.born => r \in u.todo
      BY <1>1, <1>5, <3>1, <3>3 DEF PassOK
    <3> QED
      BY <1>2, <1>5, <2>2, <3>1, <3>2, <3>3, <3>4, <3>5 DEF PassOK
  <2> QED
    BY <1>3, <2>1, <2>2 DEF RemoveSent
<1>8. SpoolStates' /\ Numbered' /\ OpenOnes'
  <2>1. \A c \in Channels : child[c].open \subseteq stored'
    BY <1>1, <1>4, <1>5 DEF OpenOnes
  <2> QED
    BY <1>1, <1>5, <1>7, <2>1, ChildrenUnnoticed DEF SpoolStates
<1>9. ArchiveIsContiguous'
  BY <1>1, <1>2, <1>4, <1>5, <1>6 DEF ArchiveIsContiguous, Sent, UploadKeeps
<1> QED
  BY <1>7, <1>8, <1>9 DEF SpoolInv

\* Every step of the spool keeps the invariant.
LEMMA SpoolStep == SpoolInv /\ [SpoolNext]_spoolVars => SpoolInv'
<1> SUFFICES ASSUME SpoolInv, [SpoolNext]_spoolVars PROVE SpoolInv'
  OBVIOUS
<1>1. CASE SpoolNext
  BY <1>1, ChildSteps, SegmentStep, SendSteps, RemoveStep DEF SpoolNext
<1>2. CASE UNCHANGED spoolVars
  BY <1>2 DEF spoolVars, childVars, sendVars, SpoolInv, SpoolStates, Numbered, Of, OpenOnes, PassOK, ArchiveIsContiguous, Sent
<1> QED
  BY <1>1, <1>2

LEMMA SpoolInductive == SpoolSpec => []SpoolInv
BY SpoolBegins, SpoolStep, PTL DEF SpoolSpec

\* What has left the spool is in the cloud, and so is all that its camera recorded before it
\* (М9 edgevms/spool/spool.py drain): whatever the pipelines, the link and the uploader do.
THEOREM ArchiveHasNoHoles == SpoolSpec => []ArchiveIsContiguous
<1>1. SpoolInv => ArchiveIsContiguous
  BY DEF SpoolInv
<1> QED
  BY <1>1, SpoolInductive, PTL

\* The spool stays within its types; what is open lies in it.
THEOREM SpoolTypeCorrect == SpoolSpec => []SpoolTypeOK
<1>1. SpoolInv => SpoolTypeOK
  <2> SUFFICES ASSUME SpoolInv PROVE SpoolTypeOK
    OBVIOUS
  <2>1. \A c \in Channels : child[c].launch \in 0..launches /\ child[c].open \subseteq stored
    BY DEF SpoolInv, SpoolStates, Numbered, OpenOnes, Children
  <2> QED
    BY <2>1 DEF SpoolInv, SpoolStates, SpoolTypeOK, PassOK, Uploads
<1> QED
  BY <1>1, SpoolInductive, PTL

-----------------------------------------------------------------------------
\* Tokens, keys and revocations.

TrustSpec == TrustInit /\ [][TrustNext]_trustVars

IssuedTokens == [kid : Nat, iat : Nat, exp : Nat]
Revocable == Tokens \cup {Idle.token}
Requested == [at : {"idle", "get", "put"}, token : Revocable, index : Nat]
Lists == [jtis : SUBSET Tokens, index : Nat]
Keys == [kid : Nat, until : Nat]

TrustStates ==
  /\ clock \in 1..MaxTime /\ token \in [Tokens -> IssuedTokens]
  /\ kid \in 1..lastKid /\ storedKid \in 1..lastKid /\ lastKid \in Nat /\ deaths \in Nat
  /\ revokedRow \in Lists
  /\ previous \subseteq Keys /\ keysRow \subseteq Keys /\ clusterKeys \subseteq Keys
  /\ request \in [Requests -> Requested]

\* Every token in a list or in a request has been issued.
OnlyIssued ==
  /\ revoked \subseteq Issued /\ acked \subseteq Issued /\ revokedRow.jtis \subseteq Issued
  /\ \A r \in Requests : /\ request[r].index <= revokedRow.index
                         /\ request[r].at # "idle" => request[r].token \in Issued
  /\ \A t \in Issued : /\ token[t].kid \in 1..lastKid /\ token[t].exp = token[t].iat + TokenLife
                       /\ token[t].iat <= clock

TrustInv == TrustStates /\ OnlyIssued

TokenOf(k, iat, exp) == [kid |-> k, iat |-> iat, exp |-> exp]

LEMMA TokenMade ==
  ASSUME NEW k \in Nat, NEW n \in Nat, NEW m \in Nat
  PROVE  /\ TokenOf(k, n, m) \in IssuedTokens /\ TokenOf(k, n, m).kid = k
         /\ TokenOf(k, n, m).iat = n /\ TokenOf(k, n, m).exp = m
BY DEF TokenOf, IssuedTokens

LEMMA NoTokenMade == NoToken \in IssuedTokens /\ NoToken.kid = 0
BY DEF NoToken, IssuedTokens

KeyOf(k, n) == [kid |-> k, until |-> n]

LEMMA KeyMade ==
  ASSUME NEW k \in Nat, NEW n \in Nat
  PROVE  KeyOf(k, n) \in Keys /\ KeyOf(k, n).kid = k /\ KeyOf(k, n).until = n
BY DEF KeyOf, Keys

LEMMA KeysetIs == \A k, old : Keyset(k, old) = {KeyOf(k, 0)} \cup old
BY DEF Keyset, KeyOf

\* The request that a thread serves, and one at rest.
CallOf(at, t, n) == [at |-> at, token |-> t, index |-> n]

LEMMA CallMade ==
  ASSUME NEW at \in {"idle", "get", "put"}, NEW t \in Revocable, NEW n \in Nat
  PROVE  /\ CallOf(at, t, n) \in Requested /\ CallOf(at, t, n).at = at
         /\ CallOf(at, t, n).token = t /\ CallOf(at, t, n).index = n
BY DEF CallOf, Requested

LEMMA IdleCall == Idle \in Requested /\ Idle.at = "idle" /\ Idle.index = 0
<1>1. Idle = CallOf("idle", Idle.token, 0)
  BY DEF Idle, CallOf
<1> QED
  BY <1>1, CallMade DEF Revocable

\* Tokens and revocations begin in the invariant.
LEMMA TrustBegins == TrustInit => TrustInv
<1> SUFFICES ASSUME TrustInit PROVE TrustInv
  OBVIOUS
<1>1. Issued = {}
  BY DEF TrustInit, Issued
<1>2. keysRow \subseteq Keys
  BY KeysetIs, KeyMade DEF TrustInit
<1>3. revokedRow \in Lists /\ revokedRow.jtis = {} /\ revokedRow.index = 0
  BY DEF TrustInit, Lists
<1>4. TrustStates
  <2> HIDE DEF IssuedTokens, Lists, Keys, Requested
  <2> QED
    BY <1>2, <1>3, NoTokenMade, IdleCall, TrustAssumption DEF TrustInit, TrustStates
<1>5. \A r \in Requests : request[r] = Idle
  BY DEF TrustInit
<1>6. OnlyIssued
  BY <1>1, <1>3, <1>5, IdleCall DEF TrustInit, OnlyIssued
<1> QED
  BY <1>4, <1>6 DEF TrustInv

\* What one token or one thread does, for all: no token is un-issued, and lists grow by numbers.
LEMMA TrustKeeps ==
  ASSUME TrustInv, TrustStates', token' = token, clock <= clock', lastKid <= lastKid',
         revoked' \subseteq Issued, acked' \subseteq Issued, revokedRow'.jtis \subseteq Issued,
         \A r \in Requests : /\ request'[r].index <= revokedRow'.index
                             /\ request'[r].at # "idle" => request'[r].token \in Issued
  PROVE  TrustInv'
<1>1. Issued' = Issued
  BY DEF Issued
<1>2. /\ TrustStates /\ \A t \in Issued : token[t].kid \in 1..lastKid /\ token[t].exp = token[t].iat + TokenLife
                                          /\ token[t].iat <= clock
      /\ \A t \in Issued : token[t] \in IssuedTokens
  BY DEF TrustInv, OnlyIssued, TrustStates, Issued
<1>3. \A t \in Issued : token[t].kid \in 1..lastKid' /\ token[t].iat <= clock'
  BY <1>2 DEF TrustStates, IssuedTokens
<1> QED
  BY <1>1, <1>2, <1>3 DEF TrustInv, OnlyIssued

\* The clock, the keys and the agent: they leave tokens and revocations alone.
LEMMA KeySteps ==
  ASSUME TrustInv, Tick \/ Rotate \/ PublishKeys \/ SyncKeys \/ SyncRevoked
  PROVE  TrustInv'
<1>1. TrustStates /\ OnlyIssued
  BY DEF TrustInv
<1>2. UNCHANGED <<token, revoked, request, deaths, revokedRow, acked, storedKid>>
  BY DEF Tick, Rotate, PublishKeys, SyncKeys, SyncRevoked, issuerVars, clusterVars
<1>3. /\ clock' \in 1..MaxTime /\ clock <= clock' /\ lastKid' \in Nat /\ lastKid <= lastKid'
      /\ kid' \in 1..lastKid' /\ storedKid \in 1..lastKid'
  <2>1. CASE Tick
    BY <1>1, <2>1, TrustAssumption DEF Tick, issuerVars, TrustStates
  <2>2. CASE Rotate
    BY <1>1, <2>2 DEF Rotate, TrustStates
  <2>3. CASE PublishKeys \/ SyncKeys \/ SyncRevoked
    BY <1>1, <2>3 DEF PublishKeys, SyncKeys, SyncRevoked, issuerVars, TrustStates
  <2> QED
    BY <2>1, <2>2, <2>3
<1>4. previous' \subseteq Keys /\ keysRow' \subseteq Keys /\ clusterKeys' \subseteq Keys
  <2>1. CASE Rotate
    <3>1. clock + Overlap \in Nat /\ kid \in Nat
      BY <1>1, TrustAssumption DEF TrustStates
    <3>2. previous' \subseteq previous \cup {KeyOf(kid, clock + Overlap)}
      BY <2>1 DEF Rotate, Retiring, KeyOf
    <3> QED
      BY <1>1, <2>1, <3>1, <3>2, KeyMade DEF Rotate, clusterVars, TrustStates
  <2>2. CASE PublishKeys
    <3>1. kid \in Nat
      BY <1>1 DEF TrustStates
    <3> QED
      BY <1>1, <2>2, <3>1, KeysetIs, KeyMade DEF PublishKeys, clusterVars, issuerVars, TrustStates
  <2>3. CASE Tick \/ SyncKeys \/ SyncRevoked
    BY <1>1, <2>3 DEF Tick, SyncKeys, SyncRevoked, clusterVars, issuerVars, TrustStates
  <2> QED
    BY <2>1, <2>2, <2>3
<1>5. TrustStates'
  BY <1>1, <1>2, <1>3, <1>4 DEF TrustStates
<1> QED
  BY <1>1, <1>2, <1>3, <1>5, TrustKeeps DEF OnlyIssued

\* A user logs in, and a token is issued.
LEMMA LoginStep ==
  ASSUME TrustInv, NEW t \in Tokens, Login(t)
  PROVE  TrustInv' /\ Issued' = Issued \cup {t} /\ token'[t].kid = kid /\ token'[t].exp <= clock + TokenLife
         /\ \A s \in Issued : token'[s] = token[s]
<1>1. TrustStates /\ OnlyIssued
  BY DEF TrustInv
<1>2. clock \in Nat /\ clock + TokenLife \in Nat /\ kid \in Nat /\ kid # 0 /\ TokenLife \in Nat
  BY <1>1, TrustAssumption DEF TrustStates
<1>3. PICK k \in IssuedTokens : k = TokenOf(kid, clock, clock + TokenLife) /\ k.kid = kid /\ k.iat = clock
                                /\ k.exp = clock + TokenLife
  BY <1>2, TokenMade
<1>4. token' = [token EXCEPT ![t] = k] /\ t \notin Issued
  BY <1>3 DEF Login, TokenOf
<1>5. /\ token' \in [Tokens -> IssuedTokens] /\ token'[t] = k
      /\ \A s \in Tokens : s # t => token'[s] = token[s]
  BY <1>1, <1>4 DEF TrustStates
<1>6. k # NoToken
  BY <1>2, <1>3, NoTokenMade
<1>7. Issued' = Issued \cup {t} /\ \A s \in Issued : token'[s] = token[s]
  BY <1>4, <1>5, <1>6 DEF Issued
<1>8. UNCHANGED <<clock, issuerVars, revoked, request, deaths, keysRow, revokedRow, clusterVars, acked>>
  BY DEF Login
<1>9. TrustStates'
  BY <1>1, <1>5, <1>8 DEF TrustStates, issuerVars, clusterVars
<1>10. \A s \in Issued' : token'[s].kid \in 1..lastKid /\ token'[s].exp = token'[s].iat + TokenLife
                          /\ token'[s].iat <= clock
  <2>1. token'[t].kid \in 1..lastKid /\ token'[t].exp = token'[t].iat + TokenLife /\ token'[t].iat <= clock
    BY <1>1, <1>2, <1>3, <1>5 DEF TrustStates
  <2> QED
    BY <1>1, <1>7, <2>1 DEF OnlyIssued
<1>11. OnlyIssued'
  BY <1>1, <1>7, <1>8, <1>10 DEF OnlyIssued, issuerVars
<1> QED
  BY <1>2, <1>3, <1>5, <1>7, <1>9, <1>11 DEF TrustInv

ListOf(jtis, n) == [jtis |-> jtis, index |-> n]

LEMMA ListMade ==
  ASSUME NEW jtis \in SUBSET Tokens, NEW n \in Nat
  PROVE  ListOf(jtis, n) \in Lists /\ ListOf(jtis, n).jtis = jtis /\ ListOf(jtis, n).index = n
BY DEF ListOf, Lists

\* What a step of a request leaves: a request in order, and a list that was published no earlier.
RequestMoved(r, x) ==
  /\ request' = [request EXCEPT ![r] = x] /\ x.index <= revokedRow'.index
  /\ x.at # "idle" => x.token \in Issued
  /\ revokedRow' \in Lists /\ revokedRow.index <= revokedRow'.index /\ revokedRow'.jtis \subseteq Issued
  /\ revoked' \subseteq Issued /\ acked' \subseteq Issued

\* Revocations: a request is about an issued token and works on a list that was published.
LEMMA RevokeSteps ==
  ASSUME TrustInv, NEW r \in Requests,
         (\E t \in Tokens : RevokeRequest(r, t)) \/ RevokeGet(r) \/ RevokePut(r)
  PROVE  TrustInv'
<1>1. TrustStates /\ OnlyIssued
  BY DEF TrustInv
<1>2. UNCHANGED <<clock, token, kid, lastKid, previous, storedKid, deaths, keysRow, clusterKeys>>
  BY DEF RevokeRequest, RevokeGet, RevokePut, issuerVars, clusterVars
<1>3. PICK q \in Requested : q = request[r]
  BY <1>1 DEF TrustStates
<1>4. revokedRow \in Lists /\ revokedRow.index \in Nat /\ revokedRow.jtis \subseteq Tokens
  BY <1>1 DEF TrustStates, Lists
<1>5. q.index \in Nat /\ q.token \in Revocable
  BY DEF Requested
<1>6. \E x \in Requested : RequestMoved(r, x)
  <2>1. ASSUME NEW t \in Tokens, RevokeRequest(r, t) PROVE \E x \in Requested : RequestMoved(r, x)
    <3>1. PICK x \in Requested : x = CallOf("get", t, 0) /\ x.token = t /\ x.index = 0
      BY CallMade DEF Revocable
    <3>2. request' = [request EXCEPT ![r] = x] /\ UNCHANGED <<revokedRow, acked>> /\ t \in Issued
          /\ revoked' = revoked \cup {t}
      BY <2>1, <3>1 DEF RevokeRequest, CallOf, Verifies
    <3>3. RequestMoved(r, x)
      BY <1>1, <1>4, <3>1, <3>2 DEF OnlyIssued, RequestMoved
    <3> QED
      BY <3>3
  <2>2. CASE RevokeGet(r)
    <3>1. PICK n \in Nat : n = revokedRow.index
      BY <1>4
    <3>2. /\ [q EXCEPT !.at = "put", !.index = n] \in Requested /\ [q EXCEPT !.at = "put", !.index = n].token = q.token
          /\ [q EXCEPT !.at = "put", !.index = n].index = n
      BY DEF Requested
    <3>3. PICK x \in Requested : x = [q EXCEPT !.at = "put", !.index = n] /\ x.token = q.token /\ x.index = n
      BY <3>2
    <3>4. request' = [request EXCEPT ![r] = x] /\ UNCHANGED <<revokedRow, acked, revoked>> /\ q.at = "get"
      BY <1>3, <2>2, <3>1, <3>3 DEF RevokeGet
    <3>5. q.token \in Issued
      BY <1>1, <1>3, <3>4 DEF OnlyIssued
    <3>6. RequestMoved(r, x)
      BY <1>1, <1>4, <3>1, <3>3, <3>4, <3>5 DEF OnlyIssued, RequestMoved
    <3> QED
      BY <3>6
  <2>3. CASE RevokePut(r)
    <3>1. request' = [request EXCEPT ![r] = Idle] /\ revoked' = revoked /\ q.at = "put"
      BY <1>3, <2>3 DEF RevokePut
    <3>2. RequestMoved(r, Idle)
      <4>1. CASE UNCHANGED <<revokedRow, acked>>
        BY <1>1, <1>4, <3>1, <4>1, IdleCall DEF OnlyIssued, RequestMoved
      <4>2. CASE revokedRow' = ListOf(revoked, revokedRow.index + 1) /\ acked' = acked \cup {q.token}
        <5>1. PICK n \in Nat : n = revokedRow.index + 1 /\ revokedRow.index <= n
          BY <1>4
        <5>2. revoked \subseteq Tokens /\ revoked \subseteq Issued /\ q.token \in Issued /\ acked \subseteq Issued
          BY <1>1, <1>3, <3>1 DEF OnlyIssued, Issued
        <5>3. revokedRow' \in Lists /\ revokedRow'.jtis = revoked /\ revokedRow'.index = n
          BY <4>2, <5>1, <5>2, ListMade
        <5> QED
          BY <3>1, <4>2, <5>1, <5>2, <5>3, IdleCall DEF RequestMoved
      <4> QED
        BY <1>3, <2>3, <4>1, <4>2 DEF RevokePut, ListOf
    <3> QED
      BY <3>2, IdleCall
  <2> QED
    BY <2>1, <2>2, <2>3
<1>7. PICK x \in Requested : RequestMoved(r, x)
  BY <1>6
<1>8. /\ request' \in [Requests -> Requested] /\ request'[r] = x
      /\ \A s \in Requests : s # r => request'[s] = request[s]
  BY <1>1, <1>7 DEF TrustStates, RequestMoved
<1>9. TrustStates'
  BY <1>1, <1>2, <1>7, <1>8 DEF TrustStates, RequestMoved
<1>10. \A s \in Requests : /\ request'[s].index <= revokedRow'.index
                           /\ request'[s].at # "idle" => request'[s].token \in Issued
  <2>1. \A s \in Requests : request[s].index \in Nat /\ request[s].index <= revokedRow.index
    BY <1>1 DEF TrustStates, Requested, OnlyIssued
  <2>2. revokedRow'.index \in Nat /\ revokedRow.index <= revokedRow'.index
    BY <1>7 DEF Lists, RequestMoved
  <2> QED
    BY <1>1, <1>4, <1>7, <1>8, <2>1, <2>2 DEF OnlyIssued, RequestMoved
<1>11. clock <= clock' /\ lastKid <= lastKid'
  BY <1>1, <1>2 DEF TrustStates
<1> QED
  BY <1>2, <1>7, <1>9, <1>10, <1>11, TrustKeeps DEF RequestMoved

\* The list is pruned, or the signer dies and begins again from what is stored.
LEMMA PruneSteps ==
  ASSUME TrustInv, Prune \/ Restart
  PROVE  TrustInv'
<1>1. TrustStates /\ OnlyIssued
  BY DEF TrustInv
<1>2. clock <= clock /\ lastKid <= lastKid
  BY <1>1 DEF TrustStates
<1>3. CASE Prune
  <2>1. /\ UNCHANGED <<clock, token, issuerVars, request, deaths, keysRow, revokedRow, clusterVars, acked>>
        /\ revoked' \subseteq revoked
    BY <1>3 DEF Prune, Pruned
  <2>2. TrustStates'
    BY <1>1, <2>1 DEF TrustStates, issuerVars, clusterVars
  <2> QED
    BY <1>1, <1>2, <2>1, <2>2, TrustKeeps DEF OnlyIssued, issuerVars
<1>4. CASE Restart
  <2>1. /\ UNCHANGED <<clock, token, lastKid, storedKid, revokedRow, clusterVars, acked>>
        /\ deaths' = deaths + 1 /\ kid' = storedKid /\ previous' = {} /\ keysRow' = Keyset(storedKid, {})
        /\ revoked' = revokedRow.jtis /\ request' = [q \in Requests |-> Idle]
    BY <1>4 DEF Restart
  <2>2. storedKid \in Nat /\ revokedRow.index \in Nat
    BY <1>1 DEF TrustStates, Lists
  <2>3. keysRow' \subseteq Keys
    BY <2>1, <2>2, KeysetIs, KeyMade
  <2>4. TrustStates'
    BY <1>1, <2>1, <2>3, IdleCall DEF TrustStates, clusterVars
  <2> QED
    BY <1>1, <1>2, <2>1, <2>2, <2>4, IdleCall, TrustKeeps DEF OnlyIssued
<1> QED
  BY <1>3, <1>4

\* Every step of tokens and revocations keeps the invariant.
LEMMA TrustStep == TrustInv /\ [TrustNext]_trustVars => TrustInv'
<1> SUFFICES ASSUME TrustInv, [TrustNext]_trustVars PROVE TrustInv'
  OBVIOUS
<1>1. CASE TrustNext
  BY <1>1, KeySteps, LoginStep, RevokeSteps, PruneSteps DEF TrustNext
<1>2. CASE UNCHANGED trustVars
  BY <1>2 DEF trustVars, issuerVars, clusterVars, TrustInv, TrustStates, OnlyIssued, Issued
<1> QED
  BY <1>1, <1>2

LEMMA TrustInductive == TrustSpec => []TrustInv
BY TrustBegins, TrustStep, PTL DEF TrustSpec

\* Tokens, keys and lists stay within their types; only issued tokens are revoked (RevocationList, /revoke).
THEOREM TrustTypeCorrect == TrustSpec => []TrustTypeOK
<1>1. TrustInv => TrustTypeOK
  BY DEF TrustInv, TrustStates, OnlyIssued, TrustTypeOK, Requested
<1> QED
  BY <1>1, TrustInductive, PTL

-----------------------------------------------------------------------------
\* A token's key is trusted for as long as the token runs.

\* No token of k runs any more, and none will be issued.
Over(k) == k # kid /\ \A t \in Issued : token[t].kid = k => token[t].exp < clock
\* The key retires only after the tokens it has signed, and signs no more.
Honours(e) == e.until = 0 \/ (e.kid # kid /\ \A t \in Issued : token[t].kid = e.kid => token[t].exp < e.until)
In(k, keys) == \E e \in keys : e.kid = k

\* Of the keys whose retirement no restart forgot: all entries keep what they promise; the
\* issuer, and the row from which the clusters copy, hold every key that still has tokens.
KeysInv ==
  /\ \A e \in previous \cup keysRow \cup clusterKeys :
       e.kid \in 1..lastKid /\ (e.kid \notin forgotten => Honours(e))
  /\ \A e \in previous : e.until # 0
  /\ \A k \in (1..lastKid) \ forgotten : k = kid \/ In(k, previous) \/ Over(k)
  /\ \A k \in (1..lastKid) \ forgotten : In(k, clusterKeys) => In(k, keysRow) \/ Over(k)

LEMMA KeysBegin == TrustInit => KeysInv
<1> SUFFICES ASSUME TrustInit PROVE KeysInv
  OBVIOUS
<1>1. kid = 1 /\ lastKid = 1 /\ previous = {} /\ clusterKeys = {} /\ keysRow = {KeyOf(1, 0)}
  BY KeysetIs DEF TrustInit
<1>2. KeyOf(1, 0).kid = 1 /\ KeyOf(1, 0).until = 0
  BY KeyMade
<1> QED
  BY <1>1, <1>2 DEF KeysInv, Honours, In

\* What the steps have in common: nothing is forgotten that was forgotten, keys are drawn upwards,
\* and a key that is over stays over until it is forgotten.
LEMMA KeysLast ==
  ASSUME TrustInv, TrustInv', KeysInv, UNCHANGED token, clock <= clock', lastKid <= lastKid',
         forgotten \subseteq forgotten',
         \A k \in (1..lastKid) \ forgotten' : kid' = k => kid = k
  PROVE  /\ \A k \in (1..lastKid) \ forgotten' : Over(k) => Over(k)'
         /\ \A e \in previous \cup keysRow \cup clusterKeys :
              e.kid \in 1..lastKid' /\ (e.kid \notin forgotten' => Honours(e)')
         /\ \A k \in (1..lastKid) \ forgotten' : k \notin forgotten
<1>1. Issued' = Issued /\ token' = token
  BY DEF Issued
<1>2. TrustStates /\ TrustStates'
  BY DEF TrustInv
<1>3. clock \in Nat /\ clock' \in Nat /\ lastKid \in Nat /\ lastKid' \in Nat
      /\ \A t \in Issued : token[t].exp \in Nat
  BY <1>2 DEF TrustStates, IssuedTokens, Issued
<1>4. \A k \in (1..lastKid) \ forgotten' : Over(k) => Over(k)'
  BY <1>1, <1>3 DEF Over
<1>5. \A e \in previous \cup keysRow \cup clusterKeys : e.kid \in 1..lastKid /\ (e.kid \notin forgotten => Honours(e))
  BY DEF KeysInv
<1>6. \A e : e.kid \in 1..lastKid /\ e.kid \notin forgotten' /\ Honours(e) => Honours(e)'
  BY <1>1 DEF Honours
<1> QED
  BY <1>3, <1>4, <1>5, <1>6

\* A login: the token is of the current key, which does not retire.
LEMMA KeysLogin ==
  ASSUME TrustInv, KeysInv, NEW t \in Tokens, Login(t)
  PROVE  KeysInv'
<1>1. /\ Issued' = Issued \cup {t} /\ token'[t].kid = kid /\ \A s \in Issued : token'[s] = token[s]
      /\ UNCHANGED <<clock, kid, lastKid, previous, keysRow, clusterKeys, forgotten>>
  BY LoginStep DEF Login, issuerVars, clusterVars
<1>2. \A k : Over(k) => Over(k)'
  BY <1>1 DEF Over
<1>3. \A e : Honours(e) => Honours(e)'
  BY <1>1 DEF Honours
<1> QED
  BY <1>1, <1>2, <1>3 DEF KeysInv, In

\* A rotation: the old key retires after the last token it signed.
LEMMA KeysRotate ==
  ASSUME TokenLife < Overlap, TrustInv, TrustInv', KeysInv, Rotate
  PROVE  KeysInv'
<1>1. /\ UNCHANGED <<clock, token, keysRow, clusterKeys, forgotten>> /\ lastKid' = lastKid + 1 /\ kid' = lastKid + 1
      /\ previous' = {e \in previous \cup {KeyOf(kid, clock + Overlap)} : e.until > clock}
  BY DEF Rotate, Retiring, clusterVars, KeyOf
<1>2. /\ clock \in Nat /\ lastKid \in Nat /\ kid \in 1..lastKid /\ kid \in Nat /\ Overlap \in Nat /\ TokenLife \in Nat
      /\ clock + Overlap \in Nat /\ clock < clock + Overlap
  BY TrustAssumption DEF TrustInv, TrustStates
<1>3. \A t \in Issued : token[t].exp \in Nat /\ token[t].exp < clock + Overlap
  <2>1. \A t \in Issued : token[t] \in IssuedTokens /\ token[t].exp = token[t].iat + TokenLife /\ token[t].iat <= clock
    BY DEF TrustInv, TrustStates, OnlyIssued, Issued
  <2> QED
    BY <1>2, <2>1 DEF IssuedTokens
<1>4. PICK old \in Keys : old = KeyOf(kid, clock + Overlap) /\ old.kid = kid /\ old.until = clock + Overlap
  BY <1>2, KeyMade
<1>5. Honours(old)'
  <2>1. Issued' = Issued
    BY <1>1 DEF Issued
  <2> QED
    BY <1>1, <1>2, <1>3, <1>4, <2>1 DEF Honours
<1>6. /\ \A k \in (1..lastKid) \ forgotten : Over(k) => Over(k)'
      /\ \A e \in previous \cup keysRow \cup clusterKeys :
           e.kid \in 1..lastKid' /\ (e.kid \notin forgotten => Honours(e)')
  <2>1. clock <= clock' /\ lastKid <= lastKid' /\ \A k \in 1..lastKid : kid' # k
    BY <1>1, <1>2
  <2> QED
    BY <1>1, <2>1, KeysLast
<1>7. \A e \in previous' \cup keysRow' \cup clusterKeys' :
        e.kid \in 1..lastKid' /\ (e.kid \notin forgotten' => Honours(e)')
  <2>1. \A e \in previous' \cup keysRow' \cup clusterKeys' : e = old \/ e \in previous \cup keysRow \cup clusterKeys
    BY <1>1, <1>4
  <2>2. old.kid \in 1..lastKid'
    BY <1>1, <1>2, <1>4
  <2> QED
    BY <1>1, <1>5, <1>6, <2>1, <2>2
<1>8. \A e \in previous' : e.until # 0
  BY <1>1, <1>2
<1>9. \A k \in (1..lastKid') \ forgotten' : k = kid' \/ k \in 1..lastKid
  BY <1>1, <1>2
<1>10. \A k \in (1..lastKid) \ forgotten : In(k, previous') \/ Over(k)'
  <2> TAKE k \in (1..lastKid) \ forgotten
  <2>1. CASE k = kid
    <3>1. old \in previous'
      BY <1>1, <1>2, <1>4
    <3> QED
      BY <1>4, <2>1, <3>1 DEF In
  <2>2. CASE In(k, previous)
    <3>1. PICK e \in previous : e.kid = k
      BY <2>2 DEF In
    <3>2. e.until \in Nat /\ Honours(e) /\ e.until # 0
      BY <3>1 DEF KeysInv, TrustInv, TrustStates, Keys
    <3>3. CASE e.until > clock
      BY <1>1, <3>1, <3>3 DEF In
    <3>4. CASE e.until <= clock
      <4>1. Over(k)
        BY <1>2, <1>3, <3>1, <3>2, <3>4 DEF Honours, Over
      <4> QED
        BY <1>6, <4>1
    <3> QED
      BY <1>2, <3>2, <3>3, <3>4
  <2>3. CASE Over(k)
    BY <1>6, <2>3
  <2> QED
    BY <2>1, <2>2, <2>3 DEF KeysInv
<1>11. ~In(kid', clusterKeys)
  <2>1. \A e \in clusterKeys : e.kid \in 1..lastKid
    BY DEF KeysInv
  <2> QED
    BY <1>1, <1>2, <2>1 DEF In
<1>12. \A k \in (1..lastKid) \ forgotten : In(k, clusterKeys) => In(k, keysRow) \/ Over(k)'
  BY <1>6 DEF KeysInv
<1>13. /\ \A k \in (1..lastKid') \ forgotten' : k = kid' \/ In(k, previous)' \/ Over(k)'
       /\ \A k \in (1..lastKid') \ forgotten' : In(k, clusterKeys)' => In(k, keysRow)' \/ Over(k)'
  BY <1>1, <1>9, <1>10, <1>11, <1>12 DEF In
<1> QED
  BY <1>7, <1>8, <1>13 DEF KeysInv

\* A restart forgets all keys but the stored one, unless it is the current one that is stored.
LEMMA KeysRestart ==
  ASSUME TrustInv, TrustInv', KeysInv, Restart
  PROVE  KeysInv'
<1>1. /\ UNCHANGED <<clock, token, lastKid, clusterKeys>> /\ kid' = storedKid /\ previous' = {}
      /\ keysRow' = {KeyOf(storedKid, 0)}
      /\ forgotten' = forgotten \cup {k \in 1..lastKid : storedKid # k \/ storedKid # kid}
  BY KeysetIs DEF Restart, clusterVars
<1>2. storedKid \in 1..lastKid /\ lastKid \in Nat /\ clock \in Nat
  BY DEF TrustInv, TrustStates
<1>3. KeyOf(storedKid, 0).kid = storedKid /\ KeyOf(storedKid, 0).until = 0
  BY <1>2, KeyMade
<1>4. \A k \in (1..lastKid) \ forgotten' : k = storedKid /\ storedKid = kid
  BY <1>1
<1>5. \A e \in clusterKeys : e.kid \in 1..lastKid' /\ (e.kid \notin forgotten' => Honours(e)')
  BY <1>1, <1>2, <1>4, KeysLast
<1>6. \A e \in keysRow' : e.kid \in 1..lastKid' /\ Honours(e)'
  BY <1>1, <1>2, <1>3 DEF Honours
<1>7. In(storedKid, keysRow')
  BY <1>1, <1>3 DEF In
<1> QED
  BY <1>1, <1>4, <1>5, <1>6, <1>7 DEF KeysInv, In

\* The other steps: time passes, the key set is published and copied.
LEMMA KeysOther ==
  ASSUME TrustInv, TrustInv', KeysInv, UNCHANGED <<token, kid, lastKid, previous, forgotten>>, clock <= clock',
         keysRow' = keysRow \/ keysRow' = Keyset(kid, previous),
         clusterKeys' = clusterKeys \/ (clusterKeys' = keysRow /\ keysRow' = keysRow)
  PROVE  KeysInv'
<1>1. lastKid \in Nat /\ kid \in 1..lastKid /\ kid \in Nat
  BY DEF TrustInv, TrustStates
<1>2. /\ \A k \in (1..lastKid) \ forgotten : Over(k) => Over(k)'
      /\ \A e \in previous \cup keysRow \cup clusterKeys :
           e.kid \in 1..lastKid' /\ (e.kid \notin forgotten' => Honours(e)')
  BY <1>1, KeysLast
<1>3. KeyOf(kid, 0).kid = kid /\ KeyOf(kid, 0).until = 0
  BY <1>1, KeyMade
<1>4. keysRow' = keysRow \/ keysRow' = {KeyOf(kid, 0)} \cup previous
  BY KeysetIs
<1>5. Honours(KeyOf(kid, 0))' /\ KeyOf(kid, 0).kid \in 1..lastKid'
  BY <1>1, <1>3 DEF Honours
<1>6. \A e \in previous' \cup keysRow' \cup clusterKeys' :
        e.kid \in 1..lastKid' /\ (e.kid \notin forgotten' => Honours(e)')
  <2>1. \A e \in previous' \cup keysRow' \cup clusterKeys' :
          e = KeyOf(kid, 0) \/ e \in previous \cup keysRow \cup clusterKeys
    BY <1>4
  <2> QED
    BY <1>2, <1>5, <2>1
<1>7. \A k \in (1..lastKid) \ forgotten : k = kid \/ In(k, previous) \/ Over(k)'
  BY <1>2 DEF KeysInv
<1>8. \A k \in (1..lastKid) \ forgotten : In(k, clusterKeys') => In(k, keysRow') \/ Over(k)'
  <2>1. CASE keysRow' = keysRow
    BY <1>2, <2>1 DEF KeysInv
  <2>2. CASE keysRow' = {KeyOf(kid, 0)} \cup previous
    BY <1>3, <1>7, <2>2 DEF In
  <2> QED
    BY <1>4, <2>1, <2>2
<1> QED
  BY <1>6, <1>7, <1>8 DEF KeysInv, In

\* Revocations do not touch the keys, and time stands still.
LEMMA RevocationsLeaveKeys ==
  ASSUME Prune \/ \E r \in Requests : (\E t \in Tokens : RevokeRequest(r, t)) \/ RevokeGet(r) \/ RevokePut(r)
  PROVE  UNCHANGED <<clock, token, issuerVars, keysRow, clusterKeys, forgotten>>
<1>1. CASE Prune
  BY <1>1 DEF Prune, clusterVars
<1>2. ASSUME NEW r \in Requests, NEW t \in Tokens, RevokeRequest(r, t)
      PROVE  UNCHANGED <<clock, token, issuerVars, keysRow, clusterKeys, forgotten>>
  BY <1>2 DEF RevokeRequest, clusterVars
<1>3. ASSUME NEW r \in Requests, RevokeGet(r)
      PROVE  UNCHANGED <<clock, token, issuerVars, keysRow, clusterKeys, forgotten>>
  BY <1>3 DEF RevokeGet, clusterVars
<1>4. ASSUME NEW r \in Requests, RevokePut(r)
      PROVE  UNCHANGED <<clock, token, issuerVars, keysRow, clusterKeys, forgotten>>
  BY <1>4 DEF RevokePut, clusterVars
<1> QED
  BY <1>1, <1>2, <1>3, <1>4

\* Every step keeps the promise of the keys, when the overlap is longer than a token's life.
LEMMA KeysStep ==
  ASSUME TokenLife < Overlap, TrustInv, TrustInv', KeysInv, [TrustNext]_trustVars
  PROVE  KeysInv'
<1>1. clock \in Nat
  BY DEF TrustInv, TrustStates
<1>2. CASE \E t \in Tokens : Login(t)
  BY <1>2, KeysLogin
<1>3. CASE Rotate
  BY <1>3, KeysRotate
<1>4. CASE Restart
  BY <1>4, KeysRestart
<1>5. CASE Tick
  BY <1>1, <1>5, KeysOther DEF Tick, issuerVars, clusterVars
<1>6. CASE PublishKeys \/ SyncKeys \/ SyncRevoked
  BY <1>1, <1>6, KeysOther DEF PublishKeys, SyncKeys, SyncRevoked, issuerVars, clusterVars
<1>7. CASE Prune \/ \E r \in Requests : (\E t \in Tokens : RevokeRequest(r, t)) \/ RevokeGet(r) \/ RevokePut(r)
  BY <1>1, <1>7, RevocationsLeaveKeys, KeysOther DEF issuerVars, clusterVars
<1>8. CASE UNCHANGED trustVars
  BY <1>1, <1>8, KeysOther DEF trustVars, issuerVars, clusterVars
<1> QED
  BY <1>2, <1>3, <1>4, <1>5, <1>6, <1>7, <1>8 DEF TrustNext

\* A token that the cluster's key set verifies goes on being verified until it expires, whatever is
\* rotated, published, copied or restarted, if its key's retirement is not one a restart forgot
\* (TokenIssuer.rotate, KeySet.usable, DomainAgent.sync). The overlap, an argument of rotate, must be
\* longer than a token's life: the key is not usable at its retirement, the token is at its expiry.
THEOREM TokensRunOut ==
  ASSUME TokenLife < Overlap
  PROVE  TrustSpec => TokenRunsToItsExpiry
<1>1. ASSUME TrustInv, TrustInv', KeysInv, KeysInv', [TrustNext]_trustVars, NEW t \in Issued,
             Usable(clusterKeys, token[t].kid, clock), token[t].kid \notin forgotten', clock' <= token[t].exp
      PROVE  Usable(clusterKeys', token[t].kid, clock')
  <2>1. clock \in Nat /\ clock' \in Nat /\ token[t].exp \in Nat /\ token[t].kid \in 1..lastKid
    BY <1>1 DEF TrustInv, TrustStates, OnlyIssued, IssuedTokens, Issued
  <2>2. /\ clock <= clock' /\ forgotten \subseteq forgotten'
        /\ clusterKeys' = clusterKeys \/ clusterKeys' = keysRow
        /\ t \in Issued' /\ token'[t] = token[t]
    <3>1. CASE \E s \in Tokens : Login(s)
      <4>1. PICK s \in Tokens : Login(s)
        BY <3>1
      <4>2. t \in Issued' /\ token'[t] = token[t]
        BY <1>1, <4>1, LoginStep
      <4> QED
        BY <2>1, <4>1, <4>2 DEF Login, clusterVars
    <3>2. CASE Tick \/ Rotate \/ Restart \/ PublishKeys \/ SyncKeys \/ SyncRevoked
      BY <1>1, <2>1, <3>2 DEF Tick, Rotate, Restart, PublishKeys, SyncKeys, SyncRevoked, issuerVars, clusterVars, Issued
    <3>3. CASE Prune \/ \E r \in Requests : (\E s \in Tokens : RevokeRequest(r, s)) \/ RevokeGet(r) \/ RevokePut(r)
      BY <1>1, <2>1, <3>3, RevocationsLeaveKeys DEF issuerVars, clusterVars, Issued
    <3>4. CASE UNCHANGED trustVars
      BY <1>1, <2>1, <3>4 DEF trustVars, issuerVars, clusterVars, Issued
    <3> QED
      BY <1>1, <3>1, <3>2, <3>3, <3>4 DEF TrustNext
  <2>3. In(token[t].kid, clusterKeys)
    BY <1>1 DEF Usable, In
  <2>4. ~Over(token[t].kid)
    BY <1>1, <2>1, <2>2 DEF Over
  <2>5. In(token[t].kid, clusterKeys')
    BY <1>1, <2>1, <2>2, <2>3, <2>4 DEF KeysInv
  <2>6. PICK e \in clusterKeys' : e.kid = token[t].kid
    BY <2>5 DEF In
  <2>7. e.until \in Nat /\ Honours(e)'
    BY <1>1, <2>6 DEF KeysInv, TrustInv, TrustStates, Keys
  <2>8. e.until = 0 \/ token[t].exp < e.until
    BY <2>2, <2>6, <2>7 DEF Honours
  <2> QED
    BY <1>1, <2>1, <2>6, <2>7, <2>8 DEF Usable
<1>2. TrustInv /\ TrustInv' /\ KeysInv /\ KeysInv' /\ [TrustNext]_trustVars
      => [\A t \in Issued : (/\ Usable(clusterKeys, token[t].kid, clock) /\ token[t].kid \notin forgotten'
                             /\ clock' <= token[t].exp)
                            => Usable(clusterKeys', token[t].kid, clock')]_trustVars
  BY <1>1
<1>3. TrustInv /\ TrustInv' /\ KeysInv /\ [TrustNext]_trustVars => KeysInv'
  BY KeysStep
<1> QED
  BY <1>2, <1>3, KeysBegin, TrustInductive, PTL DEF TrustSpec, TokenRunsToItsExpiry

-----------------------------------------------------------------------------
\* The parts together: the run's specification takes steps of one part at a time.

LEMMA SitesSteps ==
  ASSUME [SitesNext]_sitesVars
  PROVE  /\ [SpoolNext]_spoolVars /\ [RecorderNext]_recorderVars /\ [TrustNext]_trustVars
         /\ [EnrollNext]_enrollVars /\ [IdentityNext]_identityVars
         /\ [PlaceNext]_placeVars /\ [GatewayNext]_gatewayVars
<1>1. CASE EdgeNext /\ UNCHANGED domainVars
  BY <1>1 DEF EdgeNext, domainVars
<1>2. CASE DomainNext /\ UNCHANGED edgeVars
  BY <1>2 DEF DomainNext, edgeVars, PlaceNext
<1>3. CASE UNCHANGED sitesVars
  BY <1>3 DEF sitesVars, edgeVars, domainVars
<1> QED
  BY <1>1, <1>2, <1>3 DEF SitesNext

\* A behaviour of the whole is one of every part.
LEMMA SitesParts ==
  SitesSpec => /\ SpoolSpec /\ RecorderSpec /\ TrustSpec /\ EnrollSpec
               /\ IdentitySpec /\ PlaceSpec /\ GatewaySpec
<1>1. SitesInit => /\ SpoolInit /\ RecorderInit /\ TrustInit /\ EnrollInit
                   /\ IdentityInit /\ PlaceInit /\ GatewayInit
  BY DEF SitesInit
<1>2. [SitesNext]_sitesVars => /\ [SpoolNext]_spoolVars /\ [RecorderNext]_recorderVars /\ [TrustNext]_trustVars
                              /\ [EnrollNext]_enrollVars /\ [IdentityNext]_identityVars
                              /\ [PlaceNext]_placeVars /\ [GatewayNext]_gatewayVars
  BY SitesSteps
<1>3. SitesSpec => SitesInit /\ [][SitesNext]_sitesVars
  BY DEF SitesSpec
<1> QED
  BY <1>1, <1>2, <1>3, PTL DEF SpoolSpec, RecorderSpec, TrustSpec, EnrollSpec, IdentitySpec, PlaceSpec, GatewaySpec

\* The types of the edge and of the domain, under the specification the run checks.
THEOREM SitesTypeCorrect == SitesSpec => []SitesTypeOK
<1>1. SpoolTypeOK /\ RecorderTypeOK /\ TrustTypeOK /\ EnrollTypeOK /\ IdentityTypeOK /\ PlaceTypeOK /\ GatewayTypeOK
      => SitesTypeOK
  BY DEF SitesTypeOK
<1> QED
  BY <1>1, SitesParts, SpoolTypeCorrect, RecorderTypeCorrect, TrustTypeCorrect, EnrollTypeCorrect,
     IdentityTypeCorrect, PlaceTypeCorrect, GatewayTypeCorrect, PTL

\* Under the specification the run checks, every safety property of the edge and of the domain: the
\* archive has no holes, a shutdown reaches the child, a valid certificate is trusted, a restored set is
\* newer, a camera is placed once, a viewer is fed, a token runs to its expiry. The two hypotheses are
\* about durations that the operator passes to rotate_root and rotate.
THEOREM SitesKeepTheirPromises ==
  ASSUME LeafLife < RootOverlap, TokenLife < Overlap
  PROVE  SitesSpec => /\ [](/\ ArchiveIsContiguous /\ ShutdownStopsChild /\ NeverDark
                            /\ RestoredSetIsFresh /\ PlacedOnce /\ ViewerIsFed)
                      /\ TokenRunsToItsExpiry
<1>1. EnrollSpec => []NeverDark
  BY NothingGoesDark
<1>2. TrustSpec => TokenRunsToItsExpiry
  BY TokensRunOut
<1> QED
  BY <1>1, <1>2, SitesParts, ArchiveHasNoHoles, ShutdownReachesChild, RestoredIsFresh,
     CamerasArePlacedOnce, ViewersAreFed, PTL
=============================================================================
