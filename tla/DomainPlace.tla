---------------------------- MODULE DomainPlace ----------------------------
(***************************************************************************)
(* Where the domain puts a camera and what it shows (domain/placement.py,  *)
(* readview.py, federation.py). Placers are threads or processes that were *)
(* asked to place the same cameras; each row is written by check-and-set.  *)
(* The read view goes through the clusters one after the other, in their   *)
(* order 1..N, and keeps the last snapshot of each.                        *)
(*                                                                         *)
(* The link to a cluster is up or down. Down, its Variables raise what     *)
(* urllib raises (cluster/variables.py), never Unreachable, which only the *)
(* tests' fakes know; so the failure leaves the pass, and the console's    *)
(* loop starts another one later. A heartbeat is its number.               *)
(***************************************************************************)
EXTENDS Integers, FiniteSets

CONSTANTS NClusters, Cameras, Placers,
          Reaches,            \* camera -> the clusters that see its network
          Retries,            \* attempts of _store
          MaxFlaps, MaxBeats

Regions == 1..NClusters
ASSUME PlaceAssumption ==
  /\ {NClusters, Retries} \subseteq Nat \ {0} /\ {MaxFlaps, MaxBeats} \subseteq Nat
  /\ Reaches \in [Cameras -> SUBSET Regions]

VARIABLES linked, flaps,                      \* which clusters answer
          placement, counter, placer, told,   \* domain/placement[/<camera>]; the calls; what they returned
          beat, snapshot, downSince, pass     \* heartbeats; the read view and where its pass is
viewVars == <<beat, snapshot, downSince, pass>>
placerVars == <<placement, counter, placer, told>>
placeVars == <<linked, flaps, viewVars, placerVars>>

Unplaced == [cluster |-> 0, rev |-> 0]
Resting == [at |-> "idle", camera |-> CHOOSE c \in Cameras : TRUE, cluster |-> 0, rev |-> 0, seen |-> 0, tries |-> 0]
Waiting == 0

PlaceInit ==
  /\ linked = Regions /\ flaps = 0
  /\ placement = [c \in Cameras |-> Unplaced] /\ counter = 0
  /\ placer = [p \in Placers |-> Resting] /\ told = {}
  /\ beat = [r \in Regions |-> 0] /\ snapshot = [r \in Regions |-> 0]
  /\ downSince = {} /\ pass = Waiting

LinkChanges(r) ==
  /\ flaps < MaxFlaps /\ flaps' = flaps + 1
  /\ linked' = IF r \in linked THEN linked \ {r} ELSE linked \cup {r}
  /\ UNCHANGED <<placerVars, viewVars>>

-----------------------------------------------------------------------------
\* As a bug: a cluster that does not see the camera's network is taken too.
CandidatesAnywhere(c, dead) == Regions \ dead
\* place. The caller says which clusters do not answer. What is placed already is returned untouched.
Candidates(c, dead) == Reaches[c] \ dead
AskPlace(p, c) ==
  /\ placer[p].at = "idle"
  /\ IF placement[c] # Unplaced
     THEN told' = told \cup {[camera |-> c, by |-> placement[c]]} /\ UNCHANGED placer
     ELSE /\ UNCHANGED told
          /\ \E dead \in SUBSET Regions : \E best \in Candidates(c, dead) :      \* most headroom: any of them
               placer' = [placer EXCEPT ![p] = [Resting EXCEPT !.at = "reread", !.camera = c, !.cluster = best]]
  /\ UNCHANGED <<linked, flaps, placement, counter, viewVars>>

\* _store: the row is read again, the counter is raised, the row is put.
Reread(p) ==
  LET c == placer[p].camera IN
  /\ placer[p].at = "reread"
  /\ IF placement[c] # Unplaced
     THEN told' = told \cup {[camera |-> c, by |-> placement[c]]} /\ placer' = [placer EXCEPT ![p] = Resting]
     ELSE placer' = [placer EXCEPT ![p].at = "count", ![p].tries = @ + 1] /\ UNCHANGED told
  /\ UNCHANGED <<linked, flaps, placement, counter, viewVars>>

\* _rev: read, raise, put by check-and-set, again after a conflict.
ReadCounter(p) ==
  /\ placer[p].at = "count"
  /\ placer' = [placer EXCEPT ![p].at = "raise", ![p].seen = counter]
  /\ UNCHANGED <<linked, flaps, placement, counter, told, viewVars>>
\* As a bug: the counter is put without its index.
RaisedAnyway(p) == placer[p].seen <= counter
Raised(p) == placer[p].seen = counter
RaiseCounter(p) ==
  /\ placer[p].at = "raise"
  /\ IF Raised(p) THEN /\ counter' = placer[p].seen + 1
                       /\ placer' = [placer EXCEPT ![p].at = "put", ![p].rev = placer[p].seen + 1]
     ELSE placer' = [placer EXCEPT ![p].at = "count"] /\ UNCHANGED counter
  /\ UNCHANGED <<linked, flaps, placement, told, viewVars>>

\* The row was absent when it was read, so the put is refused when it is there now.
PutPlacement(p) ==
  LET c == placer[p].camera  new == [cluster |-> placer[p].cluster, rev |-> placer[p].rev] IN
  /\ placer[p].at = "put"
  /\ IF placement[c] = Unplaced
     THEN /\ placement' = [placement EXCEPT ![c] = new]
          /\ told' = told \cup {[camera |-> c, by |-> new]} /\ placer' = [placer EXCEPT ![p] = Resting]
     ELSE /\ placer' = [placer EXCEPT ![p] = IF @.tries < Retries THEN [@ EXCEPT !.at = "reread"] ELSE Resting]
          /\ UNCHANGED <<placement, told>>
  /\ UNCHANGED <<linked, flaps, counter, viewVars>>

-----------------------------------------------------------------------------
Heartbeats(r) ==
  /\ beat[r] < MaxBeats /\ beat' = [beat EXCEPT ![r] = @ + 1]
  /\ UNCHANGED <<linked, flaps, placerVars, snapshot, downSince, pass>>

\* ReadView.refresh, a cluster at a time; its first failure is the end of the pass.
RefreshBegin ==
  /\ pass = Waiting /\ pass' = 1
  /\ UNCHANGED <<linked, flaps, placerVars, beat, snapshot, downSince>>
RefreshNext ==
  /\ pass \in linked
  /\ snapshot' = [snapshot EXCEPT ![pass] = beat[pass]]
  /\ downSince' = downSince \ {pass}
  /\ pass' = IF pass = NClusters THEN Waiting ELSE pass + 1
  /\ UNCHANGED <<linked, flaps, placerVars, beat>>
RefreshFails ==
  /\ pass \in Regions \ linked /\ pass' = Waiting
  /\ UNCHANGED <<linked, flaps, placerVars, beat, snapshot, downSince>>

PlacersNext ==
  \E p \in Placers : \/ \E c \in Cameras : AskPlace(p, c)
                     \/ Reread(p) \/ ReadCounter(p) \/ RaiseCounter(p) \/ PutPlacement(p)
ViewNext ==
  \/ \E r \in Regions : LinkChanges(r) \/ Heartbeats(r)
  \/ RefreshBegin \/ RefreshNext \/ RefreshFails
PlaceNext == PlacersNext \/ ViewNext

-----------------------------------------------------------------------------
PlaceTypeOK ==
  /\ linked \subseteq Regions /\ downSince \subseteq Regions /\ pass \in 0..NClusters /\ counter \in Nat
  /\ \A c \in Cameras : placement[c] = Unplaced \/ placement[c].cluster \in Reaches[c]
  /\ \A p \in Placers : placer[p].tries <= Retries /\ placer[p].at \in {"idle", "reread", "count", "raise", "put"}
  /\ \A r \in Regions : snapshot[r] <= beat[r]

(* However many placers are asked at once, each of them is told the placement that is stored, a        *)
(* camera's never changes, and no two cameras were placed under one revision (ClusterPlacer.place,     *)
(* _store, _rev).                                                                                      *)
PlacedOnce ==
  /\ \A a \in told : a.by = placement[a.camera]
  /\ \A c, d \in Cameras : placement[c].rev = placement[d].rev /\ placement[c] # Unplaced => c = d
=============================================================================
