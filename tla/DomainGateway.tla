--------------------------- MODULE DomainGateway ---------------------------
(***************************************************************************)
(* The live gateway and one camera (domain/gateway.py). The gateway keeps  *)
(* one subscription to the tee of the Node that holds the camera and fans  *)
(* out to its viewers. The directory and the Nodes move on by themselves;  *)
(* a call of the gateway runs to its end before the next.                  *)
(*                                                                         *)
(* A tee is a life, drawn when a pipeline starts, and who has subscribed   *)
(* to it. Frames and the queues that leak them are left out.               *)
(***************************************************************************)
EXTENDS Integers, FiniteSets

CONSTANTS Nodes, Viewers, MaxLivesOfTees

Nowhere == "nowhere"
ASSUME GatewayAssumption == MaxLivesOfTees \in Nat /\ Nowhere \notin Nodes

VARIABLES tee,                   \* Node -> [life, subscribed]; life 0: no such tee
          teeLives, where,       \* lives drawn; what the directory says, or Nowhere
          upstream, up,          \* the gateway's upstream and whether it has one
          watching, orphaned     \* history: viewers that have a queue; those a later watch() left behind
gatewayVars == <<tee, teeLives, where, upstream, up, watching, orphaned>>

Gone == [life |-> 0, subscribed |-> FALSE]
NoUpstream == [node |-> Nowhere, life |-> 0, viewers |-> {}]

GatewayInit ==
  /\ tee = [n \in Nodes |-> Gone] /\ teeLives = 0 /\ where = Nowhere
  /\ upstream = NoUpstream /\ up = FALSE /\ watching = {} /\ orphaned = {}

\* A pipeline starts on a Node, as a failover or again in place; one ends, or its Node dies.
TeeStarts(n) ==
  /\ teeLives < MaxLivesOfTees /\ teeLives' = teeLives + 1
  /\ tee' = [tee EXCEPT ![n] = [life |-> teeLives + 1, subscribed |-> FALSE]]
  /\ UNCHANGED <<where, upstream, up, watching, orphaned>>
TeeEnds(n) ==
  /\ tee[n] # Gone /\ tee' = [tee EXCEPT ![n] = Gone]
  /\ UNCHANGED <<teeLives, where, upstream, up, watching, orphaned>>
DirectoryMoves ==
  /\ where' \in (Nodes \cup {Nowhere}) \ {where}
  /\ UNCHANGED <<tee, teeLives, upstream, up, watching, orphaned>>

\* NodeLiveEndpoint.open: the Node's own check, then the tee. subscribe() gives a second caller of one name
\* the queue it has.
Opens(n) == tee[n] # Gone /\ tee' = [tee EXCEPT ![n].subscribed = TRUE]

\* watch: a camera that is nowhere, refused or not on that Node is an error and changes nothing,
\* and so is a token that the Node refuses.
WatchMoved(v) ==
  /\ where # Nowhere /\ (~up \/ upstream.node # where) /\ Opens(where)
  /\ up' = TRUE /\ upstream' = [node |-> where, life |-> tee[where].life, viewers |-> {v}]
  /\ watching' = watching \cup {v}
  /\ orphaned' = (orphaned \cup (upstream.viewers \cap watching)) \ {v}
  /\ UNCHANGED <<teeLives, where>>
WatchSame(v) ==
  /\ up /\ upstream.node = where
  /\ upstream' = [upstream EXCEPT !.viewers = @ \cup {v}]
  /\ watching' = watching \cup {v} /\ orphaned' = orphaned \ {v}
  /\ UNCHANGED <<tee, teeLives, where, up>>

\* leave: the last one ends the subscription. When the tee is gone by then, this fails half way: the
\* upstream stays, with nobody.
Leave(v) ==
  LET left == upstream.viewers \ {v} IN
  /\ v \in watching /\ watching' = watching \ {v} /\ orphaned' = orphaned \ {v}
  /\ IF v \notin upstream.viewers THEN UNCHANGED <<tee, upstream, up>>
     ELSE IF left # {} \/ tee[upstream.node] = Gone
     THEN upstream' = [upstream EXCEPT !.viewers = left] /\ UNCHANGED <<tee, up>>
     ELSE /\ upstream' = NoUpstream /\ up' = FALSE
          /\ tee' = [tee EXCEPT ![upstream.node].subscribed = FALSE]
  /\ UNCHANGED <<teeLives, where>>

\* As a bug: a new upstream, as watch() makes one.
MovedAlone(n) == [node |-> n, life |-> tee[n].life, viewers |-> {}]
\* reconnect: to where the directory says, with the viewers it has. Nowhere is an error.
Moved(n) == [node |-> n, life |-> tee[n].life, viewers |-> upstream.viewers]
Reconnect ==
  /\ up /\ where # Nowhere /\ upstream.node # where /\ Opens(where)
  /\ upstream' = Moved(where)
  /\ UNCHANGED <<teeLives, where, up, watching, orphaned>>

GatewayNext ==
  \/ \E n \in Nodes : TeeStarts(n) \/ TeeEnds(n)
  \/ DirectoryMoves \/ Reconnect
  \/ \E v \in Viewers : WatchMoved(v) \/ WatchSame(v) \/ Leave(v)

-----------------------------------------------------------------------------
GatewayTypeOK ==
  /\ \A n \in Nodes : tee[n].life \in 0..teeLives /\ (tee[n] = Gone => ~tee[n].subscribed)
  /\ up = (upstream # NoUpstream) /\ orphaned \subseteq watching /\ upstream.viewers \subseteq Viewers

(* A viewer that has not left is fed by the one subscription the gateway has, through failovers and     *)
(* reconnections, as long as the tee it was opened on lives, unless somebody's watch() found the camera *)
(* on another Node before reconnect() was called: that makes an upstream without the others             *)
(* (gateway.py:111).                                                                                    *)
ViewerIsFed ==
  \A v \in watching \ orphaned :
    /\ up /\ v \in upstream.viewers
    /\ tee[upstream.node].life = upstream.life => tee[upstream.node].subscribed
=============================================================================
