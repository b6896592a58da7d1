----------------------------- MODULE EventStore -----------------------------
(***************************************************************************)
(* The event buckets of a cluster: the worker that holds a unit's epoch    *)
(* appends to a bucket on its server (events.py); the resource job of each *)
(* server keeps them, mirrors closed ones to its peers and pulls its own   *)
(* back when it starts (resource.py, objects.py); the event index reads    *)
(* them all, from a mirror when a server is silent (eventindex.py).        *)
(*                                                                         *)
(* A bucket is a file <unit>/e<epoch>/<start>, so it has one home: the     *)
(* server of the worker that held the epoch.  Its content is the number of *)
(* its lines.  Servers are numbers, in the order of their names, because   *)
(* the rule that gives a server its peers goes by that order.  The mirror  *)
(* is switched on.  What a heartbeat says of units is left out: a unit's   *)
(* directory is there from its first bucket on.                            *)
(***************************************************************************)
EXTENDS Naturals, FiniteSets

CONSTANTS Servers,     \* 1 .. n
          Buckets,
          Home,        \* the server a bucket is written on
          Copies,      \* the mirror's knob
          MaxEvents,   \* bound: lines of a bucket
          MaxMishaps   \* bound: crashes, lost disks and restarts of the index

VARIABLES
  own,       \* lines of the bucket's file at home, 0 if there is none
  copy,      \* lines of the copy each server holds, 0 if there is none
  closed,    \* buckets whose span has ended: b.end <= wall
  past,      \* buckets past their unit's days
  job,       \* the resource job of each server
  todo,      \* the peers it has still to deal with in restore() or mirror()
  hb,        \* heartbeats in the object store
  rows,      \* the index: events per bucket
  seen,      \* the index: buckets marked as read
  wrote,     \* history: lines ever appended
  mishaps    \* bound

indexVars == <<rows, seen>>
span == <<closed, past, wrote>>
eventVars == <<own, copy, job, todo, hb, indexVars, span, mishaps>>

EventsInit ==
  /\ own = [b \in Buckets |-> 0]
  /\ copy = [s \in Servers |-> own]
  /\ closed = {} /\ past = {}
  /\ job = [s \in Servers |-> "run"]
  /\ todo = [s \in Servers |-> {}]
  /\ hb = [s \in Servers |-> [fresh |-> TRUE, mirrors |-> {}]]
  /\ rows = own /\ seen = {} /\ wrote = own
  /\ mishaps = 0

Mine(s) == {b \in Buckets : Home[b] = s}
Live == {s \in Servers : hb[s].fresh}

\* peers_of: the next Copies live servers after this one, in the order of names.
Distance(s, p) == (p + Cardinality(Servers) - s) % Cardinality(Servers)
PeersOf(s) ==
  {p \in Live \ {s} :
     Cardinality({q \in Live \ {s} : Distance(s, q) < Distance(s, p)}) < Copies}

\* mirrored: what a server holds of another's buckets.
Holds(p, s) == {b \in Mine(s) : copy[p][b] > 0}

-----------------------------------------------------------------------------
\* EventLog.append: one line, flushed, while the bucket's span lasts.
Log(b) ==
  /\ b \notin closed /\ own[b] < MaxEvents
  /\ own' = [own EXCEPT ![b] = @ + 1] /\ wrote' = [wrote EXCEPT ![b] = @ + 1]
  /\ UNCHANGED <<copy, closed, past, job, todo, hb, indexVars, mishaps>>

Close(b) ==
  /\ b \notin closed /\ own[b] > 0
  /\ closed' = closed \cup {b}
  /\ UNCHANGED <<own, copy, job, todo, hb, indexVars, past, wrote, mishaps>>

GrowOld(b) ==
  /\ b \in closed \ past /\ past' = past \cup {b}
  /\ UNCHANGED <<own, copy, job, todo, hb, indexVars, closed, wrote, mishaps>>

-----------------------------------------------------------------------------
\* The resource job.

Beat(s) == hb' = [hb EXCEPT ![s] = [fresh   |-> TRUE,
                                    mirrors |-> {t \in Servers \ {s} : Holds(s, t) # {}}]]

\* resource(): the first heartbeat, and the peers whose heartbeats name this server.
Boot(s) ==
  /\ job[s] = "boot" /\ Beat(s)
  /\ job' = [job EXCEPT ![s] = "restore"]
  /\ todo' = [todo EXCEPT ![s] = {p \in Live \ {s} : s \in hb[p].mirrors}]
  /\ UNCHANGED <<own, copy, indexVars, span, mishaps>>

\* restore: from each of them, whatever is missing here.  No handler around it:
\* a peer that does not answer ends the job.
Restore(s, p) ==
  /\ job[s] = "restore" /\ p \in todo[s]
  /\ IF job[p] = "down"
     THEN /\ job' = [job EXCEPT ![s] = "down"] /\ todo' = [todo EXCEPT ![s] = {}]
          /\ UNCHANGED own
     ELSE /\ own' = [b \in Buckets |-> IF b \in Holds(p, s) /\ own[b] = 0
                                       THEN copy[p][b] ELSE own[b]]
          /\ todo' = [todo EXCEPT ![s] = @ \ {p}]
          /\ UNCHANGED job
  /\ UNCHANGED <<copy, hb, indexVars, span, mishaps>>

Ready(s) ==
  /\ job[s] = "restore" /\ todo[s] = {}
  /\ job' = [job EXCEPT ![s] = "run"]
  /\ UNCHANGED <<own, copy, todo, hb, indexVars, span, mishaps>>

\* The loop's heartbeat, every ten seconds.
Heartbeat(s) ==
  /\ job[s] = "run" /\ Beat(s) /\ hb' # hb
  /\ UNCHANGED <<own, copy, job, todo, indexVars, span, mishaps>>

\* pass_: retain by the unit's days, then the peers to mirror to.
Retain(s) ==
  /\ job[s] = "run"
  /\ own' = [b \in Buckets |-> IF b \in Mine(s) \cap past THEN 0 ELSE own[b]]
  /\ job' = [job EXCEPT ![s] = "mirror"] /\ todo' = [todo EXCEPT ![s] = PeersOf(s)]
  /\ UNCHANGED <<copy, hb, indexVars, span, mishaps>>

\* As a bug: buckets that are still written to are copied too.
ToMirrorOpen(s, p) == {b \in Mine(s) : own[b] > 0 /\ copy[p][b] = 0}
\* What a pass puts on a peer: closed buckets the peer does not hold.
ToMirror(s, p) == {b \in Mine(s) \cap closed : own[b] > 0 /\ copy[p][b] = 0}

\* mirror: to one peer; one that does not answer ends the pass.
Mirror(s, p) ==
  /\ job[s] = "mirror" /\ p \in todo[s]
  /\ IF job[p] = "down"
     THEN todo' = [todo EXCEPT ![s] = {}] /\ UNCHANGED copy
     ELSE /\ copy' = [copy EXCEPT ![p] = [b \in Buckets |-> IF b \in ToMirror(s, p)
                                                            THEN own[b] ELSE @[b]]]
          /\ todo' = [todo EXCEPT ![s] = @ \ {p}]
  /\ UNCHANGED <<own, job, hb, indexVars, span, mishaps>>

PassDone(s) ==
  /\ job[s] = "mirror" /\ todo[s] = {}
  /\ job' = [job EXCEPT ![s] = "run"]
  /\ UNCHANGED <<own, copy, todo, hb, indexVars, span, mishaps>>

\* The server goes away, with its disk or without.  Its workers are restarted
\* elsewhere under new epochs, so nothing is appended to its buckets any more.
Crash(s) ==
  /\ job[s] # "down" /\ mishaps < MaxMishaps
  /\ mishaps' = mishaps + 1
  /\ job' = [job EXCEPT ![s] = "down"] /\ todo' = [todo EXCEPT ![s] = {}]
  /\ closed' = closed \cup Mine(s)
  /\ \/ /\ own' = [b \in Buckets |-> IF b \in Mine(s) THEN 0 ELSE own[b]]
        /\ copy' = [copy EXCEPT ![s] = [b \in Buckets |-> 0]]
     \/ UNCHANGED <<own, copy>>
  /\ UNCHANGED <<hb, indexVars, past, wrote>>

Start(s) ==
  /\ job[s] = "down" /\ job' = [job EXCEPT ![s] = "boot"]
  /\ UNCHANGED <<own, copy, todo, hb, indexVars, span, mishaps>>

\* live_resources: after lost_after seconds a heartbeat no longer counts.  A job
\* that is still at a long restore or pass does not send one either.
Fade(s) ==
  /\ job[s] # "run" /\ hb[s].fresh
  /\ hb' = [hb EXCEPT ![s].fresh = FALSE]
  /\ UNCHANGED <<own, copy, job, todo, indexVars, span, mishaps>>

-----------------------------------------------------------------------------
\* The event index.  A bucket's rows and its mark are one transaction.
Insert(b, n) == /\ rows' = [rows EXCEPT ![b] = @ + n]
                /\ seen' = seen \cup {b}

\* As a bug: the mark is looked up under the server it was read from.
TailTwice(b) ==
  /\ Home[b] \in Live /\ job[Home[b]] # "down"
  /\ own[b] > 0
  /\ Insert(b, own[b])
  /\ UNCHANGED <<own, copy, job, todo, hb, span, mishaps>>

\* tail, a live server that answers: every bucket it lists and the index has not
\* seen -- GET /buckets lists all there are, open ones included.
TailHome(b) ==
  /\ Home[b] \in Live /\ job[Home[b]] # "down"
  /\ own[b] > 0 /\ b \notin seen
  /\ Insert(b, own[b])
  /\ UNCHANGED <<own, copy, job, todo, hb, span, mishaps>>

\* As a bug: a silent server is only named as unreachable.
TailMirrorNever(b, p) == FALSE
\* _from_mirror: a silent server's buckets, from a live peer that says it holds some.
TailMirror(b, p) ==
  /\ Home[b] \notin Live /\ p \in Live /\ Home[b] \in hb[p].mirrors /\ job[p] # "down"
  /\ copy[p][b] > 0 /\ b \notin seen
  /\ Insert(b, copy[p][b])
  /\ UNCHANGED <<own, copy, job, todo, hb, span, mishaps>>

\* A failed-over index rebuilds: from nothing.
Rebuild ==
  /\ mishaps < MaxMishaps /\ mishaps' = mishaps + 1
  /\ rows' = [b \in Buckets |-> 0] /\ seen' = {}
  /\ UNCHANGED <<own, copy, job, todo, hb, span>>

Resource(s) == \/ Boot(s) \/ Ready(s) \/ Heartbeat(s) \/ Fade(s)
               \/ Retain(s) \/ PassDone(s)
               \/ \E p \in Servers : Restore(s, p) \/ Mirror(s, p)
Read(b) == TailHome(b) \/ \E p \in Servers : TailMirror(b, p)
EventsNext ==
  \/ \E b \in Buckets : Log(b) \/ Close(b) \/ GrowOld(b) \/ Read(b)
  \/ \E s \in Servers : Resource(s) \/ Crash(s) \/ Start(s)
  \/ Rebuild

-----------------------------------------------------------------------------
\* The types of buckets, jobs and index.
EventsTypeOK ==
  /\ own \in [Buckets -> Nat] /\ copy \in [Servers -> [Buckets -> Nat]]
  /\ closed \subseteq Buckets /\ past \subseteq closed
  /\ job \in [Servers -> {"down", "boot", "restore", "run", "mirror"}]
  /\ todo \in [Servers -> SUBSET Servers]
  /\ hb \in [Servers -> [fresh : BOOLEAN, mirrors : SUBSET Servers]]
  /\ rows \in [Buckets -> Nat] /\ seen \subseteq Buckets

\* A copy is the whole bucket or none: what a mirror took, what a restore
\* brought home and what is there once the span has ended has every line that
\* was written, whatever crashed in between ("every CLOSED bucket").
ClosedBucketIsWhole ==
  \A b \in Buckets :
    /\ b \in closed => own[b] \in {0, wrote[b]}
    /\ \A s \in Servers : copy[s][b] \in {0, wrote[b]}

\* No event is in the index twice, whether it was read at home, from a mirror
\* or both, before a rebuild and after it.
EachEventIndexedOnce == \A b \in Buckets : rows[b] <= wrote[b]

\* The bucket can be read: at home, or its server is down and a peer that runs
\* has a copy.
Available(b) == \/ own[b] > 0 /\ job[Home[b]] \notin {"down", "boot"}
                \/ job[Home[b]] = "down" /\ \E p \in Servers : copy[p][b] > 0 /\ job[p] # "down"

\* The index catches up: a bucket that stays available is read, from its server
\* or, while that is silent, from a mirror, after any number of restarts.
AvailableIsIndexed ==
  \A b \in Buckets : []<>(Available(b) => b \in seen)

\* "read every subsystem's closed buckets and index them": what was written to a
\* bucket that stays available is all in the index in the end.
EveryEventIsIndexed ==
  \A b \in Buckets : []<>(b \in closed /\ Available(b) => rows[b] = wrote[b])

\* Heartbeats and passes are on timers.  A heartbeat counts for 45 seconds and
\* the index tails every five, so a bucket that can be read again and again is
\* read.  A server may stay down for ever: nothing is assumed of Start.
EventsFairness ==
  /\ \A s \in Servers : /\ WF_eventVars(Boot(s) \/ Ready(s))
                        /\ WF_eventVars(\E p \in Servers : Restore(s, p) \/ Mirror(s, p))
                        /\ SF_eventVars(Heartbeat(s)) /\ WF_eventVars(Fade(s))
                        /\ WF_eventVars(PassDone(s))
  /\ \A b \in Buckets : SF_eventVars(Read(b))
=============================================================================
