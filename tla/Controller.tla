------------------------------ MODULE Controller -----------------------------
(***************************************************************************)
(* The VMS controller (vms/controller.py on vmsplatform/contract.py, class *)
(* Controller): the camera rows, the stored placement, the assignments     *)
(* that follow it, and the passes of the loop of its __main__. That of a   *)
(* cluster (cluster/controller.py) is the same with labels (Labelled).     *)
(*                                                                         *)
(* A thread is anything that runs a controller method: the loop (Loops), a *)
(* console request or an operator's call, or any of these in the second    *)
(* controller of a reschedule.  The controller keeps nothing, so threads   *)
(* share only the store.  One step is one access to the store; Controller.write  *)
(* is one access, as module RowWrite shows its loop to be.  Everything a   *)
(* method has read is kept in the thread and may be stale when it is used. *)
(*                                                                         *)
(* Abstracted.  A worker's number is its place in the sorted order of      *)
(* names.  Camera fields other than what these methods decide by, reasons  *)
(* and times are left out.  Listing rows and reading each is one step      *)
(* where the method only makes a work list of them, and so is the last     *)
(* look of a choice at one or two assignments.  Every worker has an        *)
(* assignment row from the start.  A rebalance goes on for as long as its  *)
(* budget lasts, whatever it is.  Slots and heartbeats belong to the       *)
(* workers: here they change at any time. Labels do not.                   *)
(***************************************************************************)
EXTENDS FiniteSetsExt, Integers

CONSTANTS Threads,
          Loops,       \* the threads that run the loop; the others run calls
          Workers,     \* the names of workers: numbers, in their sorted order
          Capacity,    \* of each worker: its heartbeat's number, or the fallback
          Labelled,    \* TRUE: the controller of a cluster
          Reach,       \* of each camera: the workers whose server has its labels
          Calls,       \* which methods are called from outside; "slots" if slots change
          Serial,      \* TRUE: no method begins while another runs
          MaxUnits,    \* bound on the cameras ever created
          MaxCalls,    \* bound on the calls made from outside
          MaxEvents,   \* bound on what happens to workers' slots and heartbeats
          MaxCrashes   \* bound on the threads that die in the middle of a call

ASSUME ControllerAssumption ==
         /\ Loops \subseteq Threads
         /\ Workers \subseteq Nat \ {0} /\ Workers # {} /\ IsFiniteSet(Workers)
         /\ Capacity \in [Workers -> Nat \ {0}]
         /\ Labelled \in BOOLEAN /\ Reach \in [1..MaxUnits -> SUBSET Workers]
         /\ Serial \in BOOLEAN
         /\ MaxUnits \in Nat /\ MaxCalls \in Nat /\ MaxEvents \in Nat /\ MaxCrashes \in Nat

Units == 1..MaxUnits
NoOne == 0                 \* no worker, no unit

VARIABLES
  (* the store *)
  nextId,     \* vms/next_id
  cam,        \* vms/cameras/<unit>: "none", "live", "deleted"
  retention,  \* vms/retention/<unit>: "none", "days", "zero"
  placement,  \* vms/placement/<unit>: its worker, NoOne for no row and for ""
  listed,     \* vms/workers/<worker>: units
  released,   \* the slot rows that say released
  seen,       \* workers with a heartbeat younger than 45 s
  (* each thread *)
  th,         \* where it is in a method and what the method has read so far
  (* bounds *)
  calls, events, crashes

cameras == <<nextId, cam, retention>>
slots == <<released, seen>>
bounds == <<calls, events, crashes>>
vars == <<cameras, placement, listed, slots, th, bounds>>

Unread == [w \in Workers |-> 0]

Idle == [pc    |-> "idle",   \* the access it makes next
         job   |-> "none",   \* the method it runs
         unit  |-> NoOne,    \* the camera it is about
         dest  |-> NoOne,    \* the worker it has decided on, or read
         queue |-> {},       \* units ensure_placed and redistribute have yet to go through
         gones |-> {},       \* released slots redistribute has yet to go through
         pool  |-> {},       \* the workers a decision is made among
         todo  |-> {},       \* those it has not read yet
         load  |-> Unread,   \* what it read of the others
         found |-> {}]       \* the assignments move() has to take the camera off

Init ==
  /\ nextId = 0
  /\ cam = [u \in Units |-> "none"]
  /\ retention = [u \in Units |-> "none"]
  /\ placement = [u \in Units |-> NoOne]
  /\ listed = [w \in Workers |-> {}]
  /\ released = {}
  /\ seen = Workers
  /\ th = [t \in Threads |-> Idle]
  /\ calls = 0 /\ events = 0 /\ crashes = 0

\* The thread makes its access and is left in state next.
Step(t, from, next) == th[t].pc = from /\ th' = [th EXCEPT ![t] = next] /\ UNCHANGED bounds
\* The same, when only the next access changes.
Goto(t, from, to) == Step(t, from, [th[t] EXCEPT !.pc = to])

Quiet == \A t \in Threads : th[t].pc = "idle"

\* A call from outside: the thread starts method m.
Call(t, m, next) ==
  /\ m \in Calls /\ t \notin Loops
  /\ Serial => Quiet
  /\ calls < MaxCalls /\ calls' = calls + 1
  /\ th[t] = Idle /\ th' = [th EXCEPT ![t] = next]
  /\ UNCHANGED <<events, crashes>>

\* A method at its beginning, and where the caller of place() and move() goes
\* on when they return.
At(m, pc) == [Idle EXCEPT !.job = m, !.pc = pc]
Resume(t) ==
  CASE th[t].job = "ensure" ->
         [At("ensure", "place next") EXCEPT !.queue = th[t].queue]
    [] th[t].job = "redistribute" ->
         [At("redistribute", "move next") EXCEPT !.queue = th[t].queue, !.gones = th[t].gones, !.pool = th[t].pool]
    [] th[t].job = "rebalance" ->
         [At("rebalance", "rebalance") EXCEPT !.pool = th[t].pool]
    [] OTHER -> Idle

-----------------------------------------------------------------------------
(* Cameras *)

\* create_camera: the number.
Create(t) ==
  /\ nextId < MaxUnits
  /\ nextId' = nextId + 1
  /\ Call(t, "create", [At("create", "new row") EXCEPT !.unit = nextId'])
  /\ UNCHANGED <<cam, retention, placement, listed, slots>>

\* create_camera: the row, under a number nobody else has.
CreateRow(t) ==
  /\ Goto(t, "new row", "keep")
  /\ cam' = [cam EXCEPT ![th[t].unit] = "live"]
  /\ UNCHANGED <<nextId, retention, placement, listed, slots>>

\* update_camera with events_retention_days among the fields: the row first.
\* An update of anything else is this row alone and decides nothing here.
Update(t, u) ==
  /\ cam[u] = "live"
  /\ Call(t, "update", [At("update", "keep") EXCEPT !.unit = u])
  /\ UNCHANGED <<cameras, placement, listed, slots>>

\* _retention(days).  The console places what it created.
Keep(t) ==
  /\ Step(t, "keep", IF th[t].job = "create" THEN [th[t] EXCEPT !.pc = "place"] ELSE Idle)
  /\ retention' = [retention EXCEPT ![th[t].unit] = "days"]
  /\ UNCHANGED <<nextId, cam, placement, listed, slots>>

\* delete_camera: the row is marked and stays.
Delete(t, u) ==
  /\ cam[u] # "none"
  /\ Call(t, "delete", [At("delete", "forget") EXCEPT !.unit = u])
  /\ cam' = [cam EXCEPT ![u] = "deleted"]
  /\ UNCHANGED <<nextId, retention, placement, listed, slots>>

\* As a bug: the condition of _retention(None) is turned round.
ForgetReversed(t) ==
  /\ Goto(t, "forget", "unplace")
  /\ retention' = [retention EXCEPT ![th[t].unit] = IF @ = "none" THEN "zero" ELSE @]
  /\ UNCHANGED <<nextId, cam, placement, listed, slots>>

\* _retention(None)
Forget(t) ==
  /\ Goto(t, "forget", "unplace")
  /\ retention' = [retention EXCEPT ![th[t].unit] = IF @ = "none" THEN @ ELSE "zero"]
  /\ UNCHANGED <<nextId, cam, placement, listed, slots>>

\* delete_camera: the placement, if there is one,
Unplace(t) ==
  /\ LET w == placement[th[t].unit]
     IN Step(t, "unplace", IF w = NoOne THEN Idle ELSE [th[t] EXCEPT !.pc = "unlist", !.dest = w])
  /\ UNCHANGED <<cameras, placement, listed, slots>>

\* the assignment it names,
Unlist(t) ==
  /\ Goto(t, "unlist", "unrow")
  /\ listed' = [listed EXCEPT ![th[t].dest] = @ \ {th[t].unit}]
  /\ UNCHANGED <<cameras, placement, slots>>

\* and the row itself, whatever it says by now.
Unrow(t) ==
  /\ Step(t, "unrow", Idle)
  /\ placement' = [placement EXCEPT ![th[t].unit] = NoOne]
  /\ UNCHANGED <<cameras, listed, slots>>

-----------------------------------------------------------------------------
(* Placement *)

\* max() and the loop of place take the first of the best, by name.
First(S) == Min(S)
Free(t, w) == Capacity[w] - th[t].load[w]
MostFree(t) == First({w \in th[t].pool : \A v \in th[t].pool : Free(t, v) <= Free(t, w)})

\* The loop wakes up.  ensure_placed: the cameras there are,
Ensure(t) ==
  /\ t \in Loops
  /\ Serial => Quiet
  /\ Step(t, "idle", [At("ensure", "place next") EXCEPT !.queue = {u \in Units : cam[u] = "live"}])
  /\ UNCHANGED <<cameras, placement, listed, slots>>

\* each placed in turn, whatever has become of it; then redistribute.
PlaceNext(t) ==
  /\ Step(t, "place next",
          IF th[t].queue = {} THEN At("redistribute", "released")
          ELSE [th[t] EXCEPT !.pc = "place", !.unit = Min(th[t].queue), !.queue = @ \ {Min(@)}])
  /\ UNCHANGED <<cameras, placement, listed, slots>>

\* place: an existing placement is returned untouched.
AlreadyPlaced(t) ==
  /\ th[t].pc = "place" /\ placement[th[t].unit] # NoOne
  /\ Step(t, "place", Resume(t))
  /\ UNCHANGED <<cameras, placement, listed, slots>>

\* place: the workers it sees. A cluster's looks at the camera, too: is it there,
\* and on which of their servers can it be reached (eligible)?
Reaches(u, w) == Labelled => w \in Reach[u]
Candidates(u) == {w \in seen : Reaches(u, w) /\ (Labelled => cam[u] = "live")}

\* Their loads are read one by one.
Place(t) ==
  /\ th[t].pc = "place" /\ placement[th[t].unit] = NoOne
  /\ LET pool == Candidates(th[t].unit)
     IN Step(t, "place", [th[t] EXCEPT !.pc = "choose", !.pool = pool, !.todo = pool])
  /\ UNCHANGED <<cameras, placement, listed, slots>>

\* As a bug: one camera, the one in hand, is never counted.
LookShort(t, pc) ==
  /\ th[t].todo # {}
  /\ LET w == First(th[t].todo)
     IN Step(t, pc, [th[t] EXCEPT !.load[w] = Cardinality(listed[w]) - 1, !.todo = @ \ {w}])
  /\ UNCHANGED <<cameras, placement, listed, slots>>

\* load(w), in place, redistribute and rebalance.
Look(t, pc) ==
  /\ th[t].todo # {}
  /\ LET w == First(th[t].todo)
     IN Step(t, pc, [th[t] EXCEPT !.load[w] = Cardinality(listed[w]), !.todo = @ \ {w}])
  /\ UNCHANGED <<cameras, placement, listed, slots>>

\* As a bug: the last place of a worker is never given away.
ChooseShort(t) ==
  /\ th[t].todo = {}
  /\ Step(t, "choose",
          IF \E w \in th[t].pool : Free(t, w) > 1
          THEN [th[t] EXCEPT !.pc = "place row", !.dest = MostFree(t), !.pool = {}, !.load = Unread]
          ELSE Resume(t))
  /\ UNCHANGED <<cameras, placement, listed, slots>>

\* place: the freest, or nobody when all are full (or none is seen).
Choose(t) ==
  /\ th[t].todo = {}
  /\ Step(t, "choose",
          IF \E w \in th[t].pool : Free(t, w) > 0
          THEN [th[t] EXCEPT !.pc = "place row", !.dest = MostFree(t), !.pool = {}, !.load = Unread]
          ELSE Resume(t))
  /\ UNCHANGED <<cameras, placement, listed, slots>>

\* As a bug: the mutator writes over a worker that is named already.
PlaceRowOverwrites(t) ==
  /\ placement' = [placement EXCEPT ![th[t].unit] = th[t].dest]
  /\ Goto(t, "place row", "add")
  /\ UNCHANGED <<cameras, listed, slots>>

\* place, mutate: a row that names a worker by now is left alone and adopted.
PlaceRow(t) ==
  /\ LET u == th[t].unit
     IN /\ placement' = [placement EXCEPT ![u] = IF @ = NoOne THEN th[t].dest ELSE @]
        /\ Step(t, "place row", [th[t] EXCEPT !.pc = "add", !.dest = placement'[u]])
  /\ UNCHANGED <<cameras, listed, slots>>

\* assign_add, at the end of place and of move.
Add(t) ==
  /\ Step(t, "add", Resume(t))
  /\ listed' = [listed EXCEPT ![th[t].dest] = @ \cup {th[t].unit}]
  /\ UNCHANGED <<cameras, placement, slots>>

-----------------------------------------------------------------------------
(* Moves *)

\* move: every assignment is read, one by one, before any is changed.
Moving(r, u, to) == [r EXCEPT !.pc = "scan", !.unit = u, !.dest = to, !.todo = Workers, !.load = Unread]

\* The operator names a camera there is; the method does not look.
Move(t, u, to) ==
  /\ cam[u] = "live"
  /\ Call(t, "move", Moving(At("move", "scan"), u, to))
  /\ UNCHANGED <<cameras, placement, listed, slots>>

Scan(t) ==
  /\ th[t].todo # {}
  /\ LET w == First(th[t].todo)
         lists == th[t].unit \in listed[w] /\ w # th[t].dest
     IN Step(t, "scan", [th[t] EXCEPT !.found = IF lists THEN @ \cup {w} ELSE @, !.todo = @ \ {w}])
  /\ UNCHANGED <<cameras, placement, listed, slots>>

\* As a bug: assign_remove never finds the unit.
TakeOffMisses(t) ==
  /\ th[t].todo = {} /\ th[t].found # {}
  /\ Step(t, "scan", [th[t] EXCEPT !.found = @ \ {First(@)}])
  /\ UNCHANGED <<cameras, placement, listed, slots>>

TakeOff(t) ==
  /\ th[t].todo = {} /\ th[t].found # {}
  /\ LET w == First(th[t].found)
     IN /\ Step(t, "scan", [th[t] EXCEPT !.found = @ \ {w}])
        /\ listed' = [listed EXCEPT ![w] = @ \ {th[t].unit}]
  /\ UNCHANGED <<cameras, placement, slots>>

\* As a bug: a move leaves the row as it was.
MoveRowForgotten(t) ==
  /\ th[t].todo = {} /\ th[t].found = {}
  /\ Goto(t, "scan", "add")
  /\ UNCHANGED <<cameras, placement, listed, slots>>

MoveRow(t) ==
  /\ th[t].todo = {} /\ th[t].found = {}
  /\ Goto(t, "scan", "add")
  /\ placement' = [placement EXCEPT ![th[t].unit] = th[t].dest]
  /\ UNCHANGED <<cameras, listed, slots>>

\* redistribute: the released slots that still list something,
Released(t) ==
  /\ Step(t, "released", [th[t] EXCEPT !.pc = "slot next", !.gones = {w \in released : listed[w] # {}}])
  /\ UNCHANGED <<cameras, placement, listed, slots>>

\* each in turn, with the workers that are here and the units it lists,
SlotNext(t) ==
  /\ Step(t, "slot next",
          IF th[t].gones = {} THEN Idle
          ELSE LET gone == First(th[t].gones)
               IN [th[t] EXCEPT !.pc = "move next", !.gones = @ \ {gone},
                                !.pool = seen \ {gone}, !.queue = listed[gone]])
  /\ UNCHANGED <<cameras, placement, listed, slots>>

\* each unit in turn, with a fresh look at the loads,
MoveNext(t) ==
  /\ Step(t, "move next",
          IF th[t].queue = {} THEN [th[t] EXCEPT !.pc = "slot next", !.pool = {}]
          ELSE [th[t] EXCEPT !.pc = "choose move", !.unit = Min(th[t].queue),
                             !.queue = @ \ {Min(@)}, !.todo = th[t].pool])
  /\ UNCHANGED <<cameras, placement, listed, slots>>

\* As a bug: the last place of a worker is never given away.
ChooseMoveShort(t) ==
  /\ th[t].todo = {}
  /\ LET best == MostFree(t)
         full == th[t].pool = {} \/ Cardinality(listed[best]) + 1 >= Capacity[best]
     IN Step(t, "choose move", IF full THEN [Resume(t) EXCEPT !.queue = {}]
                               ELSE Moving(th[t], th[t].unit, best))
  /\ UNCHANGED <<cameras, placement, listed, slots>>

\* to the freest of them, unless that one is full: then the rest waits, listed
\* where it was.
ChooseMove(t) ==
  /\ th[t].todo = {}
  /\ LET best == MostFree(t)
         full == th[t].pool = {} \/ Cardinality(listed[best]) >= Capacity[best]
     IN Step(t, "choose move", IF full THEN [Resume(t) EXCEPT !.queue = {}]
                               ELSE Moving(th[t], th[t].unit, best))
  /\ UNCHANGED <<cameras, placement, listed, slots>>

\* rebalance: among the workers seen when it began.
Rebalance(t) ==
  /\ Cardinality(seen) >= 2
  /\ Call(t, "rebalance", [At("rebalance", "rebalance") EXCEPT !.pool = seen])
  /\ UNCHANGED <<cameras, placement, listed, slots>>

\* The budget is spent, or it is not and the loads are read again.
RebalanceNext(t) ==
  /\ \/ Step(t, "rebalance", Idle)
     \/ Step(t, "rebalance", [th[t] EXCEPT !.pc = "choose pair", !.todo = th[t].pool])
  /\ UNCHANGED <<cameras, placement, listed, slots>>

\* load / capacity, compared without dividing.
Fuller(t, v, w) == th[t].load[v] * Capacity[w] > th[t].load[w] * Capacity[v]
Highest(t) == First({w \in th[t].pool : \A v \in th[t].pool : ~Fuller(t, v, w)})
Lowest(t) == First({w \in th[t].pool : \A v \in th[t].pool : ~Fuller(t, w, v)})
\* Ten percent.
OutOfBand(t, hi, lo) ==
  10 * (th[t].load[hi] * Capacity[lo] - th[t].load[lo] * Capacity[hi]) >= Capacity[hi] * Capacity[lo]

ChoosePair(t) ==
  /\ th[t].pc = "choose pair" /\ th[t].todo = {}
  /\ LET hi == Highest(t)
         lo == Lowest(t)
         worth == /\ OutOfBand(t, hi, lo)
                  /\ listed[hi] # {}
                  /\ Cardinality(listed[lo]) + 1 <= Capacity[lo]
     IN Step(t, "choose pair", IF worth THEN Moving(th[t], Min(listed[hi]), lo) ELSE Idle)
  /\ UNCHANGED <<cameras, placement, listed, slots>>

-----------------------------------------------------------------------------
(* Slots and heartbeats, and the end of a controller *)

\* retire: an operator's word.
Retire(t, w) ==
  /\ Call(t, "retire", Idle)
  /\ released' = released \cup {w}
  /\ UNCHANGED <<cameras, placement, listed, seen>>

Event == events < MaxEvents /\ events' = events + 1

\* A worker stops in order, or claims the slot (again).
SlotChanges(w) ==
  /\ "slots" \in Calls /\ Event
  /\ released' = IF w \in released THEN released \ {w} ELSE released \cup {w}
  /\ UNCHANGED <<cameras, placement, listed, seen, th, calls, crashes>>

\* A worker heartbeats, or has not for 45 s.
SeenChanges(w) ==
  /\ Event
  /\ seen' = IF w \in seen THEN seen \ {w} ELSE seen \cup {w}
  /\ UNCHANGED <<cameras, placement, listed, released, th, calls, crashes>>

\* The process is killed between two accesses, or write() gives up and the
\* exception ends the pass.
Crash(t) ==
  /\ th[t].pc # "idle"
  /\ crashes < MaxCrashes /\ crashes' = crashes + 1
  /\ th' = [th EXCEPT ![t] = Idle]
  /\ UNCHANGED <<cameras, placement, listed, slots, calls, events>>

-----------------------------------------------------------------------------

Continue(t) ==
  \/ CreateRow(t) \/ Keep(t)
  \/ Forget(t) \/ Unplace(t) \/ Unlist(t) \/ Unrow(t)
  \/ PlaceNext(t) \/ AlreadyPlaced(t) \/ Place(t) \/ Choose(t) \/ PlaceRow(t) \/ Add(t)
  \/ \E pc \in {"choose", "choose move", "choose pair"} : Look(t, pc)
  \/ Scan(t) \/ TakeOff(t) \/ MoveRow(t)
  \/ Released(t) \/ SlotNext(t) \/ MoveNext(t) \/ ChooseMove(t)
  \/ RebalanceNext(t) \/ ChoosePair(t)

Begin(t) ==
  \/ Create(t) \/ Rebalance(t)
  \/ \E u \in Units : Update(t, u) \/ Delete(t, u)
  \/ \E u \in Units, w \in Workers : Move(t, u, w)
  \/ \E w \in Workers : Retire(t, w)

Environment == \E w \in Workers : SlotChanges(w) \/ SeenChanges(w)

Next == \/ \E t \in Threads : Begin(t) \/ Ensure(t) \/ Continue(t) \/ Crash(t)
        \/ Environment

Spec == Init /\ [][Next]_vars

\* What was begun is carried on, and the loop wakes up again and again.
FairSpec == Spec /\ \A t \in Threads : WF_vars(Ensure(t) \/ Continue(t))

-----------------------------------------------------------------------------
(* Properties *)

Accesses == {"idle", "new row", "keep", "forget", "unplace", "unlist", "unrow", "place next",
             "place", "choose", "place row", "add", "scan", "slot next", "move next",
             "choose move", "released", "rebalance", "choose pair"}

TypeOK ==
  /\ nextId \in 0..MaxUnits
  /\ cam \in [Units -> {"none", "live", "deleted"}]
  /\ retention \in [Units -> {"none", "days", "zero"}]
  /\ placement \in [Units -> Workers \cup {NoOne}]
  /\ listed \in [Workers -> SUBSET Units]
  /\ released \subseteq Workers
  /\ seen \subseteq Workers
  /\ \A t \in Threads :
       /\ th[t].pc \in Accesses
       /\ th[t].job \in Calls \cup {"none", "ensure", "redistribute"}
       /\ th[t].unit \in Units \cup {NoOne} /\ th[t].dest \in Workers \cup {NoOne}
       /\ th[t].queue \subseteq Units
       /\ th[t].gones \cup th[t].pool \cup th[t].todo \cup th[t].found \subseteq Workers
       /\ th[t].load \in [Workers -> Nat]
  /\ calls \in Nat /\ events \in Nat /\ crashes \in Nat

Where(u) == {w \in Workers : u \in listed[w]}

\* "Two controllers agree by CAS" (place, assign_add): whoever places a camera,
\* and wherever one of them dies, no worker ever reads it in its assignment but
\* the one its row names -- as long as no slot was released, which makes the
\* loop move cameras, and none is moved or deleted by a call.
PlacersAgree == events = 0 => \A u \in Units : Where(u) \subseteq {placement[u]}

\* "Two instances are harmless": when nobody is at work, each camera is listed
\* where its row says and nowhere else.
AssignmentFollowsRow == Quiet => \A u \in Units : Where(u) = {placement[u]} \ {NoOne}

\* No two workers read the same camera, also in the middle of a move: it is off
\* every list before it is on the next.
NeverListedTwice == \A u \in Units : Cardinality(Where(u)) <= 1

\* What place() decided is read by the worker in the end.
PlacedIsListed ==
  \A u \in Units : placement[u] # NoOne ~> placement[u] \in Where(u) \cup {NoOne}
\* The same, of controllers none of which dies in the middle of a call.
PlacedIsListedUnlessKilled == [](crashes = 0) => PlacedIsListed

\* A camera does not wait forever while a worker that is seen, on a server that
\* reaches it, has room for it.
Roomy(w) == Cardinality(listed[w]) < Capacity[w]
NewCameraIsPlaced ==
  \A u \in Units :
    <>[](\E w \in seen : Roomy(w) /\ Reaches(u, w)) => (cam[u] = "live" ~> cam[u] = "deleted" \/ placement[u] # NoOne)

\* Scaling in: a slot that stays released is rid of its cameras, if the others
\* that are here have room, and once its last heartbeat is too old to count.
ReleasedSlotIsEmptied ==
  \A w \in Workers :
    <>[](w \in released /\ released \cap seen = {} /\ \E v \in seen : Roomy(v)) => <>[](listed[w] = {})

\* "delete marks the row and removes the camera from its worker's assignment",
\* and "a deleted camera's buckets go at the next pass": a deleted camera is not
\* given to a worker (again), and its retention row says zero if there is one,
\* whatever the loop had read of it before (delete_camera).
DeletedIsForgotten ==
  Quiet => \A u \in Units : cam[u] = "deleted" => Where(u) = {} /\ retention[u] # "days"
==============================================================================
