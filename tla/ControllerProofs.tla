--------------------------- MODULE ControllerProofs --------------------------
(***************************************************************************)
(* For any number of threads, workers, cameras, calls and crashes of       *)
(* module Controller: the types; that threads which only place agree; and, *)
(* when no method begins while another runs, that assignments follow the   *)
(* rows, also of moves and of deletions.                                   *)
(*                                                                         *)
(* A step changes one thread, so the invariants are about the record that  *)
(* it leaves and about what the store says of the camera that thread has   *)
(* in hand.                                                                *)
(***************************************************************************)
EXTENDS Controller, FiniteMax

Thread == [pc : Accesses, job : Calls \cup {"none", "ensure", "redistribute"},
           unit : Units \cup {NoOne}, dest : Workers \cup {NoOne},
           queue : SUBSET Units, gones : SUBSET Workers, pool : SUBSET Workers,
           todo : SUBSET Workers, load : [Workers -> Nat], found : SUBSET Workers]

\* What a thread has in hand, by the access it makes next.
Aims(r) ==
  /\ r.pc \in {"new row", "keep", "forget", "unplace", "unlist", "unrow", "place", "choose",
               "place row", "add", "scan", "choose move"} => r.unit \in Units
  /\ r.pc \in {"unlist", "unrow", "place row", "add", "scan"} => r.dest \in Workers
  /\ r.pc = "place next" => r.job = "ensure"
  /\ r.pc = "new row" => r.job = "create"
  /\ r.pc \in {"place", "choose", "place row"} => r.job \in {"create", "ensure"}
  /\ r.pc \in {"released", "slot next", "move next", "choose move"} => r.job = "redistribute"
  /\ r.pc = "scan" => r.job \in {"move", "redistribute", "rebalance"}
  /\ r.pc \in {"rebalance", "choose pair"} => r.job = "rebalance"
  /\ r.job = "rebalance" => r.pool # {}

RowsType ==
  /\ nextId \in 0..MaxUnits
  /\ cam \in [Units -> {"none", "live", "deleted"}]
  /\ retention \in [Units -> {"none", "days", "zero"}]
  /\ placement \in [Units -> Workers \cup {NoOne}]
  /\ listed \in [Workers -> SUBSET Units]
  /\ released \subseteq Workers
  /\ seen \subseteq Workers
  /\ calls \in Nat /\ events \in Nat /\ crashes \in Nat

Fit(r) == r \in Thread /\ Aims(r)
ThreadInv == th \in [Threads -> Thread] /\ \A t \in Threads : Aims(th[t])

TypeInv == RowsType /\ ThreadInv

LEMMA InvIsType == TypeInv => TypeOK
BY DEF TypeInv, TypeOK, RowsType, ThreadInv, Thread

LEMMA Numbers ==
  /\ NoOne \notin Workers /\ NoOne \notin Units
  /\ Units \subseteq Nat /\ IsFiniteSet(Units)
  /\ Workers \subseteq Nat /\ IsFiniteSet(Workers) /\ Workers # {}
  /\ \A S \in SUBSET Units : IsFiniteSet(S) /\ Cardinality(S) \in Nat /\ (S # {} => Min(S) \in S)
  /\ \A S \in SUBSET Workers : IsFiniteSet(S) /\ (S # {} => First(S) \in S)
<1>1. IsFiniteSet(Units)
  BY ControllerAssumption, FS_Interval DEF Units
<1>2. Units \subseteq Nat /\ NoOne \notin Units /\ NoOne \notin Workers
      /\ Workers \subseteq Nat /\ IsFiniteSet(Workers) /\ Workers # {}
  BY ControllerAssumption DEF Units, NoOne
<1>3. ASSUME NEW S \in SUBSET Units PROVE IsFiniteSet(S) /\ Cardinality(S) \in Nat /\ (S # {} => Min(S) \in S)
  <2>1. IsFiniteSet(S)
    BY <1>1, FS_Subset
  <2>2. S \in SUBSET Nat
    BY <1>2
  <2> QED
    BY <2>1, <2>2, FS_CardinalityType, MinIsElement
<1>4. ASSUME NEW S \in SUBSET Workers PROVE IsFiniteSet(S) /\ (S # {} => First(S) \in S)
  <2>1. IsFiniteSet(S) /\ S \in SUBSET Nat
    BY <1>2, FS_Subset
  <2> QED
    BY <2>1, MinIsElement DEF First
<1> QED
  BY <1>1, <1>2, <1>3, <1>4

\* Multiplying both sides by the same positive number.
LEMMA Scaled ==
  ASSUME NEW x \in Nat, NEW y \in Nat, NEW c \in Nat \ {0}
  PROVE  x > y <=> x * c > y * c
<1>1. ASSUME NEW p \in Nat, NEW q \in Nat, p > q PROVE p * c > q * c
  <2>1. PICK d \in Nat \ {0} : p = q + d
    <3>1. p - q \in Nat \ {0} /\ p = q + (p - q)
      BY <1>1
    <3> QED
      BY <3>1
  <2>2. d * c \in Nat /\ d * c > 0
    OBVIOUS
  <2>3. p * c = q * c + d * c
    BY <2>1
  <2>4. q * c \in Nat
    OBVIOUS
  <2> QED
    BY <2>2, <2>3, <2>4
<1>2. x * c \in Nat /\ y * c \in Nat
  OBVIOUS
<1>3. x = y \/ x < y \/ x > y
  OBVIOUS
<1>4. x > y => x * c > y * c
  BY <1>1
<1>5. y > x => y * c > x * c
  BY <1>1
<1>6. x = y => x * c = y * c
  OBVIOUS
<1> QED
  BY <1>2, <1>3, <1>4, <1>5, <1>6

\* Fractions compared without dividing.
LEMMA Fractions ==
  ASSUME NEW a \in Nat, NEW b \in Nat, NEW c \in Nat,
         NEW A \in Nat \ {0}, NEW B \in Nat \ {0}, NEW C \in Nat \ {0},
         a * B > b * A, b * C > c * B
  PROVE  a * C > c * A
<1>1. /\ a * B \in Nat /\ b * A \in Nat /\ b * C \in Nat
      /\ c * B \in Nat /\ a * C \in Nat /\ c * A \in Nat
  OBVIOUS
<1>2. (a * B) * C > (b * A) * C
  BY <1>1, Scaled
<1>3. (b * C) * A > (c * B) * A
  BY <1>1, Scaled
<1>4. (a * B) * C = (a * C) * B /\ (b * A) * C = (b * C) * A /\ (c * B) * A = (c * A) * B
  OBVIOUS
<1>5. (b * C) * A \in Nat /\ (a * C) * B \in Nat /\ (c * A) * B \in Nat
  BY <1>1
<1>6. (a * C) * B > (c * A) * B
  BY <1>2, <1>3, <1>4, <1>5
<1> QED
  BY <1>1, <1>6, Scaled

\* The workers that place, redistribute and rebalance decide on are in the pool.
LEMMA Chosen ==
  ASSUME ThreadInv, NEW t \in Threads, th[t].pool # {}
  PROVE  /\ MostFree(t) \in th[t].pool /\ MostFree(t) \in Workers
         /\ Highest(t) \in th[t].pool /\ Highest(t) \in Workers
         /\ Lowest(t) \in th[t].pool /\ Lowest(t) \in Workers
<1> DEFINE P == th[t].pool
           L == th[t].load
<1>1. P \in SUBSET Workers /\ L \in [Workers -> Nat] /\ IsFiniteSet(P) /\ P # {}
  <2>1. th[t] \in Thread
    BY DEF ThreadInv
  <2>2. P \in SUBSET Workers /\ L \in [Workers -> Nat]
    BY <2>1 DEF Thread
  <2> QED
    BY <2>2, Numbers
<1>2. Capacity \in [Workers -> Nat \ {0}]
  BY ControllerAssumption
<1>3. \E x \in P : \A y \in P : Free(t, y) <= Free(t, x)
  <2> DEFINE f == [w \in P |-> Free(t, w)]
  <2>1. f \in [P -> Int]
    BY <1>1, <1>2 DEF Free
  <2> HIDE DEF f
  <2>2. PICK x \in P : \A y \in P : f[y] <= f[x]
    BY <1>1, <2>1, Greatest
  <2> QED
    BY <2>2 DEF f
<1>4. MostFree(t) \in P
  <2> DEFINE S == {w \in P : \A v \in P : Free(t, v) <= Free(t, w)}
  <2>1. S \in SUBSET Workers /\ S # {} /\ S \subseteq P
    BY <1>1, <1>3
  <2>2. MostFree(t) = First(S)
    BY DEF MostFree
  <2> HIDE DEF S
  <2> QED
    BY <2>1, <2>2, Numbers
<1>5. ASSUME NEW x \in P PROVE ~Fuller(t, x, x)
  <2>1. PICK a \in Nat, A \in Nat : a = L[x] /\ A = Capacity[x]
    BY <1>1, <1>2
  <2>2. ~(a * A > a * A)
    BY <2>1
  <2> QED
    BY <2>1, <2>2 DEF Fuller
<1>6. ASSUME NEW x \in P, NEW y \in P, NEW z \in P, Fuller(t, x, y), Fuller(t, y, z)
      PROVE  Fuller(t, x, z)
  <2>1. PICK a \in Nat, b \in Nat, c \in Nat, A \in Nat \ {0}, B \in Nat \ {0}, C \in Nat \ {0} :
          a = L[x] /\ b = L[y] /\ c = L[z] /\ A = Capacity[x] /\ B = Capacity[y] /\ C = Capacity[z]
    BY <1>1, <1>2
  <2>2. a * B > b * A /\ b * C > c * B
    BY <1>6, <2>1 DEF Fuller
  <2>3. a * C > c * A
    BY <2>1, <2>2, Fractions
  <2> QED
    BY <2>1, <2>3 DEF Fuller
<1>7. Highest(t) \in P
  <2> DEFINE Beats == {p \in P \X P : Fuller(t, p[1], p[2])}
             S == {w \in P : \A v \in P : ~Fuller(t, v, w)}
  <2>1. \A x, y \in P : <<x, y>> \in Beats <=> Fuller(t, x, y)
    OBVIOUS
  <2> HIDE DEF Beats
  <2>2. \E x \in P : \A y \in P : <<y, x>> \notin Beats
    <3>1. \A x \in P : <<x, x>> \notin Beats
      BY <1>5, <2>1
    <3>2. \A x, y, z \in P : <<x, y>> \in Beats /\ <<y, z>> \in Beats => <<x, z>> \in Beats
      BY <1>6, <2>1
    <3> HIDE DEF P
    <3> QED
      BY <1>1, <3>1, <3>2, Unbeaten
  <2>3. S \in SUBSET Workers /\ S # {} /\ S \subseteq P
    BY <1>1, <2>1, <2>2
  <2>4. Highest(t) = First(S)
    BY DEF Highest
  <2> HIDE DEF S
  <2> QED
    BY <2>3, <2>4, Numbers
<1>8. Lowest(t) \in P
  <2> DEFINE Beats == {p \in P \X P : Fuller(t, p[2], p[1])}
             S == {w \in P : \A v \in P : ~Fuller(t, w, v)}
  <2>1. \A x, y \in P : <<x, y>> \in Beats <=> Fuller(t, y, x)
    OBVIOUS
  <2> HIDE DEF Beats
  <2>2. \E x \in P : \A y \in P : <<y, x>> \notin Beats
    <3>1. \A x \in P : <<x, x>> \notin Beats
      BY <1>5, <2>1
    <3>2. \A x, y, z \in P : <<x, y>> \in Beats /\ <<y, z>> \in Beats => <<x, z>> \in Beats
      BY <1>6, <2>1
    <3> HIDE DEF P
    <3> QED
      BY <1>1, <3>1, <3>2, Unbeaten
  <2>3. S \in SUBSET Workers /\ S # {} /\ S \subseteq P
    BY <1>1, <2>1, <2>2
  <2>4. Lowest(t) = First(S)
    BY DEF Lowest
  <2> HIDE DEF S
  <2> QED
    BY <2>3, <2>4, Numbers
<1> QED
  BY <1>1, <1>4, <1>7, <1>8

-----------------------------------------------------------------------------
\* A step of one thread, from what its record was to what it is.
LEMMA StepMoves ==
  ASSUME ThreadInv, NEW t \in Threads, NEW from, NEW next, Step(t, from, next), Fit(next)
  PROVE  /\ ThreadInv'
         /\ \A s \in Threads : th'[s] = IF s = t THEN next ELSE th[s]
         /\ th[t].pc = from /\ calls' = calls /\ events' = events /\ crashes' = crashes
BY DEF ThreadInv, Step, Fit, bounds

LEMMA CallMoves ==
  ASSUME ThreadInv, calls \in Nat, NEW t \in Threads, NEW m, NEW next, Call(t, m, next), Fit(next)
  PROVE  /\ ThreadInv'
         /\ \A s \in Threads : th'[s] = IF s = t THEN next ELSE th[s]
         /\ th[t].pc = "idle" /\ calls' \in Nat /\ events' = events /\ crashes' = crashes
BY DEF ThreadInv, Call, Fit, Idle

LEMMA ThreadFacts ==
  ASSUME ThreadInv, NEW t \in Threads
  PROVE  /\ th[t] \in Thread /\ Aims(th[t]) /\ Fit(th[t])
         /\ th[t].pc \in Accesses /\ th[t].job \in Calls \cup {"none", "ensure", "redistribute"}
         /\ th[t].unit \in Units \cup {NoOne} /\ th[t].dest \in Workers \cup {NoOne}
         /\ th[t].queue \in SUBSET Units /\ th[t].gones \in SUBSET Workers
         /\ th[t].pool \in SUBSET Workers /\ th[t].todo \in SUBSET Workers
         /\ th[t].load \in [Workers -> Nat] /\ th[t].found \in SUBSET Workers
<1>1. th[t] \in Thread /\ Aims(th[t])
  BY DEF ThreadInv
<1> QED
  BY <1>1 DEF Thread, Fit

LEMMA IdleFits == Idle \in Thread /\ Fit(Idle) /\ Idle.pc = "idle"
<1>1. Unread \in [Workers -> Nat]
  BY DEF Unread
<1>2. Idle \in Thread
  BY <1>1, ZenonT(60) DEF Idle, Thread, Accesses
<1> QED
  BY <1>2 DEF Idle, Fit, Aims

LEMMA AtFits ==
  ASSUME NEW m \in Calls \cup {"none", "ensure", "redistribute"}, NEW pc \in Accesses
  PROVE  /\ At(m, pc) \in Thread /\ At(m, pc).pc = pc /\ At(m, pc).job = m
         /\ At(m, pc).unit = NoOne /\ At(m, pc).dest = NoOne /\ At(m, pc).queue = {}
         /\ At(m, pc).gones = {} /\ At(m, pc).pool = {} /\ At(m, pc).todo = {} /\ At(m, pc).found = {}
<1>1. At(m, pc) \in Thread
  BY IdleFits, ZenonT(60) DEF At, Thread
<1> QED
  BY <1>1 DEF At, Idle

LEMMA ResumeFits ==
  ASSUME ThreadInv, NEW t \in Threads
  PROVE  /\ Fit(Resume(t))
         /\ Resume(t).pc \in {"idle", "place next", "move next", "rebalance"}
         /\ Resume(t).queue \in {{}, th[t].queue} /\ Resume(t).gones \in {{}, th[t].gones}
         /\ Resume(t).pc = "place next" => th[t].job = "ensure"
         /\ Resume(t).pc = "move next" => th[t].job = "redistribute"
         /\ Resume(t).pc = "rebalance" => th[t].job = "rebalance"
<1>1. CASE th[t].job = "ensure"
  <2> DEFINE a == At("ensure", "place next")
  <2>1. Resume(t) = [a EXCEPT !.queue = th[t].queue]
    BY <1>1 DEF Resume
  <2>2. a \in Thread /\ a.pc = "place next" /\ a.job = "ensure" /\ a.gones = {}
    <3>1. "place next" \in Accesses
      BY DEF Accesses
    <3>2. "ensure" \in Calls \cup {"none", "ensure", "redistribute"}
      OBVIOUS
    <3> QED
      BY <3>1, <3>2, AtFits, ZenonT(60)
  <2> HIDE DEF a
  <2>3. Resume(t) \in Thread
    BY <2>1, <2>2, ThreadFacts, ZenonT(60) DEF Thread
  <2>4. Resume(t).pc = a.pc /\ Resume(t).job = a.job /\ Resume(t).gones = a.gones
        /\ Resume(t).queue = th[t].queue
    BY <2>1, <2>2 DEF Thread
  <2> QED
    BY <1>1, <2>2, <2>3, <2>4 DEF Fit, Aims
<1>2. CASE th[t].job = "redistribute"
  <2> DEFINE a == At("redistribute", "move next")
  <2>1. Resume(t) = [a EXCEPT !.queue = th[t].queue, !.gones = th[t].gones, !.pool = th[t].pool]
    BY <1>2 DEF Resume
  <2>2. a \in Thread /\ a.pc = "move next" /\ a.job = "redistribute"
    <3>1. "move next" \in Accesses
      BY DEF Accesses
    <3>2. "redistribute" \in Calls \cup {"none", "ensure", "redistribute"}
      OBVIOUS
    <3> QED
      BY <3>1, <3>2, AtFits, ZenonT(60)
  <2> HIDE DEF a
  <2>3. Resume(t) \in Thread
    BY <2>1, <2>2, ThreadFacts DEF Thread
  <2>4. Resume(t).pc = a.pc /\ Resume(t).job = a.job /\ Resume(t).gones = th[t].gones
        /\ Resume(t).queue = th[t].queue
    BY <2>1, <2>2 DEF Thread
  <2> QED
    BY <1>2, <2>2, <2>3, <2>4 DEF Fit, Aims
<1>3. CASE th[t].job = "rebalance"
  <2> DEFINE a == At("rebalance", "rebalance")
  <2>1. Resume(t) = [a EXCEPT !.pool = th[t].pool]
    BY <1>3 DEF Resume
  <2>2. a \in Thread /\ a.pc = "rebalance" /\ a.job = "rebalance" /\ a.queue = {} /\ a.gones = {}
    <3>1. "rebalance" \in Accesses
      BY DEF Accesses
    <3>2. "rebalance" \in Calls \cup {"none", "ensure", "redistribute"}
      BY <1>3, ThreadFacts
    <3> QED
      BY <3>1, <3>2, AtFits, ZenonT(60)
  <2> HIDE DEF a
  <2>3. Resume(t) \in Thread
    BY <2>1, <2>2, ThreadFacts, ZenonT(60) DEF Thread
  <2>4. th[t].pool # {}
    BY <1>3, ThreadFacts DEF Aims
  <2>5. Resume(t).pc = a.pc /\ Resume(t).job = a.job /\ Resume(t).gones = a.gones
        /\ Resume(t).queue = a.queue /\ Resume(t).pool = th[t].pool
    BY <2>1, <2>2 DEF Thread
  <2> QED
    BY <1>3, <2>2, <2>3, <2>4, <2>5 DEF Fit, Aims
<1>4. CASE th[t].job \notin {"ensure", "redistribute", "rebalance"}
  <2>1. Resume(t) = Idle
    BY <1>4 DEF Resume
  <2> QED
    BY <2>1, IdleFits DEF Idle
<1> QED
  BY <1>1, <1>2, <1>3, <1>4

LEMMA GotoFits ==
  ASSUME ThreadInv, NEW t \in Threads, NEW x \in Accesses
  PROVE  LET n == [th[t] EXCEPT !.pc = x]
         IN /\ n \in Thread /\ n.pc = x /\ n.job = th[t].job /\ n.unit = th[t].unit
            /\ n.dest = th[t].dest /\ n.queue = th[t].queue /\ n.gones = th[t].gones
            /\ n.pool = th[t].pool /\ n.todo = th[t].todo /\ n.found = th[t].found
<1> DEFINE n == [th[t] EXCEPT !.pc = x]
<1>1. n \in Thread
  BY ThreadFacts, ZenonT(60) DEF Thread
<1> QED
  BY <1>1, ThreadFacts DEF Thread

-----------------------------------------------------------------------------
(* Type correctness *)

\* The methods on cameras.
LEMMA CameraTypes ==
  ASSUME TypeInv, NEW t \in Threads,
         \/ Create(t) \/ CreateRow(t) \/ Keep(t) \/ Forget(t) \/ Unplace(t) \/ Unlist(t) \/ Unrow(t)
         \/ \E u \in Units : Update(t, u) \/ Delete(t, u)
  PROVE  TypeInv'
<1> USE DEF cameras, slots
<1>0. ThreadInv /\ RowsType /\ th[t] \in Thread /\ Aims(th[t])
  BY ThreadFacts DEF TypeInv
<1>1. CASE Create(t)
  <2> DEFINE a == At("create", "new row")
             n == [a EXCEPT !.unit = nextId']
  <2>1. /\ "create" \in Calls /\ nextId' \in Units /\ nextId' \in 0..MaxUnits
        /\ Call(t, "create", n) /\ UNCHANGED <<cam, retention, placement, listed, slots>>
    <3>1. nextId < MaxUnits /\ nextId' = nextId + 1 /\ nextId \in 0..MaxUnits /\ MaxUnits \in Nat
      BY <1>0, <1>1, ControllerAssumption DEF Create, RowsType
    <3>2. Call(t, "create", n) /\ UNCHANGED <<cam, retention, placement, listed, slots>>
      BY <1>1 DEF Create
    <3>3. nextId' \in Units /\ nextId' \in 0..MaxUnits
      BY <3>1 DEF Units
    <3>4. "create" \in Calls
      BY <3>2 DEF Call
    <3> QED
      BY <3>2, <3>3, <3>4
  <2>2. a \in Thread /\ a.pc = "new row" /\ a.job = "create"
    <3>1. "new row" \in Accesses
      BY DEF Accesses
    <3>2. "create" \in Calls \cup {"none", "ensure", "redistribute"}
      BY <2>1
    <3> QED
      BY <3>1, <3>2, AtFits, ZenonT(60)
  <2> HIDE DEF a
  <2>3. n \in Thread
    BY <2>1, <2>2, ZenonT(60) DEF Thread
  <2>4. n.pc = "new row" /\ n.job = "create" /\ n.unit \in Units
    BY <2>1, <2>2 DEF Thread
  <2>5. Fit(n)
    BY <2>3, <2>4 DEF Fit, Aims
  <2> HIDE DEF n
  <2>6. ThreadInv' /\ calls' \in Nat /\ events' = events /\ crashes' = crashes
    BY <1>0, <2>1, <2>5, CallMoves DEF RowsType
  <2> QED
    BY <1>0, <2>1, <2>6 DEF TypeInv, RowsType
<1>2. CASE \E u \in Units : Update(t, u) \/ Delete(t, u)
  <2>1. PICK u \in Units : Update(t, u) \/ Delete(t, u)
    BY <1>2
  <2>2. PICK m \in {"update", "delete"}, x \in {"keep", "forget"} :
          m \in Calls /\ Call(t, m, [At(m, x) EXCEPT !.unit = u])
    BY <2>1 DEF Update, Delete, Call
  <2> DEFINE a == At(m, x)
             n == [a EXCEPT !.unit = u]
  <2>3. a \in Thread /\ a.pc = x /\ a.job = m /\ a.pool = {} /\ m # "rebalance"
    <3>1. x \in Accesses /\ m \in Calls \cup {"none", "ensure", "redistribute"} /\ m # "rebalance"
      BY <2>2 DEF Accesses
    <3> QED
      BY <3>1, AtFits, ZenonT(60)
  <2> HIDE DEF a
  <2>4. n \in Thread
    BY <2>3, ZenonT(60) DEF Thread
  <2>5. n.pc = x /\ n.unit \in Units /\ n.job = m
    BY <2>3 DEF Thread
  <2>6. Fit(n)
    BY <2>3, <2>4, <2>5 DEF Fit, Aims
  <2>7. Call(t, m, n)
    BY <2>2 DEF a
  <2> HIDE DEF n
  <2>8. ThreadInv' /\ calls' \in Nat /\ events' = events /\ crashes' = crashes
    BY <1>0, <2>6, <2>7, CallMoves DEF RowsType
  <2> QED
    BY <1>0, <2>1, <2>8 DEF TypeInv, RowsType, Update, Delete
<1>3. CASE CreateRow(t)
  <2> DEFINE n == [th[t] EXCEPT !.pc = "keep"]
  <2>1. Step(t, "new row", n)
    BY <1>3 DEF CreateRow, Goto
  <2>2. Fit(n)
    <3>1. th[t].pc = "new row" /\ "keep" \in Accesses
      BY <2>1 DEF Step, Accesses
    <3>2. /\ n \in Thread /\ n.pc = "keep" /\ n.job = th[t].job /\ n.unit = th[t].unit
          /\ n.dest = th[t].dest /\ n.pool = th[t].pool
      BY <1>0, <3>1, GotoFits
    <3> HIDE DEF n
    <3> QED
      BY <1>0, <3>1, <3>2 DEF Fit, Aims
  <2>3. ThreadInv' /\ calls' = calls /\ events' = events /\ crashes' = crashes
    BY <1>0, <2>1, <2>2, StepMoves
  <2> QED
    BY <1>0, <1>3, <2>3 DEF TypeInv, RowsType, CreateRow
<1>4. CASE Keep(t)
  <2> DEFINE n == IF th[t].job = "create" THEN [th[t] EXCEPT !.pc = "place"] ELSE Idle
  <2>1. Step(t, "keep", n)
    BY <1>4 DEF Keep
  <2>2. Fit(n)
    <3>1. th[t].pc = "keep" /\ "place" \in Accesses
      BY <2>1 DEF Step, Accesses
    <3>2. CASE th[t].job = "create"
      <4> DEFINE k == [th[t] EXCEPT !.pc = "place"]
      <4>1. /\ k \in Thread /\ k.pc = "place" /\ k.job = th[t].job /\ k.unit = th[t].unit
            /\ k.dest = th[t].dest /\ k.pool = th[t].pool
        BY <1>0, <3>1, GotoFits
      <4>2. n = k
        BY <3>2
      <4> HIDE DEF k, n
      <4> QED
        BY <1>0, <3>1, <3>2, <4>1, <4>2 DEF Fit, Aims
    <3> QED
      BY <3>2, IdleFits
  <2>3. ThreadInv' /\ calls' = calls /\ events' = events /\ crashes' = crashes
    BY <1>0, <2>1, <2>2, StepMoves
  <2> QED
    BY <1>0, <1>4, <2>3 DEF TypeInv, RowsType, Keep
<1>5. CASE Forget(t)
  <2> DEFINE n == [th[t] EXCEPT !.pc = "unplace"]
  <2>1. Step(t, "forget", n)
    BY <1>5 DEF Forget, Goto
  <2>2. Fit(n)
    <3>1. th[t].pc = "forget" /\ "unplace" \in Accesses
      BY <2>1 DEF Step, Accesses
    <3>2. /\ n \in Thread /\ n.pc = "unplace" /\ n.job = th[t].job /\ n.unit = th[t].unit
          /\ n.dest = th[t].dest /\ n.pool = th[t].pool
      BY <1>0, <3>1, GotoFits
    <3> HIDE DEF n
    <3> QED
      BY <1>0, <3>1, <3>2 DEF Fit, Aims
  <2>3. ThreadInv' /\ calls' = calls /\ events' = events /\ crashes' = crashes
    BY <1>0, <2>1, <2>2, StepMoves
  <2> QED
    BY <1>0, <1>5, <2>3 DEF TypeInv, RowsType, Forget
<1>6. CASE Unplace(t)
  <2> DEFINE w == placement[th[t].unit]
             n == IF w = NoOne THEN Idle ELSE [th[t] EXCEPT !.pc = "unlist", !.dest = w]
  <2>1. Step(t, "unplace", n) /\ th[t].pc = "unplace"
    BY <1>6 DEF Unplace, Step
  <2>2. Fit(n)
    <3>1. th[t].unit \in Units
      BY <1>0, <2>1 DEF Aims
    <3>2. w \in Workers \cup {NoOne}
      BY <1>0, <3>1 DEF RowsType
    <3> HIDE DEF w
    <3>3. CASE w # NoOne
      <4> DEFINE k == [th[t] EXCEPT !.pc = "unlist", !.dest = w]
      <4>1. k \in Thread
        BY <1>0, <3>2, ThreadFacts, ZenonT(60) DEF Thread, Accesses
      <4>2. k.pc = "unlist" /\ k.dest = w /\ k.unit = th[t].unit /\ k.job = th[t].job /\ k.pool = th[t].pool
        BY <1>0 DEF Thread
      <4>3. Fit(k)
        BY <1>0, <3>1, <3>2, <3>3, <4>1, <4>2 DEF Fit, Aims
      <4> QED
        BY <3>3, <4>3
    <3> QED
      BY <3>3, IdleFits
  <2> HIDE DEF n
  <2>3. ThreadInv' /\ calls' = calls /\ events' = events /\ crashes' = crashes
    BY <1>0, <2>1, <2>2, StepMoves
  <2> QED
    BY <1>0, <1>6, <2>3 DEF TypeInv, RowsType, Unplace
<1>7. CASE Unlist(t)
  <2> DEFINE n == [th[t] EXCEPT !.pc = "unrow"]
  <2>1. Step(t, "unlist", n)
    BY <1>7 DEF Unlist, Goto
  <2>2. Fit(n)
    <3>1. th[t].pc = "unlist" /\ "unrow" \in Accesses
      BY <2>1 DEF Step, Accesses
    <3>2. /\ n \in Thread /\ n.pc = "unrow" /\ n.job = th[t].job /\ n.unit = th[t].unit
          /\ n.dest = th[t].dest /\ n.pool = th[t].pool
      BY <1>0, <3>1, GotoFits
    <3> HIDE DEF n
    <3> QED
      BY <1>0, <3>1, <3>2 DEF Fit, Aims
  <2>3. ThreadInv' /\ calls' = calls /\ events' = events /\ crashes' = crashes
    BY <1>0, <2>1, <2>2, StepMoves
  <2> QED
    BY <1>0, <1>7, <2>3 DEF TypeInv, RowsType, Unlist
<1>8. CASE Unrow(t)
  <2>1. Step(t, "unrow", Idle)
    BY <1>8 DEF Unrow
  <2>2. ThreadInv' /\ calls' = calls /\ events' = events /\ crashes' = crashes
    BY <1>0, <2>1, IdleFits, StepMoves
  <2> QED
    BY <1>0, <1>8, <2>2 DEF TypeInv, RowsType, Unrow
<1> QED
  BY <1>1, <1>2, <1>3, <1>4, <1>5, <1>6, <1>7, <1>8

\* A step that only reads.
LEMMA Reads ==
  ASSUME TypeInv, NEW t \in Threads, NEW from, NEW next, Step(t, from, next), Fit(next),
         UNCHANGED <<cameras, placement, listed, slots>>
  PROVE  TypeInv'
<1>1. ThreadInv' /\ calls' = calls /\ events' = events /\ crashes' = crashes
  BY StepMoves DEF TypeInv
<1> QED
  BY <1>1 DEF TypeInv, RowsType, cameras, slots

\* The loop, and place().
LEMMA PlaceTypes ==
  ASSUME TypeInv, NEW t \in Threads,
         \/ Ensure(t) \/ PlaceNext(t) \/ AlreadyPlaced(t) \/ Place(t) \/ Choose(t) \/ PlaceRow(t) \/ Add(t)
         \/ \E pc \in {"choose", "choose move", "choose pair"} : Look(t, pc)
  PROVE  TypeInv'
<1>0. ThreadInv /\ RowsType /\ th[t] \in Thread /\ Aims(th[t])
  BY ThreadFacts DEF TypeInv
<1>1. CASE Ensure(t)
  <2> DEFINE q == {u \in Units : cam[u] = "live"}
             a == At("ensure", "place next")
             k == [a EXCEPT !.queue = q]
  <2>1. a \in Thread /\ a.pc = "place next" /\ a.job = "ensure"
    <3>1. "place next" \in Accesses /\ "ensure" \in Calls \cup {"none", "ensure", "redistribute"}
      BY DEF Accesses
    <3> QED
      BY <3>1, AtFits, ZenonT(60)
  <2>2. q \in SUBSET Units
    OBVIOUS
  <2>3. Step(t, "idle", k) /\ UNCHANGED <<cameras, placement, listed, slots>>
    BY <1>1 DEF Ensure
  <2> HIDE DEF a, q
  <2>4. k \in Thread
    BY <2>1, <2>2, ZenonT(60) DEF Thread
  <2>5. k.pc = "place next" /\ k.job = "ensure"
    BY <2>1 DEF Thread
  <2> HIDE DEF k
  <2>6. Fit(k)
    BY <2>4, <2>5 DEF Fit, Aims
  <2> QED
    BY <2>3, <2>6, Reads
<1>2. CASE PlaceNext(t)
  <2>1. UNCHANGED <<cameras, placement, listed, slots>> /\ th[t].pc = "place next" /\ th[t].job = "ensure"
    BY <1>0, <1>2 DEF PlaceNext, Step, Aims
  <2>2. CASE th[t].queue = {}
    <3> DEFINE a == At("redistribute", "released")
    <3>1. Step(t, "place next", a)
      BY <1>2, <2>2 DEF PlaceNext
    <3>2. a \in Thread /\ a.pc = "released" /\ a.job = "redistribute"
      <4>1. "released" \in Accesses /\ "redistribute" \in Calls \cup {"none", "ensure", "redistribute"}
        BY DEF Accesses
      <4> QED
        BY <4>1, AtFits, ZenonT(60)
    <3> HIDE DEF a
    <3>3. Fit(a)
      BY <3>2 DEF Fit, Aims
    <3> QED
      BY <2>1, <3>1, <3>3, Reads
  <2>3. CASE th[t].queue # {}
    <3> DEFINE u == Min(th[t].queue)
               k == [th[t] EXCEPT !.pc = "place", !.unit = u, !.queue = @ \ {Min(@)}]
    <3>1. Step(t, "place next", k)
      BY <1>2, <2>3 DEF PlaceNext
    <3>2. u \in Units /\ th[t].queue \ {Min(th[t].queue)} \in SUBSET Units
      BY <1>0, <2>3, ThreadFacts, Numbers
    <3> HIDE DEF u
    <3>3. k \in Thread
      BY <1>0, <3>2, ThreadFacts, ZenonT(60) DEF Thread, Accesses
    <3>4. k.pc = "place" /\ k.unit = u /\ k.job = th[t].job
      BY <1>0 DEF Thread
    <3> HIDE DEF k
    <3>5. Fit(k)
      BY <2>1, <3>2, <3>3, <3>4 DEF Fit, Aims
    <3> QED
      BY <2>1, <3>1, <3>5, Reads
  <2> QED
    BY <2>2, <2>3
<1>3. CASE AlreadyPlaced(t)
  BY <1>0, <1>3, ResumeFits, Reads DEF AlreadyPlaced
<1>4. CASE Place(t)
  <2> DEFINE pool == Candidates(th[t].unit)
             k == [th[t] EXCEPT !.pc = "choose", !.pool = pool, !.todo = pool]
  <2>1. Step(t, "place", k) /\ UNCHANGED <<cameras, placement, listed, slots>> /\ th[t].pc = "place"
    BY <1>4 DEF Place
  <2>2. k \in Thread
    <3>1. pool \in SUBSET Workers
      BY <1>0 DEF RowsType, Candidates
    <3> HIDE DEF pool
    <3> QED
      BY <1>0, <3>1, ThreadFacts, ZenonT(60) DEF Thread, Accesses
  <2>3. k.pc = "choose" /\ k.unit = th[t].unit /\ k.job = th[t].job
    BY <1>0 DEF Thread
  <2> HIDE DEF k
  <2>4. Fit(k)
    BY <1>0, <2>1, <2>2, <2>3 DEF Fit, Aims
  <2> QED
    BY <2>1, <2>4, Reads
<1>5. CASE \E pc \in {"choose", "choose move", "choose pair"} : Look(t, pc)
  <2>1. PICK pc \in {"choose", "choose move", "choose pair"} : Look(t, pc)
    BY <1>5
  <2> DEFINE w == First(th[t].todo)
             n == Cardinality(listed[w])
             k == [th[t] EXCEPT !.load[w] = n, !.todo = @ \ {w}]
  <2>2. th[t].todo # {} /\ Step(t, pc, k) /\ UNCHANGED <<cameras, placement, listed, slots>> /\ th[t].pc = pc
    BY <2>1 DEF Look, Step
  <2>3. w \in Workers
    BY <1>0, <2>2, ThreadFacts, Numbers
  <2>4. n \in Nat
    <3>1. listed[w] \in SUBSET Units
      BY <1>0, <2>3 DEF RowsType
    <3> QED
      BY <3>1, Numbers
  <2> HIDE DEF w, n
  <2>5. k = [th[t] EXCEPT !.load = [th[t].load EXCEPT ![w] = n], !.todo = th[t].todo \ {w}]
    BY <1>0 DEF Thread
  <2>6. [th[t].load EXCEPT ![w] = n] \in [Workers -> Nat] /\ th[t].todo \ {w} \in SUBSET Workers
    BY <1>0, <2>3, <2>4, ThreadFacts
  <2>7. k \in Thread
    <3> HIDE DEF k
    <3> QED
      BY <1>0, <2>5, <2>6, ZenonT(60) DEF Thread
  <2>8. k.pc = th[t].pc /\ k.unit = th[t].unit /\ k.job = th[t].job /\ k.dest = th[t].dest /\ k.pool = th[t].pool
    <3> HIDE DEF k
    <3> QED
      BY <1>0, <2>5 DEF Thread
  <2> HIDE DEF k
  <2>9. Fit(k)
    BY <1>0, <2>7, <2>8 DEF Fit, Aims
  <2> QED
    BY <2>2, <2>9, Reads
<1>6. CASE Choose(t)
  <2>1. UNCHANGED <<cameras, placement, listed, slots>> /\ th[t].pc = "choose"
    BY <1>6 DEF Choose, Step
  <2>2. CASE \E w \in th[t].pool : Free(t, w) > 0
    <3> DEFINE w == MostFree(t)
               k == [th[t] EXCEPT !.pc = "place row", !.dest = w, !.pool = {}, !.load = Unread]
    <3>1. Step(t, "choose", k)
      BY <1>6, <2>2 DEF Choose
    <3>2. w \in Workers /\ Unread \in [Workers -> Nat]
      BY <1>0, <2>2, Chosen DEF Unread
    <3> HIDE DEF w
    <3>3. k \in Thread
      BY <1>0, <3>2, ThreadFacts DEF Thread, Accesses
    <3>4. k.pc = "place row" /\ k.dest = w /\ k.unit = th[t].unit /\ k.job = th[t].job
      BY <1>0 DEF Thread
    <3> HIDE DEF k
    <3>5. Fit(k)
      BY <1>0, <2>1, <3>2, <3>3, <3>4 DEF Fit, Aims
    <3> QED
      BY <2>1, <3>1, <3>5, Reads
  <2>3. CASE ~\E w \in th[t].pool : Free(t, w) > 0
    <3>1. Step(t, "choose", Resume(t))
      BY <1>6, <2>3 DEF Choose
    <3> QED
      BY <1>0, <2>1, <3>1, ResumeFits, Reads
  <2> QED
    BY <2>2, <2>3
<1>7. CASE PlaceRow(t)
  <2> DEFINE u == th[t].unit
             k == [th[t] EXCEPT !.pc = "add", !.dest = placement'[u]]
  <2>1. /\ placement' = [placement EXCEPT ![u] = IF @ = NoOne THEN th[t].dest ELSE @]
        /\ Step(t, "place row", k) /\ th[t].pc = "place row" /\ UNCHANGED <<cameras, listed, slots>>
    BY <1>7 DEF PlaceRow, Step
  <2>2. u \in Units /\ th[t].dest \in Workers
    BY <1>0, <2>1 DEF Aims
  <2>3. placement' \in [Units -> Workers \cup {NoOne}] /\ placement'[u] \in Workers
    BY <1>0, <2>1, <2>2 DEF RowsType
  <2>4. k \in Thread
    BY <1>0, <2>3, ThreadFacts, ZenonT(60) DEF Thread, Accesses
  <2>5. k.pc = "add" /\ k.dest = placement'[u] /\ k.unit = u /\ k.job = th[t].job
    BY <1>0 DEF Thread
  <2>6. th[t].job \in {"create", "ensure"}
    BY <1>0, <2>1 DEF Aims
  <2> HIDE DEF k
  <2>7. Fit(k)
    BY <2>2, <2>3, <2>4, <2>5, <2>6 DEF Fit, Aims
  <2>8. ThreadInv' /\ calls' = calls /\ events' = events /\ crashes' = crashes
    BY <1>0, <2>1, <2>7, StepMoves
  <2> QED
    BY <1>0, <2>1, <2>3, <2>8 DEF TypeInv, RowsType, cameras, slots
<1>8. CASE Add(t)
  <2>1. Step(t, "add", Resume(t)) /\ th[t].pc = "add"
    BY <1>8 DEF Add, Step
  <2>2. ThreadInv' /\ calls' = calls /\ events' = events /\ crashes' = crashes
    BY <1>0, <2>1, ResumeFits, StepMoves
  <2>3. th[t].unit \in Units
    BY <1>0, <2>1 DEF Aims
  <2> QED
    BY <1>0, <1>8, <2>2, <2>3 DEF TypeInv, RowsType, Add, cameras, slots
<1> QED
  BY <1>1, <1>2, <1>3, <1>4, <1>5, <1>6, <1>7, <1>8

LEMMA MovingFits ==
  ASSUME NEW r \in Thread, NEW u \in Units, NEW to \in Workers,
         r.job \in {"move", "redistribute", "rebalance"}, r.job = "rebalance" => r.pool # {}
  PROVE  LET k == Moving(r, u, to)
         IN /\ Fit(k) /\ k.pc = "scan" /\ k.unit = u /\ k.dest = to /\ k.todo = Workers
            /\ k.job = r.job /\ k.queue = r.queue /\ k.found = r.found
<1> DEFINE k == Moving(r, u, to)
<1>1. Unread \in [Workers -> Nat]
  BY DEF Unread
<1>2. k \in Thread
  BY <1>1, ZenonT(60) DEF Moving, Thread, Accesses
<1>3. /\ k.pc = "scan" /\ k.unit = u /\ k.dest = to /\ k.todo = Workers
      /\ k.job = r.job /\ k.queue = r.queue /\ k.found = r.found /\ k.pool = r.pool
  BY DEF Moving, Thread
<1> HIDE DEF k
<1>4. Fit(k)
  BY <1>2, <1>3 DEF Fit, Aims
<1> QED
  BY <1>3, <1>4 DEF k

\* move(), redistribute and rebalance.
LEMMA MoveTypes ==
  ASSUME TypeInv, NEW t \in Threads,
         \/ \E u \in Units, w \in Workers : Move(t, u, w)
         \/ Scan(t) \/ TakeOff(t) \/ MoveRow(t) \/ Released(t) \/ SlotNext(t) \/ MoveNext(t) \/ ChooseMove(t)
         \/ Rebalance(t) \/ RebalanceNext(t) \/ ChoosePair(t)
  PROVE  TypeInv'
<1>0. ThreadInv /\ RowsType /\ th[t] \in Thread /\ Aims(th[t])
  BY ThreadFacts DEF TypeInv
<1>1. CASE \E u \in Units, w \in Workers : Move(t, u, w)
  <2>1. PICK u \in Units, w \in Workers : Move(t, u, w)
    BY <1>1
  <2> DEFINE a == At("move", "scan")
             k == Moving(a, u, w)
  <2>2. Call(t, "move", k) /\ "move" \in Calls /\ UNCHANGED <<cameras, placement, listed, slots>>
    BY <2>1 DEF Move, Call
  <2>3. a \in Thread /\ a.job = "move"
    <3>1. "scan" \in Accesses /\ "move" \in Calls \cup {"none", "ensure", "redistribute"}
      BY <2>2 DEF Accesses
    <3> QED
      BY <3>1, AtFits, ZenonT(60)
  <2> HIDE DEF a
  <2>4. Fit(k)
    BY <2>3, MovingFits
  <2> HIDE DEF k
  <2>5. ThreadInv' /\ calls' \in Nat /\ events' = events /\ crashes' = crashes
    BY <1>0, <2>2, <2>4, CallMoves DEF RowsType
  <2> QED
    BY <1>0, <2>2, <2>5 DEF TypeInv, RowsType, cameras, slots
<1>2. CASE Scan(t)
  <2> DEFINE w == First(th[t].todo)
             lists == th[t].unit \in listed[w] /\ w # th[t].dest
             f == IF lists THEN th[t].found \cup {w} ELSE th[t].found
             k == [th[t] EXCEPT !.found = f, !.todo = th[t].todo \ {w}]
  <2>1. /\ th[t].todo # {} /\ UNCHANGED <<cameras, placement, listed, slots>> /\ th[t].pc = "scan"
        /\ Step(t, "scan", [th[t] EXCEPT !.found = IF lists THEN @ \cup {w} ELSE @, !.todo = @ \ {w}])
    BY <1>2 DEF Scan, Step
  <2>2. Step(t, "scan", k)
    BY <2>1
  <2>3. w \in Workers
    BY <1>0, <2>1, ThreadFacts, Numbers
  <2>4. f \in SUBSET Workers /\ th[t].todo \ {w} \in SUBSET Workers
    <3> HIDE DEF w
    <3> QED
      BY <1>0, <2>3, ThreadFacts
  <2> HIDE DEF f, w
  <2>5. k \in Thread
    BY <1>0, <2>4, ZenonT(60) DEF Thread
  <2>6. k.pc = th[t].pc /\ k.unit = th[t].unit /\ k.job = th[t].job /\ k.dest = th[t].dest /\ k.pool = th[t].pool
    BY <1>0 DEF Thread
  <2> HIDE DEF k
  <2>7. Fit(k)
    BY <1>0, <2>5, <2>6 DEF Fit, Aims
  <2> QED
    BY <2>1, <2>2, <2>7, Reads
<1>3. CASE TakeOff(t)
  <2> DEFINE w == First(th[t].found)
             k == [th[t] EXCEPT !.found = @ \ {w}]
  <2>1. /\ th[t].found # {} /\ UNCHANGED <<cameras, placement, slots>> /\ th[t].pc = "scan"
        /\ Step(t, "scan", k) /\ listed' = [listed EXCEPT ![w] = @ \ {th[t].unit}]
    BY <1>3 DEF TakeOff, Step
  <2>2. th[t].found \ {w} \in SUBSET Workers
    BY <1>0, ThreadFacts
  <2> HIDE DEF w
  <2>3. k \in Thread
    BY <1>0, <2>2, ZenonT(60) DEF Thread
  <2>4. k.pc = th[t].pc /\ k.unit = th[t].unit /\ k.job = th[t].job /\ k.dest = th[t].dest /\ k.pool = th[t].pool
    BY <1>0 DEF Thread
  <2> HIDE DEF k
  <2>5. Fit(k)
    BY <1>0, <2>3, <2>4 DEF Fit, Aims
  <2>6. ThreadInv' /\ calls' = calls /\ events' = events /\ crashes' = crashes
    BY <1>0, <2>1, <2>5, StepMoves
  <2> QED
    BY <1>0, <2>1, <2>6 DEF TypeInv, RowsType, cameras, slots
<1>4. CASE MoveRow(t)
  <2> DEFINE k == [th[t] EXCEPT !.pc = "add"]
  <2>1. /\ UNCHANGED <<cameras, listed, slots>> /\ th[t].pc = "scan"
        /\ Step(t, "scan", k) /\ placement' = [placement EXCEPT ![th[t].unit] = th[t].dest]
    BY <1>4 DEF MoveRow, Step, Goto
  <2>2. /\ k \in Thread /\ k.pc = "add" /\ k.job = th[t].job /\ k.unit = th[t].unit
        /\ k.dest = th[t].dest /\ k.pool = th[t].pool
    <3>1. "add" \in Accesses
      BY DEF Accesses
    <3> QED
      BY <1>0, <3>1, GotoFits
  <2> HIDE DEF k
  <2>3. Fit(k)
    BY <1>0, <2>1, <2>2 DEF Fit, Aims
  <2>4. ThreadInv' /\ calls' = calls /\ events' = events /\ crashes' = crashes
    BY <1>0, <2>1, <2>3, StepMoves
  <2> QED
    BY <1>0, <2>1, <2>4, ThreadFacts DEF TypeInv, RowsType, cameras, slots
<1>5. CASE Released(t)
  <2> DEFINE g == {w \in released : listed[w] # {}}
             k == [th[t] EXCEPT !.pc = "slot next", !.gones = g]
  <2>1. UNCHANGED <<cameras, placement, listed, slots>> /\ th[t].pc = "released" /\ Step(t, "released", k)
    BY <1>5 DEF Released, Step
  <2>2. g \in SUBSET Workers
    BY <1>0 DEF RowsType
  <2> HIDE DEF g
  <2>3. k \in Thread
    BY <1>0, <2>2, ZenonT(60) DEF Thread, Accesses
  <2>4. k.pc = "slot next" /\ k.job = th[t].job /\ k.pool = th[t].pool
    BY <1>0 DEF Thread
  <2> HIDE DEF k
  <2>5. Fit(k)
    BY <1>0, <2>1, <2>3, <2>4 DEF Fit, Aims
  <2> QED
    BY <2>1, <2>5, Reads
<1>6. CASE SlotNext(t)
  <2>1. UNCHANGED <<cameras, placement, listed, slots>> /\ th[t].pc = "slot next" /\ th[t].job = "redistribute"
    BY <1>0, <1>6 DEF SlotNext, Step, Aims
  <2>2. CASE th[t].gones = {}
    BY <1>6, <2>1, <2>2, IdleFits, Reads DEF SlotNext
  <2>3. CASE th[t].gones # {}
    <3> DEFINE gone == First(th[t].gones)
               k == [th[t] EXCEPT !.pc = "move next", !.gones = @ \ {gone},
                                  !.pool = seen \ {gone}, !.queue = listed[gone]]
    <3>1. Step(t, "slot next", k)
      BY <1>6, <2>3 DEF SlotNext
    <3>2. gone \in Workers
      BY <1>0, <2>3, ThreadFacts, Numbers
    <3> HIDE DEF gone
    <3>3. th[t].gones \ {gone} \in SUBSET Workers /\ seen \ {gone} \in SUBSET Workers
          /\ listed[gone] \in SUBSET Units
      BY <1>0, <3>2, ThreadFacts DEF RowsType
    <3>4. k \in Thread
      BY <1>0, <3>3 DEF Thread, Accesses
    <3>5. k.pc = "move next" /\ k.job = th[t].job
      BY <1>0 DEF Thread
    <3> HIDE DEF k
    <3>6. Fit(k)
      BY <1>0, <2>1, <3>4, <3>5 DEF Fit, Aims
    <3> QED
      BY <2>1, <3>1, <3>6, Reads
  <2> QED
    BY <2>2, <2>3
<1>7. CASE MoveNext(t)
  <2>1. UNCHANGED <<cameras, placement, listed, slots>> /\ th[t].pc = "move next" /\ th[t].job = "redistribute"
    BY <1>0, <1>7 DEF MoveNext, Step, Aims
  <2>2. CASE th[t].queue = {}
    <3> DEFINE k == [th[t] EXCEPT !.pc = "slot next", !.pool = {}]
    <3>1. Step(t, "move next", k)
      BY <1>7, <2>2 DEF MoveNext
    <3>2. k \in Thread
      BY <1>0, ZenonT(60) DEF Thread, Accesses
    <3>3. k.pc = "slot next" /\ k.job = th[t].job
      BY <1>0 DEF Thread
    <3> HIDE DEF k
    <3>4. Fit(k)
      BY <2>1, <3>2, <3>3 DEF Fit, Aims
    <3> QED
      BY <2>1, <3>1, <3>4, Reads
  <2>3. CASE th[t].queue # {}
    <3> DEFINE u == Min(th[t].queue)
               k == [th[t] EXCEPT !.pc = "choose move", !.unit = u,
                                  !.queue = @ \ {Min(@)}, !.todo = th[t].pool]
    <3>1. Step(t, "move next", k)
      BY <1>7, <2>3 DEF MoveNext
    <3>2. u \in Units /\ th[t].queue \ {Min(th[t].queue)} \in SUBSET Units
      BY <1>0, <2>3, ThreadFacts, Numbers
    <3> HIDE DEF u
    <3>3. k \in Thread
      BY <1>0, <3>2, ThreadFacts DEF Thread, Accesses
    <3>4. k.pc = "choose move" /\ k.unit = u /\ k.job = th[t].job
      BY <1>0 DEF Thread
    <3> HIDE DEF k
    <3>5. Fit(k)
      BY <2>1, <3>2, <3>3, <3>4 DEF Fit, Aims
    <3> QED
      BY <2>1, <3>1, <3>5, Reads
  <2> QED
    BY <2>2, <2>3
<1>8. CASE ChooseMove(t)
  <2> DEFINE best == MostFree(t)
             full == th[t].pool = {} \/ Cardinality(listed[best]) >= Capacity[best]
             k == Moving(th[t], th[t].unit, best)
             r == [Resume(t) EXCEPT !.queue = {}]
  <2>1. /\ UNCHANGED <<cameras, placement, listed, slots>> /\ th[t].pc = "choose move"
        /\ Step(t, "choose move", IF full THEN r ELSE k)
    BY <1>8 DEF ChooseMove, Step
  <2>2. th[t].job = "redistribute" /\ th[t].unit \in Units
    BY <1>0, <2>1 DEF Aims
  <2>3. CASE full
    <3>1. Resume(t) \in Thread /\ Aims(Resume(t))
      BY <1>0, ResumeFits DEF Fit
    <3>2. r \in Thread
      BY <3>1, ZenonT(60) DEF Thread
    <3>3. /\ r.pc = Resume(t).pc /\ r.job = Resume(t).job /\ r.unit = Resume(t).unit
          /\ r.dest = Resume(t).dest /\ r.pool = Resume(t).pool
      BY <3>1 DEF Thread
    <3> HIDE DEF r
    <3>4. Fit(r)
      BY <3>1, <3>2, <3>3 DEF Fit, Aims
    <3> QED
      BY <2>1, <2>3, <3>4, Reads
  <2>4. CASE ~full
    <3>1. best \in Workers
      BY <1>0, <2>4, Chosen
    <3>2. Fit(k)
      <4> HIDE DEF best
      <4> QED
        BY <1>0, <2>2, <3>1, MovingFits
    <3> QED
      BY <2>1, <2>4, <3>2, Reads
  <2> QED
    BY <2>3, <2>4
<1>9. CASE Rebalance(t)
  <2> DEFINE a == At("rebalance", "rebalance")
             k == [a EXCEPT !.pool = seen]
  <2>1. Call(t, "rebalance", k) /\ "rebalance" \in Calls /\ UNCHANGED <<cameras, placement, listed, slots>>
    BY <1>9 DEF Rebalance, Call
  <2>2. a \in Thread /\ a.pc = "rebalance" /\ a.job = "rebalance"
    <3>1. "rebalance" \in Accesses /\ "rebalance" \in Calls \cup {"none", "ensure", "redistribute"}
      BY <2>1 DEF Accesses
    <3> QED
      BY <3>1, AtFits, ZenonT(60)
  <2>3. seen \in SUBSET Workers /\ seen # {}
    <3>1. Cardinality(seen) >= 2
      BY <1>9 DEF Rebalance
    <3>2. Cardinality({}) = 0
      BY FS_EmptySet
    <3>3. seen # {}
      BY <3>1, <3>2
    <3> QED
      BY <1>0, <3>3 DEF RowsType
  <2> HIDE DEF a
  <2>4. k \in Thread
    BY <2>2, <2>3, ZenonT(60) DEF Thread
  <2>5. k.pc = "rebalance" /\ k.job = "rebalance" /\ k.pool = seen
    BY <2>2 DEF Thread
  <2> HIDE DEF k
  <2>6. Fit(k)
    BY <2>3, <2>4, <2>5 DEF Fit, Aims
  <2>7. ThreadInv' /\ calls' \in Nat /\ events' = events /\ crashes' = crashes
    BY <1>0, <2>1, <2>6, CallMoves DEF RowsType
  <2> QED
    BY <1>0, <2>1, <2>7 DEF TypeInv, RowsType, cameras, slots
<1>10. CASE RebalanceNext(t)
  <2> DEFINE k == [th[t] EXCEPT !.pc = "choose pair", !.todo = th[t].pool]
  <2>1. /\ UNCHANGED <<cameras, placement, listed, slots>> /\ th[t].pc = "rebalance"
        /\ Step(t, "rebalance", Idle) \/ Step(t, "rebalance", k)
    BY <1>10 DEF RebalanceNext, Step
  <2>2. k \in Thread
    BY <1>0, ThreadFacts, ZenonT(60) DEF Thread, Accesses
  <2>3. k.pc = "choose pair" /\ k.job = th[t].job /\ k.pool = th[t].pool
    BY <1>0 DEF Thread
  <2> HIDE DEF k
  <2>4. Fit(k)
    BY <1>0, <2>1, <2>2, <2>3 DEF Fit, Aims
  <2> QED
    BY <2>1, <2>4, IdleFits, Reads
<1>11. CASE ChoosePair(t)
  <2> DEFINE hi == Highest(t)
             lo == Lowest(t)
             worth == /\ OutOfBand(t, hi, lo)
                      /\ listed[hi] # {}
                      /\ Cardinality(listed[lo]) + 1 <= Capacity[lo]
             k == Moving(th[t], Min(listed[hi]), lo)
  <2>1. /\ UNCHANGED <<cameras, placement, listed, slots>> /\ th[t].pc = "choose pair"
        /\ Step(t, "choose pair", IF worth THEN k ELSE Idle)
    BY <1>11 DEF ChoosePair
  <2>2. th[t].job = "rebalance" /\ th[t].pool # {}
    BY <1>0, <2>1 DEF Aims
  <2>3. hi \in Workers /\ lo \in Workers
    BY <1>0, <2>2, Chosen
  <2>4. CASE worth
    <3>1. Min(listed[hi]) \in Units
      <4>1. listed[hi] \in SUBSET Units /\ listed[hi] # {}
        BY <1>0, <2>3, <2>4 DEF RowsType
      <4> QED
        BY <4>1, Numbers
    <3>2. Fit(k)
      <4> HIDE DEF hi, lo
      <4> QED
        BY <1>0, <2>2, <2>3, <3>1, MovingFits
    <3> QED
      BY <2>1, <2>4, <3>2, Reads
  <2>5. CASE ~worth
    BY <2>1, <2>5, IdleFits, Reads
  <2> QED
    BY <2>4, <2>5
<1> QED
  BY <1>1, <1>2, <1>3, <1>4, <1>5, <1>6, <1>7, <1>8, <1>9, <1>10, <1>11

\* What is not a step of a method: an operator's word, a worker, a kill.
LEMMA OtherTypes ==
  ASSUME TypeInv,
         \/ Environment
         \/ \E t \in Threads : Crash(t) \/ \E w \in Workers : Retire(t, w)
  PROVE  TypeInv'
<1>0. ThreadInv /\ RowsType
  BY DEF TypeInv
<1>1. CASE Environment
  <2>1. PICK w \in Workers : SlotChanges(w) \/ SeenChanges(w)
    BY <1>1 DEF Environment
  <2> QED
    BY <1>0, <2>1 DEF TypeInv, RowsType, ThreadInv, SlotChanges, SeenChanges, Event, cameras
<1>2. ASSUME NEW t \in Threads, Crash(t) PROVE TypeInv'
  <2>1. th' = [th EXCEPT ![t] = Idle]
    BY <1>2 DEF Crash
  <2>2. ThreadInv'
    BY <1>0, <2>1, IdleFits DEF ThreadInv, Fit
  <2> QED
    BY <1>0, <1>2, <2>2 DEF TypeInv, RowsType, Crash, cameras, slots
<1>3. ASSUME NEW t \in Threads, NEW w \in Workers, Retire(t, w) PROVE TypeInv'
  <2>1. ThreadInv' /\ calls' \in Nat /\ events' = events /\ crashes' = crashes
    BY <1>0, <1>3, IdleFits, CallMoves DEF Retire, RowsType
  <2> QED
    BY <1>0, <1>3, <2>1 DEF TypeInv, RowsType, Retire, cameras
<1> QED
  BY <1>1, <1>2, <1>3

LEMMA TypeStep == TypeInv /\ [Next]_vars => TypeInv'
<1> SUFFICES ASSUME TypeInv, [Next]_vars PROVE TypeInv'
  OBVIOUS
<1>1. CASE Environment
  BY <1>1, OtherTypes
<1>2. ASSUME NEW t \in Threads, Begin(t) PROVE TypeInv'
  BY <1>2, CameraTypes, MoveTypes, OtherTypes DEF Begin
<1>3. ASSUME NEW t \in Threads, Ensure(t) \/ Continue(t) PROVE TypeInv'
  BY <1>3, CameraTypes, PlaceTypes, MoveTypes DEF Continue
<1>4. ASSUME NEW t \in Threads, Crash(t) PROVE TypeInv'
  BY <1>4, OtherTypes
<1>5. CASE UNCHANGED vars
  BY <1>5 DEF vars, cameras, slots, bounds, TypeInv, RowsType, ThreadInv
<1> QED
  BY <1>1, <1>2, <1>3, <1>4, <1>5 DEF Next

LEMMA TypeInit == Init => TypeInv
<1> SUFFICES ASSUME Init PROVE TypeInv
  OBVIOUS
<1>1. RowsType
  BY ControllerAssumption DEF Init, RowsType
<1>2. ThreadInv
  BY IdleFits DEF Init, ThreadInv, Fit
<1> QED
  BY <1>1, <1>2 DEF TypeInv

LEMMA TypeAlways == Spec => []TypeInv
BY TypeInit, TypeStep, PTL DEF Spec

\* The camera rows, the placement, the assignments and what each thread has
\* read keep their types: no method is ever about a camera or a worker there
\* is not, whatever it read before.
THEOREM ControllerTypeCorrect == Spec => []TypeOK
BY TypeAlways, InvIsType, PTL

-----------------------------------------------------------------------------
(* Threads that only place *)

LEMMA StepIs ==
  ASSUME ThreadInv, NEW t \in Threads, NEW from, NEW next, Step(t, from, next)
  PROVE  th[t].pc = from /\ th'[t] = next /\ \A s \in Threads \ {t} : th'[s] = th[s]
BY DEF Step, ThreadInv

LEMMA CallIs ==
  ASSUME ThreadInv, NEW t \in Threads, NEW m, NEW next, Call(t, m, next)
  PROVE  /\ m \in Calls /\ (Serial => Quiet) /\ th[t] = Idle
         /\ th'[t] = next /\ \A s \in Threads \ {t} : th'[s] = th[s]
BY DEF Call, ThreadInv

OnlyPlaces == Calls \cap {"delete", "move", "rebalance", "retire"} = {}

\* A thread on its way to a placement: what it is about to list is in the row.
InPlacement(r) ==
  /\ r.pc \in {"idle", "new row", "keep", "place next", "place", "choose", "place row", "add",
               "released", "slot next"}
  /\ r.gones = {}
  /\ r.pc = "add" => r.job \in {"create", "ensure"} /\ placement[r.unit] = r.dest

Agree == events = 0 =>
  /\ released = {}
  /\ \A w \in Workers, u \in Units : u \in listed[w] => placement[u] = w
  /\ \A t \in Threads : InPlacement(th[t])

LEMMA AgreeSays == TypeInv /\ Agree => PlacersAgree
BY DEF TypeInv, RowsType, Agree, PlacersAgree, Where

\* A row that names a worker keeps it, so one thread's step leaves the others on
\* their way.
LEMMA AgreeMoves ==
  ASSUME TypeInv, TypeInv', Agree, events = 0, NEW t \in Threads,
         \A s \in Threads \ {t} : th'[s] = th[s],
         released' = released,
         \A u \in Units : placement[u] # NoOne => placement'[u] = placement[u],
         \A w \in Workers, u \in Units : u \in listed'[w] => u \in listed[w] \/ placement'[u] = w,
         InPlacement(th[t])'
  PROVE  Agree'
<1>1. ASSUME NEW w \in Workers, NEW u \in Units, u \in listed'[w] PROVE placement'[u] = w
  BY <1>1, Numbers DEF Agree
<1>2. ASSUME NEW s \in Threads \ {t} PROVE InPlacement(th[s])'
  <2>1. InPlacement(th[s]) /\ Aims(th[s])
    BY DEF Agree, TypeInv, ThreadInv
  <2>2. th[s].pc = "add" => placement'[th[s].unit] = th[s].dest
    <3>1. ASSUME th[s].pc = "add" PROVE th[s].unit \in Units /\ th[s].dest \in Workers /\ placement[th[s].unit] = th[s].dest
      BY <2>1, <3>1 DEF InPlacement, Aims
    <3>2. th[s].dest \in Workers => th[s].dest # NoOne
      BY Numbers
    <3> QED
      BY <3>1, <3>2
  <2> QED
    BY <1>2, <2>1, <2>2 DEF InPlacement
<1> QED
  BY <1>1, <1>2 DEF Agree

LEMMA EventsKeep ==
  ASSUME NEW t \in Threads, Ensure(t) \/ Continue(t)
  PROVE  events' = events
<1>1. ASSUME NEW from, NEW next, Step(t, from, next) PROVE events' = events
  BY <1>1 DEF Step, bounds
<1>2. CASE Ensure(t)
  BY <1>1, <1>2 DEF Ensure
<1>3. CASE \/ CreateRow(t) \/ Keep(t) \/ Forget(t) \/ Unplace(t) \/ Unlist(t) \/ Unrow(t)
  BY <1>1, <1>3 DEF Goto, CreateRow, Keep, Forget, Unplace, Unlist, Unrow
<1>4. CASE PlaceNext(t) \/ AlreadyPlaced(t) \/ Place(t) \/ Choose(t) \/ PlaceRow(t) \/ Add(t)
  BY <1>1, <1>4 DEF PlaceNext, AlreadyPlaced, Place, Choose, PlaceRow, Add
<1>5. CASE \E pc \in {"choose", "choose move", "choose pair"} : Look(t, pc)
  BY <1>1, <1>5 DEF Look
<1>6. CASE Scan(t) \/ TakeOff(t) \/ MoveRow(t) \/ Released(t) \/ SlotNext(t) \/ MoveNext(t) \/ ChooseMove(t)
  BY <1>1, <1>6 DEF Goto, Scan, TakeOff, MoveRow, Released, SlotNext, MoveNext, ChooseMove
<1>7. CASE RebalanceNext(t) \/ ChoosePair(t)
  BY <1>1, <1>7 DEF RebalanceNext, ChoosePair
<1> QED
  BY <1>2, <1>3, <1>4, <1>5, <1>6, <1>7 DEF Continue

LEMMA AgreeStep ==
  ASSUME OnlyPlaces, TypeInv, TypeInv', Agree, [Next]_vars
  PROVE  Agree'
<1>0. ThreadInv /\ RowsType
  BY DEF TypeInv
<1> USE DEF cameras, slots
<1>1. CASE Environment
  BY <1>0, <1>1 DEF Environment, SlotChanges, SeenChanges, Event, RowsType, Agree
<1>2. ASSUME events = 0, NEW t \in Threads, Begin(t) PROVE Agree'
  <2>1. \A s \in Threads \ {t} : th'[s] = th[s]
    BY <1>0, <1>2, CallIs DEF Begin, Create, Rebalance, Update, Delete, Move, Retire
  <2>2. CASE Create(t)
    <3>1. /\ th'[t] = [At("create", "new row") EXCEPT !.unit = nextId']
          /\ UNCHANGED <<placement, listed, released>>
      BY <1>0, <2>2, CallIs DEF Create
    <3>2. InPlacement(th[t])'
      BY <3>1 DEF InPlacement, At, Idle
    <3> QED
      BY <1>2, <2>1, <3>1, <3>2, AgreeMoves
  <2>3. ASSUME NEW u \in Units, Update(t, u) PROVE Agree'
    <3>1. /\ th'[t] = [At("update", "keep") EXCEPT !.unit = u]
          /\ UNCHANGED <<placement, listed, released>>
      BY <1>0, <2>3, CallIs DEF Update
    <3>2. InPlacement(th[t])'
      BY <3>1 DEF InPlacement, At, Idle
    <3> QED
      BY <1>2, <2>1, <3>1, <3>2, AgreeMoves
  <2> QED
    BY <1>2, <2>2, <2>3 DEF Begin, OnlyPlaces, Rebalance, Delete, Move, Retire, Call
<1>3. ASSUME events = 0, NEW t \in Threads, Crash(t) PROVE Agree'
  <2>1. th'[t] = Idle /\ (\A s \in Threads \ {t} : th'[s] = th[s]) /\ UNCHANGED <<placement, listed, released>>
    BY <1>0, <1>3 DEF Crash, ThreadInv
  <2>2. InPlacement(th[t])'
    BY <2>1 DEF InPlacement, Idle
  <2> QED
    BY <1>3, <2>1, <2>2, AgreeMoves
<1>4. ASSUME events = 0, NEW t \in Threads, Ensure(t) \/ Continue(t) PROVE Agree'
  <2>0. th[t] \in Thread /\ Aims(th[t]) /\ InPlacement(th[t]) /\ released = {}
    BY <1>0, <1>4, ThreadFacts DEF Agree
  \* Steps that write neither a row nor an assignment.
  <2>1. ASSUME NEW from, NEW n, Step(t, from, n), UNCHANGED <<placement, listed, released>>,
               n.pc \in {"idle", "new row", "keep", "place next", "place", "choose", "place row",
                         "released", "slot next"},
               n.gones = {}
        PROVE  Agree'
    <3>1. th'[t] = n /\ \A s \in Threads \ {t} : th'[s] = th[s]
      BY <1>0, <2>1, StepIs
    <3>2. InPlacement(th[t])'
      BY <2>1, <3>1 DEF InPlacement
    <3> QED
      BY <1>4, <2>1, <3>1, <3>2, AgreeMoves
  <2>2. CASE Ensure(t)
    <3> DEFINE n == [At("ensure", "place next") EXCEPT !.queue = {u \in Units : cam[u] = "live"}]
    <3>1. n.pc = "place next" /\ n.gones = {}
      BY DEF At, Idle
    <3> HIDE DEF n
    <3> QED
      BY <2>1, <2>2, <3>1 DEF Ensure, n
  <2>3. CASE CreateRow(t)
    BY <2>0, <2>1, <2>3 DEF CreateRow, Goto, Thread, InPlacement
  <2>4. CASE Keep(t)
    BY <2>0, <2>1, <2>4, IdleFits DEF Keep, Thread, InPlacement, Idle
  <2>5. CASE PlaceNext(t)
    BY <2>0, <2>1, <2>5 DEF PlaceNext, Thread, InPlacement, At, Idle
  <2>6. CASE \/ AlreadyPlaced(t)
             \/ Choose(t) /\ ~(\E w \in th[t].pool : Free(t, w) > 0)
    <3>1. th[t].pc \in {"place", "choose"} /\ Step(t, th[t].pc, Resume(t)) /\ UNCHANGED <<placement, listed, released>>
      BY <2>6 DEF AlreadyPlaced, Choose, Step
    <3>2. th[t].job \in {"create", "ensure"} /\ th[t].gones = {}
      BY <2>0, <3>1 DEF Aims, InPlacement
    <3>3. Resume(t).pc \in {"idle", "place next"} /\ Resume(t).gones = {}
      BY <1>0, <3>2, ResumeFits
    <3> QED
      BY <2>1, <3>1, <3>3
  <2>7. CASE Place(t)
    BY <2>0, <2>1, <2>7 DEF Place, Thread, InPlacement
  <2>8. CASE Choose(t) /\ (\E w \in th[t].pool : Free(t, w) > 0)
    BY <2>0, <2>1, <2>8 DEF Choose, Thread, InPlacement
  <2>9. CASE PlaceRow(t)
    <3> DEFINE u == th[t].unit
               k == [th[t] EXCEPT !.pc = "add", !.dest = placement'[u]]
    <3>6. /\ Step(t, "place row", k)
          /\ placement' = [placement EXCEPT ![u] = IF @ = NoOne THEN th[t].dest ELSE @]
          /\ UNCHANGED <<listed, released>>
      BY <2>9 DEF PlaceRow
    <3>7. th[t].pc = "place row" /\ th'[t] = k /\ \A s \in Threads \ {t} : th'[s] = th[s]
      <4> HIDE DEF k
      <4> QED
        BY <1>0, <3>6, StepIs
    <3>1. /\ th[t].pc = "place row" /\ th'[t] = k /\ \A s \in Threads \ {t} : th'[s] = th[s]
          /\ placement' = [placement EXCEPT ![u] = IF @ = NoOne THEN th[t].dest ELSE @]
          /\ UNCHANGED <<listed, released>>
      BY <3>6, <3>7
    <3>2. th'[t].pc = "add" /\ th'[t].dest = placement'[u] /\ th'[t].unit = u /\ th'[t].job = th[t].job
          /\ th'[t].gones = th[t].gones
      BY <2>0, <3>1 DEF Thread
    <3>3. th[t].job \in {"create", "ensure"} /\ th[t].gones = {}
      BY <2>0, <3>1 DEF Aims, InPlacement
    <3>4. InPlacement(th[t])'
      BY <3>2, <3>3 DEF InPlacement
    <3>5. \A v \in Units : placement[v] # NoOne => placement'[v] = placement[v]
      BY <1>0, <3>1 DEF RowsType
    <3> QED
      BY <1>4, <3>1, <3>4, <3>5, AgreeMoves
  <2>10. CASE Add(t)
    <3>1. /\ th[t].pc = "add" /\ th'[t] = Resume(t) /\ \A s \in Threads \ {t} : th'[s] = th[s]
          /\ listed' = [listed EXCEPT ![th[t].dest] = @ \cup {th[t].unit}]
          /\ UNCHANGED <<placement, released>>
      BY <1>0, <2>10, StepIs DEF Add
    <3>2. th[t].job \in {"create", "ensure"} /\ placement[th[t].unit] = th[t].dest /\ th[t].gones = {}
      BY <2>0, <3>1 DEF InPlacement
    <3>3. Resume(t).pc \in {"idle", "place next"} /\ Resume(t).gones = {}
      BY <1>0, <3>2, ResumeFits
    <3>4. InPlacement(th[t])'
      BY <3>1, <3>3 DEF InPlacement
    <3>5. \A w \in Workers, u \in Units : u \in listed'[w] => u \in listed[w] \/ placement'[u] = w
      BY <1>0, <3>1, <3>2 DEF RowsType
    <3> QED
      BY <1>4, <3>1, <3>4, <3>5, AgreeMoves
  <2>11. CASE \E pc \in {"choose", "choose move", "choose pair"} : Look(t, pc)
    <3>1. PICK pc \in {"choose", "choose move", "choose pair"} : Look(t, pc)
      BY <2>11
    <3> DEFINE w == First(th[t].todo)
               n == [th[t] EXCEPT !.load[w] = Cardinality(listed[w]), !.todo = @ \ {w}]
    <3>2. Step(t, pc, n) /\ UNCHANGED <<placement, listed, released>> /\ th[t].pc = pc
      BY <3>1 DEF Look, Step
    <3>3. n.pc = th[t].pc /\ n.gones = th[t].gones
      BY <2>0 DEF Thread
    <3> HIDE DEF n
    <3> QED
      BY <2>0, <2>1, <3>2, <3>3 DEF InPlacement
  \* Nothing is released, so nothing is moved.
  <2>12. CASE Released(t)
    BY <2>0, <2>1, <2>12 DEF Released, Thread, InPlacement
  <2>13. CASE SlotNext(t)
    BY <2>0, <2>1, <2>13 DEF SlotNext, InPlacement, Idle
  <2>14. CASE \/ Forget(t) \/ Unplace(t) \/ Unlist(t) \/ Unrow(t) \/ Scan(t) \/ TakeOff(t) \/ MoveRow(t)
              \/ MoveNext(t) \/ ChooseMove(t) \/ RebalanceNext(t) \/ ChoosePair(t)
    BY <2>0, <2>14 DEF InPlacement, Forget, Unplace, Unlist, Unrow, Scan, TakeOff, MoveRow, MoveNext,
                       ChooseMove, RebalanceNext, ChoosePair, Goto, Step
  <2> QED
    BY <1>4, <2>2, <2>3, <2>4, <2>5, <2>6, <2>7, <2>8, <2>9, <2>10, <2>11, <2>12, <2>13, <2>14 DEF Continue
<1>5. CASE UNCHANGED vars
  BY <1>5 DEF vars, bounds, Agree, InPlacement
<1>6. CASE Next /\ events # 0
  <2>1. ASSUME NEW t \in Threads, Begin(t) PROVE events' = events
    BY <2>1 DEF Begin, Create, Update, Delete, Move, Rebalance, Retire, Call
  <2>2. ASSUME NEW t \in Threads, Ensure(t) \/ Continue(t) PROVE events' = events
    BY <2>2, EventsKeep
  <2>3. ASSUME NEW t \in Threads, Crash(t) PROVE events' = events
    BY <2>3 DEF Crash
  <2>4. CASE Environment
    BY <1>0, <2>4 DEF Environment, SlotChanges, SeenChanges, Event, RowsType, Agree
  <2> QED
    BY <1>6, <2>1, <2>2, <2>3, <2>4 DEF Agree, Next
<1> QED
  BY <1>1, <1>2, <1>3, <1>4, <1>5, <1>6 DEF Next

LEMMA AgreeInit == Init => Agree
<1> SUFFICES ASSUME Init PROVE Agree
  OBVIOUS
<1>1. InPlacement(Idle)
  BY DEF InPlacement, Idle
<1>2. \A t \in Threads : th[t] = Idle
  BY DEF Init
<1> QED
  BY <1>1, <1>2 DEF Init, Agree

\* Two controllers agree by check-and-set, also when one of them dies: as long as
\* cameras are only placed, no worker reads one in its assignment but the worker
\* its row names -- of any number of threads, wherever each of them is.
THEOREM PlacersAlwaysAgree ==
  ASSUME OnlyPlaces
  PROVE  Spec => []PlacersAgree
<1>1. TypeInv /\ TypeInv' /\ Agree /\ [Next]_vars => Agree'
  BY AgreeStep
<1>2. Init => Agree
  BY AgreeInit
<1>3. TypeInv /\ Agree => PlacersAgree
  BY AgreeSays
<1> QED
  BY <1>1, <1>2, <1>3, TypeAlways, PTL DEF Spec

-----------------------------------------------------------------------------
(* One method at a time *)

OneAtATime == Serial /\ MaxCrashes = 0

Settled(u) == \A w \in Workers : u \in listed[w] <=> placement[u] = w
Forgotten(u) == placement[u] = NoOne /\ retention[u] # "days"
Lists(u, w) == w \in Workers /\ u \in listed[w]

\* What the rows say while one thread is at work: all is settled but the camera
\* that it is taking off, moving or deleting, and of that one it knows enough.
Rows(r) ==
  /\ \A u \in Units : Settled(u) \/ (r.pc \in {"unrow", "add", "scan"} /\ r.unit = u)
  /\ \A u \in Units : cam[u] = "deleted" =>
       Forgotten(u) \/ (r.pc \in {"forget", "unplace", "unlist", "unrow"} /\ r.unit = u)
  /\ r.pc \in {"unplace", "unlist", "unrow"} => retention[r.unit] # "days"
  /\ r.pc = "unlist" => placement[r.unit] = r.dest
  /\ r.pc = "unrow" => \A w \in Workers : ~Lists(r.unit, w)
  /\ r.pc = "add" => placement[r.unit] = r.dest /\ \A w \in Workers : Lists(r.unit, w) => w = r.dest
  /\ r.pc = "scan" => /\ \A w \in Workers : Lists(r.unit, w) => w \in r.found \/ w \in r.todo \/ w = r.dest
                      /\ \E v \in Workers : \A w \in Workers : Lists(r.unit, w) => w = v
  /\ r.pc \in {"new row", "keep", "place", "choose", "place row", "add", "scan", "choose move"} =>
       cam[r.unit] # "deleted"
  /\ r.pc = "new row" => r.unit <= nextId
  /\ \A u \in r.queue : cam[u] # "deleted"

OneAtWork == \A s, t \in Threads : th[s].pc # "idle" /\ th[t].pc # "idle" => s = t
Numbered == \A u \in Units : u > nextId => cam[u] = "none"

SerialInv ==
  /\ OneAtWork /\ Numbered
  /\ \A t \in Threads : th[t].pc # "idle" => Rows(th[t])
  /\ Quiet => Rows(Idle)

LEMMA IdleRows == Rows(Idle) <=> \A u \in Units : Settled(u) /\ (cam[u] = "deleted" => Forgotten(u))
BY DEF Rows, Idle

LEMMA SerialSays ==
  ASSUME TypeInv, SerialInv
  PROVE  AssignmentFollowsRow /\ NeverListedTwice /\ DeletedIsForgotten
<1>0. RowsType
  BY DEF TypeInv
<1>1. ASSUME Quiet, NEW u \in Units
      PROVE  Where(u) = {placement[u]} \ {NoOne} /\ (cam[u] = "deleted" => Where(u) = {} /\ retention[u] # "days")
  <2>1. Settled(u) /\ (cam[u] = "deleted" => Forgotten(u))
    BY <1>1, IdleRows DEF SerialInv
  <2>2. placement[u] \in Workers \cup {NoOne}
    BY <1>0 DEF RowsType
  <2>3. \A w : w \in Where(u) <=> w \in Workers /\ placement[u] = w
    BY <2>1 DEF Settled, Where
  <2>4. Where(u) = {placement[u]} \ {NoOne}
    BY <2>2, <2>3, Numbers
  <2> QED
    BY <2>1, <2>4 DEF Forgotten
<1>2. ASSUME NEW u \in Units PROVE Cardinality(Where(u)) <= 1
  <2>1. PICK v \in Workers : \A w \in Workers : Lists(u, w) => w = v
    <3>1. CASE Settled(u)
      <4>1. \A w \in Workers : Lists(u, w) => w = placement[u]
        BY <3>1 DEF Settled, Lists
      <4>2. PICK v \in Workers : placement[u] \in Workers => v = placement[u]
        BY Numbers
      <4> QED
        BY <4>1, <4>2
    <3>2. CASE ~Settled(u)
      <4>1. ~Quiet
        BY <3>2, IdleRows DEF SerialInv
      <4>2. PICK t \in Threads : th[t].pc # "idle" /\ Rows(th[t])
        BY <4>1 DEF Quiet, SerialInv
      <4>3. th[t].pc \in {"unrow", "add", "scan"} /\ th[t].unit = u
        BY <3>2, <4>2 DEF Rows
      <4>4. th[t].pc = "add" => th[t].dest \in Workers
        BY DEF TypeInv, ThreadInv, Aims
      <4> QED
        BY <4>2, <4>3, <4>4, Numbers DEF Rows
    <3> QED
      BY <3>1, <3>2
  <2>2. Where(u) \in SUBSET {v}
    BY <2>1 DEF Where, Lists
  <2>3. IsFiniteSet({v}) /\ Cardinality({v}) = 1
    BY FS_Singleton
  <2>4. Cardinality(Where(u)) <= Cardinality({v})
    BY <2>2, <2>3, FS_Subset
  <2> QED
    BY <2>3, <2>4
<1> QED
  BY <1>1, <1>2 DEF AssignmentFollowsRow, NeverListedTwice, DeletedIsForgotten

\* The one that is at work, or that begins when nobody is.
LEMMA SerialMoves ==
  ASSUME TypeInv, SerialInv, NEW t \in Threads, th[t].pc # "idle" \/ Quiet,
         \A s \in Threads \ {t} : th'[s] = th[s],
         Rows(th[t])', Numbered'
  PROVE  SerialInv'
<1>1. \A s \in Threads \ {t} : th'[s].pc = "idle"
  BY DEF SerialInv, OneAtWork, Quiet
<1>2. OneAtWork'
  BY <1>1 DEF OneAtWork
<1>3. ASSUME NEW s \in Threads, th'[s].pc # "idle" PROVE Rows(th[s])'
  BY <1>1, <1>3
<1>4. ASSUME Quiet' PROVE Rows(Idle)'
  <2>1. th'[t].pc = "idle"
    BY <1>4 DEF Quiet
  <2>2. \A u \in Units : Settled(u)' /\ (cam'[u] = "deleted" => Forgotten(u)')
    BY <2>1 DEF Rows
  <2> QED
    BY <2>2, IdleRows DEF Rows, Idle
<1> QED
  BY <1>2, <1>3, <1>4 DEF SerialInv

LEMMA SameRows ==
  ASSUME UNCHANGED <<cameras, placement, listed>>, NEW r, Rows(r), NEW t, th'[t] = r
  PROVE  Rows(th[t])'
BY DEF Rows, Settled, Forgotten, Lists, cameras

LEMMA SerialReads ==
  ASSUME TypeInv, SerialInv, NEW t \in Threads, NEW from, NEW next, Step(t, from, next),
         from # "idle" \/ Quiet, UNCHANGED <<cameras, placement, listed>>, Rows(next)
  PROVE  SerialInv'
<1>1. th[t].pc = from /\ th'[t] = next /\ \A s \in Threads \ {t} : th'[s] = th[s]
  BY StepIs DEF TypeInv
<1>2. Rows(th[t])'
  BY <1>1, SameRows
<1>3. Numbered'
  BY DEF SerialInv, Numbered, cameras
<1> QED
  BY <1>1, <1>2, <1>3, SerialMoves

LEMMA SerialCalls ==
  ASSUME OneAtATime, TypeInv, SerialInv, NEW t \in Threads, NEW m, NEW next, Call(t, m, next),
         UNCHANGED <<cameras, placement, listed>>, Rows(Idle) => Rows(next)
  PROVE  SerialInv'
<1>1. Quiet /\ th'[t] = next /\ \A s \in Threads \ {t} : th'[s] = th[s]
  BY CallIs DEF TypeInv, OneAtATime
<1>2. Rows(next)
  BY <1>1 DEF SerialInv
<1>3. Rows(th[t])'
  BY <1>1, <1>2, SameRows
<1>4. Numbered'
  BY DEF SerialInv, Numbered, cameras
<1> QED
  BY <1>1, <1>3, <1>4, SerialMoves

\* With no camera in hand.
LEMMA RestRows ==
  ASSUME NEW r, Rows(Idle),
         r.pc \in {"idle", "place next", "move next", "rebalance", "released", "slot next", "choose pair"},
         \A u \in r.queue : cam[u] # "deleted"
  PROVE  Rows(r)
BY IdleRows DEF Rows

LEMMA RestIdle ==
  ASSUME NEW r, Rows(r), r.pc \notin {"forget", "unplace", "unlist", "unrow", "add", "scan"}
  PROVE  Rows(Idle)
BY IdleRows DEF Rows

LEMMA ResumeRows ==
  ASSUME TypeInv, NEW t \in Threads, Rows(th[t]), Rows(Idle)
  PROVE  Rows(Resume(t))
<1>1. PICK r : r = Resume(t)
  OBVIOUS
<1>2. \A u \in r.queue : cam[u] # "deleted"
  BY <1>1, ResumeFits DEF TypeInv, Rows
<1>3. r.pc \in {"idle", "place next", "move next", "rebalance", "released", "slot next", "choose pair"}
  BY <1>1, ResumeFits DEF TypeInv
<1>4. Rows(r)
  BY <1>2, <1>3, IdleRows DEF Rows
<1> QED
  BY <1>1, <1>4

\* A move begins: every assignment is still to be read.
LEMMA MovingRows ==
  ASSUME TypeInv, Rows(Idle), NEW r \in Thread, NEW u \in Units, NEW to \in Workers,
         r.job \in {"move", "redistribute", "rebalance"}, r.job = "rebalance" => r.pool # {},
         cam[u] # "deleted", \A v \in r.queue : cam[v] # "deleted"
  PROVE  Rows(Moving(r, u, to))
<1> DEFINE k == Moving(r, u, to)
<1>1. k.pc = "scan" /\ k.unit = u /\ k.dest = to /\ k.todo = Workers /\ k.queue = r.queue
  BY MovingFits
<1> HIDE DEF k
<1>2. \A v \in Units : Settled(v) /\ (cam[v] = "deleted" => Forgotten(v))
  BY IdleRows
<1>3. \E v \in Workers : \A w \in Workers : Lists(u, w) => w = v
  <2>1. placement[u] \in Workers \cup {NoOne} /\ Settled(u)
    BY <1>2 DEF TypeInv, RowsType
  <2> QED
    BY <2>1, Numbers DEF Settled, Lists
<1>4. Rows(k)
  BY <1>1, <1>2, <1>3 DEF Rows
<1> QED
  BY <1>4 DEF k

\* What the thread at work knows of its own camera.
LEMMA AtWork ==
  ASSUME TypeInv, SerialInv, NEW t \in Threads, th[t].pc # "idle"
  PROVE  /\ Rows(th[t]) /\ Numbered /\ ThreadInv /\ RowsType /\ th[t] \in Thread /\ Aims(th[t])
         /\ th[t].pc \notin {"forget", "unplace", "unlist", "unrow", "add", "scan"} => Rows(Idle)
<1>1. Rows(th[t]) /\ Numbered
  BY DEF SerialInv
<1>2. ThreadInv /\ RowsType /\ th[t] \in Thread /\ Aims(th[t])
  BY ThreadFacts DEF TypeInv
<1>3. ASSUME th[t].pc \notin {"forget", "unplace", "unlist", "unrow", "add", "scan"} PROVE Rows(Idle)
  BY <1>1, <1>3, IdleRows DEF Rows
<1> QED
  BY <1>1, <1>2, <1>3

LEMMA WorkIs ==
  ASSUME TypeInv, SerialInv, NEW t \in Threads, NEW from, NEW n, Step(t, from, n), from # "idle"
  PROVE  /\ th[t].pc = from /\ th'[t] = n /\ \A s \in Threads \ {t} : th'[s] = th[s]
         /\ Rows(th[t]) /\ th[t] \in Thread
         /\ from \in {"new row", "keep", "forget", "unplace", "unlist", "unrow", "place", "choose",
                      "place row", "add", "scan", "choose move"} => th[t].unit \in Units
         /\ from \in {"unlist", "unrow", "place row", "add", "scan"} => th[t].dest \in Workers
<1>1. th[t].pc = from /\ th'[t] = n /\ \A s \in Threads \ {t} : th'[s] = th[s]
  BY StepIs DEF TypeInv
<1>2. Rows(th[t]) /\ th[t] \in Thread /\ Aims(th[t])
  BY <1>1, AtWork
<1> QED
  BY <1>1, <1>2 DEF Aims

LEMMA SerialCamera ==
  ASSUME OneAtATime, TypeInv, SerialInv, NEW t \in Threads,
         \/ Create(t) \/ CreateRow(t) \/ Keep(t) \/ Forget(t) \/ Unplace(t) \/ Unlist(t) \/ Unrow(t)
         \/ \E u \in Units : Update(t, u) \/ Delete(t, u)
  PROVE  SerialInv'
<1>0. ThreadInv /\ RowsType /\ Numbered
  BY DEF TypeInv, SerialInv
<1>1. CASE Create(t)
  <2> DEFINE k == [At("create", "new row") EXCEPT !.unit = nextId']
  <2>1. nextId < MaxUnits /\ nextId' = nextId + 1 /\ Call(t, "create", k) /\ UNCHANGED <<cam, retention, placement, listed>>
    BY <1>1 DEF Create
  <2>2. k.pc = "new row" /\ k.unit = nextId' /\ k.queue = {}
    BY DEF At, Idle
  <2> HIDE DEF k
  <2>3. Quiet /\ th'[t] = k /\ \A s \in Threads \ {t} : th'[s] = th[s]
    BY <1>0, <2>1, CallIs DEF OneAtATime
  <2>4. \A u \in Units : Settled(u) /\ (cam[u] = "deleted" => Forgotten(u))
    BY <2>3, IdleRows DEF SerialInv
  <2>5. nextId \in Nat /\ MaxUnits \in Nat
    BY <1>0, ControllerAssumption DEF RowsType
  <2>6. nextId' \in Units /\ cam[nextId'] = "none" /\ nextId' <= nextId'
    <3>1. nextId' \in Units /\ nextId' > nextId /\ nextId' <= nextId'
      BY <2>1, <2>5 DEF Units
    <3> QED
      BY <1>0, <3>1 DEF Numbered
  <2>7. Rows(th[t])'
    <3>1. \A u \in Units : Settled(u)' /\ (cam'[u] = "deleted" => Forgotten(u)')
      BY <2>1, <2>4 DEF Settled, Forgotten
    <3>2. th'[t].pc = "new row" /\ th'[t].unit = nextId' /\ th'[t].queue = {}
      BY <2>2, <2>3
    <3>3. cam'[nextId'] = "none"
      BY <2>1, <2>6
    <3> QED
      BY <2>6, <3>1, <3>2, <3>3 DEF Rows
  <2>8. Numbered'
    BY <1>0, <2>1, <2>5 DEF Numbered, Units
  <2> QED
    BY <2>3, <2>7, <2>8, SerialMoves
<1>2. ASSUME NEW u \in Units, Update(t, u) PROVE SerialInv'
  <2> DEFINE k == [At("update", "keep") EXCEPT !.unit = u]
  <2>1. cam[u] = "live" /\ Call(t, "update", k) /\ UNCHANGED <<cameras, placement, listed>>
    BY <1>2 DEF Update
  <2>2. k.pc = "keep" /\ k.unit = u /\ k.queue = {}
    BY DEF At, Idle
  <2> HIDE DEF k
  <2>3. Rows(Idle) => Rows(k)
    BY <2>1, <2>2, IdleRows DEF Rows
  <2> QED
    BY <2>1, <2>3, SerialCalls
<1>3. ASSUME NEW u \in Units, Delete(t, u) PROVE SerialInv'
  <2> DEFINE k == [At("delete", "forget") EXCEPT !.unit = u]
  <2>1. /\ cam[u] # "none" /\ Call(t, "delete", k) /\ cam' = [cam EXCEPT ![u] = "deleted"]
        /\ UNCHANGED <<nextId, retention, placement, listed>>
    BY <1>3 DEF Delete
  <2>2. k.pc = "forget" /\ k.unit = u /\ k.queue = {}
    BY DEF At, Idle
  <2> HIDE DEF k
  <2>3. Quiet /\ th'[t] = k /\ \A s \in Threads \ {t} : th'[s] = th[s]
    BY <1>0, <2>1, CallIs DEF OneAtATime
  <2>4. \A v \in Units : Settled(v) /\ (cam[v] = "deleted" => Forgotten(v))
    BY <2>3, IdleRows DEF SerialInv
  <2>5. \A v \in Units : v # u => cam'[v] = cam[v]
    BY <1>0, <2>1 DEF RowsType
  <2>6. Rows(th[t])'
    <3>1. listed' = listed /\ placement' = placement /\ retention' = retention
      BY <2>1
    <3>2. \A v \in Units : Settled(v)' /\ (cam'[v] = "deleted" => Forgotten(v)' \/ k.unit = v)
      BY <2>2, <2>4, <2>5, <3>1 DEF Settled, Forgotten
    <3> QED
      BY <2>2, <2>3, <3>2 DEF Rows
  <2>7. Numbered'
    BY <1>0, <2>1, <2>5 DEF Numbered
  <2> QED
    BY <2>3, <2>6, <2>7, SerialMoves
<1>5. CASE CreateRow(t)
  <2> DEFINE k == [th[t] EXCEPT !.pc = "keep"]
  <2>1. /\ Step(t, "new row", k) /\ cam' = [cam EXCEPT ![th[t].unit] = "live"]
        /\ UNCHANGED <<nextId, retention, placement, listed>>
    BY <1>5 DEF CreateRow, Goto
  <2>2. /\ th[t].pc = "new row" /\ th'[t] = k /\ \A s \in Threads \ {t} : th'[s] = th[s]
        /\ Rows(th[t]) /\ th[t] \in Thread /\ th[t].unit \in Units
    <3> HIDE DEF k
    <3> QED
      BY <2>1, WorkIs
  <2>3. k.pc = "keep" /\ k.unit = th[t].unit /\ k.queue = th[t].queue
    BY <2>2 DEF Thread
  <2> HIDE DEF k
  <2>4. \A u \in Units : cam'[u] = IF u = th[t].unit THEN "live" ELSE cam[u]
    BY <1>0, <2>1 DEF RowsType
  <2>5. th[t].queue \in SUBSET Units
    BY <1>0, ThreadFacts
  <2>6. Rows(th[t])'
    <3>1. \A u \in Units : Settled(u) /\ (cam[u] = "deleted" => Forgotten(u))
      BY <2>2 DEF Rows
    <3>2. \A u \in Units : Settled(u)' /\ (cam'[u] = "deleted" => Forgotten(u)')
      <4>1. listed' = listed /\ placement' = placement /\ retention' = retention
        BY <2>1
      <4>2. \A u \in Units : cam'[u] = "deleted" => cam[u] = "deleted"
        BY <2>4
      <4> QED
        BY <3>1, <4>1, <4>2 DEF Settled, Forgotten
    <3>3. \A u \in k.queue : cam'[u] # "deleted"
      BY <2>2, <2>3, <2>4, <2>5 DEF Rows
    <3>4. cam'[k.unit] # "deleted"
      BY <2>2, <2>3, <2>4
    <3> QED
      BY <2>2, <2>3, <3>2, <3>3, <3>4 DEF Rows
  <2>7. nextId \in Nat /\ Units \subseteq Nat /\ th[t].unit <= nextId
    <3>1. nextId \in Nat
      BY <1>0 DEF RowsType
    <3>2. th[t].unit <= nextId
      BY <2>2 DEF Rows
    <3> QED
      BY <3>1, <3>2 DEF Units
  <2>8. Numbered'
    <3>1. ASSUME NEW u \in Units, u > nextId PROVE cam'[u] = "none"
      <4>1. u # th[t].unit
        BY <2>7, <3>1
      <4> QED
        BY <1>0, <2>4, <3>1, <4>1 DEF Numbered
    <3>2. nextId' = nextId
      BY <2>1
    <3> QED
      BY <3>1, <3>2 DEF Numbered
  <2> QED
    BY <2>2, <2>6, <2>8, SerialMoves
<1>6. CASE Keep(t)
  <2> DEFINE k == IF th[t].job = "create" THEN [th[t] EXCEPT !.pc = "place"] ELSE Idle
  <2>1. /\ Step(t, "keep", k) /\ retention' = [retention EXCEPT ![th[t].unit] = "days"]
        /\ UNCHANGED <<nextId, cam, placement, listed>>
    BY <1>6 DEF Keep
  <2>2. /\ th[t].pc = "keep" /\ th'[t] = k /\ \A s \in Threads \ {t} : th'[s] = th[s]
        /\ Rows(th[t]) /\ th[t] \in Thread /\ th[t].unit \in Units
    <3> HIDE DEF k
    <3> QED
      BY <2>1, WorkIs
  <2>3. /\ k.pc \in {"place", "idle"} /\ (k.pc = "place" => k.unit = th[t].unit)
        /\ (k.queue = th[t].queue \/ k.queue = {})
    BY <2>2 DEF Thread, Idle
  <2> HIDE DEF k
  <2>4. \A u \in Units : u # th[t].unit => retention'[u] = retention[u]
    BY <1>0, <2>1 DEF RowsType
  <2>5. Rows(th[t])'
    <3>1. listed' = listed /\ placement' = placement /\ cam' = cam
      BY <2>1
    <3>2. \A u \in Units : Settled(u) /\ (cam[u] = "deleted" => Forgotten(u) /\ u # th[t].unit)
      BY <2>2 DEF Rows
    <3>3. \A u \in Units : Settled(u)' /\ (cam'[u] = "deleted" => Forgotten(u)')
      BY <2>4, <3>1, <3>2 DEF Settled, Forgotten
    <3>4. \A u \in k.queue : cam'[u] # "deleted"
      BY <2>2, <2>3, <3>1 DEF Rows
    <3>5. k.pc = "place" => cam'[k.unit] # "deleted"
      BY <2>2, <2>3, <3>1 DEF Rows
    <3> QED
      BY <2>2, <2>3, <3>3, <3>4, <3>5 DEF Rows
  <2>6. Numbered'
    BY <1>0, <2>1 DEF Numbered
  <2> QED
    BY <2>2, <2>5, <2>6, SerialMoves
<1>7. CASE Forget(t)
  <2> DEFINE k == [th[t] EXCEPT !.pc = "unplace"]
  <2>1. /\ Step(t, "forget", k) /\ retention' = [retention EXCEPT ![th[t].unit] = IF @ = "none" THEN @ ELSE "zero"]
        /\ UNCHANGED <<nextId, cam, placement, listed>>
    BY <1>7 DEF Forget, Goto
  <2>2. /\ th[t].pc = "forget" /\ th'[t] = k /\ \A s \in Threads \ {t} : th'[s] = th[s]
        /\ Rows(th[t]) /\ th[t] \in Thread /\ th[t].unit \in Units
    <3> HIDE DEF k
    <3> QED
      BY <2>1, WorkIs
  <2>3. k.pc = "unplace" /\ k.unit = th[t].unit /\ k.queue = th[t].queue
    BY <2>2 DEF Thread
  <2> HIDE DEF k
  <2>4. \A u \in Units : IF u = th[t].unit THEN retention'[u] # "days" ELSE retention'[u] = retention[u]
    BY <1>0, <2>1 DEF RowsType
  <2>5. Rows(th[t])'
    BY <2>1, <2>2, <2>3, <2>4 DEF Rows, Settled, Forgotten
  <2>6. Numbered'
    BY <1>0, <2>1 DEF Numbered
  <2> QED
    BY <2>2, <2>5, <2>6, SerialMoves
<1>8. CASE Unplace(t)
  <2> DEFINE w == placement[th[t].unit]
             k == IF w = NoOne THEN Idle ELSE [th[t] EXCEPT !.pc = "unlist", !.dest = w]
  <2>1. Step(t, "unplace", k) /\ UNCHANGED <<cameras, placement, listed>>
    BY <1>8 DEF Unplace
  <2>2. th[t].pc = "unplace" /\ Rows(th[t]) /\ th[t] \in Thread /\ th[t].unit \in Units
    <3> HIDE DEF k
    <3> QED
      BY <2>1, WorkIs
  <2>3. CASE w = NoOne
    <3>1. Rows(Idle)
      BY <2>2, <2>3, IdleRows DEF Rows, Forgotten
    <3> QED
      BY <2>1, <2>3, <3>1, SerialReads
  <2>4. CASE w # NoOne
    <3>1. k.pc = "unlist" /\ k.unit = th[t].unit /\ k.queue = th[t].queue /\ k.dest = w
      BY <2>2, <2>4 DEF Thread
    <3> HIDE DEF k
    <3>2. Rows(k)
      BY <2>2, <3>1 DEF Rows
    <3> QED
      BY <2>1, <3>2, SerialReads
  <2> QED
    BY <2>3, <2>4
<1>9. CASE Unlist(t)
  <2> DEFINE k == [th[t] EXCEPT !.pc = "unrow"]
  <2>1. /\ Step(t, "unlist", k) /\ listed' = [listed EXCEPT ![th[t].dest] = @ \ {th[t].unit}]
        /\ UNCHANGED <<cameras, placement>>
    BY <1>9 DEF Unlist, Goto
  <2>2. /\ th[t].pc = "unlist" /\ th'[t] = k /\ \A s \in Threads \ {t} : th'[s] = th[s]
        /\ Rows(th[t]) /\ th[t] \in Thread /\ th[t].unit \in Units /\ th[t].dest \in Workers
    <3> HIDE DEF k
    <3> QED
      BY <2>1, WorkIs
  <2>3. k.pc = "unrow" /\ k.unit = th[t].unit /\ k.queue = th[t].queue
    BY <2>2 DEF Thread
  <2> HIDE DEF k
  <2>4. \A w \in Workers : listed'[w] = IF w = th[t].dest THEN listed[w] \ {th[t].unit} ELSE listed[w]
    BY <1>0, <2>1 DEF RowsType
  <2>5. \A w \in Workers : th[t].unit \in listed[w] => w = th[t].dest
    BY <2>2 DEF Rows, Settled
  <2>6. Rows(th[t])'
    BY <2>1, <2>2, <2>3, <2>4, <2>5 DEF Rows, Settled, Forgotten, Lists, cameras
  <2>7. Numbered'
    BY <1>0, <2>1 DEF Numbered, cameras
  <2> QED
    BY <2>2, <2>6, <2>7, SerialMoves
<1>10. CASE Unrow(t)
  <2>1. /\ Step(t, "unrow", Idle) /\ placement' = [placement EXCEPT ![th[t].unit] = NoOne]
        /\ UNCHANGED <<cameras, listed>>
    BY <1>10 DEF Unrow
  <2>2. /\ th[t].pc = "unrow" /\ th'[t] = Idle /\ \A s \in Threads \ {t} : th'[s] = th[s]
        /\ Rows(th[t]) /\ th[t] \in Thread /\ th[t].unit \in Units
    BY <2>1, WorkIs
  <2>3. \A u \in Units : placement'[u] = IF u = th[t].unit THEN NoOne ELSE placement[u]
    BY <1>0, <2>1 DEF RowsType
  <2>4. \A u \in Units : Settled(u)' /\ (cam'[u] = "deleted" => Forgotten(u)')
    BY <2>1, <2>2, <2>3, Numbers DEF Rows, Settled, Forgotten, Lists, cameras
  <2>5. Rows(th[t])'
    BY <2>2, <2>4 DEF Rows, Idle
  <2>6. Numbered'
    BY <1>0, <2>1 DEF Numbered, cameras
  <2> QED
    BY <2>2, <2>5, <2>6, SerialMoves
<1> QED
  BY <1>1, <1>2, <1>3, <1>5, <1>6, <1>7, <1>8, <1>9, <1>10

\* With a camera in hand of which nothing is changed yet.
LEMMA HandRows ==
  ASSUME NEW r, Rows(Idle), r.pc \in {"place", "choose", "place row", "choose move"},
         cam[r.unit] # "deleted", \A u \in r.queue : cam[u] # "deleted"
  PROVE  Rows(r)
BY IdleRows DEF Rows

LEMMA SerialLook ==
  ASSUME TypeInv, SerialInv, NEW t \in Threads, NEW pc \in {"choose", "choose move", "choose pair"}, Look(t, pc)
  PROVE  SerialInv'
<1>0. th[t] \in Thread
  BY ThreadFacts DEF TypeInv
<1> DEFINE w == First(th[t].todo)
           n == Cardinality(listed[w])
           k == [th[t] EXCEPT !.load[w] = n, !.todo = @ \ {w}]
<1>1. Step(t, pc, k) /\ UNCHANGED <<cameras, placement, listed>>
  BY DEF Look
<1> HIDE DEF w, n
<1>2. k.pc = th[t].pc /\ k.unit = th[t].unit /\ k.queue = th[t].queue
  <2>1. k = [th[t] EXCEPT !.load = [th[t].load EXCEPT ![w] = n], !.todo = th[t].todo \ {w}]
    BY <1>0 DEF Thread
  <2> HIDE DEF k
  <2> QED
    BY <1>0, <2>1 DEF Thread
<1> HIDE DEF k
<1>3. th[t].pc = pc /\ Rows(th[t])
  BY <1>1, WorkIs
<1>4. Rows(k)
  BY <1>2, <1>3 DEF Rows
<1> QED
  BY <1>1, <1>4, SerialReads

LEMMA SerialPlace ==
  ASSUME OneAtATime, TypeInv, SerialInv, NEW t \in Threads,
         \/ Ensure(t) \/ PlaceNext(t) \/ AlreadyPlaced(t) \/ Place(t) \/ Choose(t) \/ PlaceRow(t) \/ Add(t)
         \/ \E pc \in {"choose", "choose move", "choose pair"} : Look(t, pc)
  PROVE  SerialInv'
<1>0. ThreadInv /\ RowsType /\ th[t] \in Thread
  BY ThreadFacts DEF TypeInv
<1>1. CASE Ensure(t)
  <2> DEFINE k == [At("ensure", "place next") EXCEPT !.queue = {u \in Units : cam[u] = "live"}]
  <2>1. Step(t, "idle", k) /\ Quiet /\ UNCHANGED <<cameras, placement, listed>>
    BY <1>1 DEF Ensure, OneAtATime
  <2>2. k.pc = "place next" /\ k.queue = {u \in Units : cam[u] = "live"}
    BY DEF At, Idle
  <2> HIDE DEF k
  <2>3. Rows(Idle) /\ \A u \in k.queue : cam[u] # "deleted"
    BY <2>1, <2>2 DEF SerialInv
  <2>4. Rows(k)
    BY <2>2, <2>3, RestRows
  <2> QED
    BY <2>1, <2>4, SerialReads
<1>2. CASE PlaceNext(t)
  <2> DEFINE n == IF th[t].queue = {} THEN At("redistribute", "released")
                  ELSE [th[t] EXCEPT !.pc = "place", !.unit = Min(th[t].queue), !.queue = @ \ {Min(@)}]
  <2>1. Step(t, "place next", n) /\ UNCHANGED <<cameras, placement, listed>>
    BY <1>2 DEF PlaceNext
  <2>2. th[t].pc = "place next" /\ Rows(th[t])
    <3> HIDE DEF n
    <3> QED
      BY <2>1, WorkIs
  <2>3. Rows(Idle)
    BY <2>2, RestIdle
  <2>4. CASE th[t].queue = {}
    <3>1. n.pc = "released" /\ n.queue = {}
      BY <2>4 DEF At, Idle
    <3> HIDE DEF n
    <3>2. Rows(n)
      BY <2>3, <3>1, RestRows
    <3> QED
      BY <2>1, <3>2, SerialReads
  <2>5. CASE th[t].queue # {}
    <3>1. Min(th[t].queue) \in th[t].queue
      BY <1>0, <2>5, ThreadFacts, Numbers
    <3>2. n.pc = "place" /\ n.unit = Min(th[t].queue) /\ n.queue \subseteq th[t].queue
      BY <1>0, <2>5 DEF Thread
    <3> HIDE DEF n
    <3>3. cam[n.unit] # "deleted" /\ \A u \in n.queue : cam[u] # "deleted"
      BY <2>2, <3>1, <3>2 DEF Rows
    <3>4. Rows(n)
      BY <2>3, <3>2, <3>3, HandRows
    <3> QED
      BY <2>1, <3>4, SerialReads
  <2> QED
    BY <2>4, <2>5
<1>3. CASE AlreadyPlaced(t)
  <2>1. Step(t, "place", Resume(t)) /\ UNCHANGED <<cameras, placement, listed>>
    BY <1>3 DEF AlreadyPlaced
  <2>2. th[t].pc = "place" /\ Rows(th[t])
    BY <2>1, WorkIs
  <2>3. Rows(Resume(t))
    BY <2>2, RestIdle, ResumeRows
  <2> QED
    BY <2>1, <2>3, SerialReads
<1>4. CASE Place(t)
  <2> DEFINE pool == Candidates(th[t].unit)
             k == [th[t] EXCEPT !.pc = "choose", !.pool = pool, !.todo = pool]
  <2>1. Step(t, "place", k) /\ UNCHANGED <<cameras, placement, listed>>
    BY <1>4 DEF Place
  <2>2. k.pc = "choose" /\ k.unit = th[t].unit /\ k.queue = th[t].queue
    BY <1>0 DEF Thread
  <2> HIDE DEF k
  <2>3. th[t].pc = "place" /\ Rows(th[t])
    BY <2>1, WorkIs
  <2>4. Rows(k)
    BY <2>2, <2>3 DEF Rows
  <2> QED
    BY <2>1, <2>4, SerialReads
<1>5. CASE Choose(t)
  <2>1. UNCHANGED <<cameras, placement, listed>>
    BY <1>5 DEF Choose
  <2>2. CASE \E w \in th[t].pool : Free(t, w) > 0
    <3> DEFINE k == [th[t] EXCEPT !.pc = "place row", !.dest = MostFree(t), !.pool = {}, !.load = Unread]
    <3>1. Step(t, "choose", k)
      BY <1>5, <2>2 DEF Choose
    <3>2. k.pc = "place row" /\ k.unit = th[t].unit /\ k.queue = th[t].queue
      BY <1>0 DEF Thread
    <3> HIDE DEF k
    <3>3. th[t].pc = "choose" /\ Rows(th[t])
      BY <3>1, WorkIs
    <3>4. Rows(k)
      BY <3>2, <3>3 DEF Rows
    <3> QED
      BY <2>1, <3>1, <3>4, SerialReads
  <2>3. CASE ~\E w \in th[t].pool : Free(t, w) > 0
    <3>1. Step(t, "choose", Resume(t))
      BY <1>5, <2>3 DEF Choose
    <3>2. th[t].pc = "choose" /\ Rows(th[t])
      BY <3>1, WorkIs
    <3>3. Rows(Resume(t))
      BY <3>2, RestIdle, ResumeRows
    <3> QED
      BY <2>1, <3>1, <3>3, SerialReads
  <2> QED
    BY <2>2, <2>3
<1>6. CASE PlaceRow(t)
  <2> DEFINE k == [th[t] EXCEPT !.pc = "add", !.dest = placement'[th[t].unit]]
  <2>1. /\ placement' = [placement EXCEPT ![th[t].unit] = IF @ = NoOne THEN th[t].dest ELSE @]
        /\ Step(t, "place row", k) /\ cam' = cam /\ retention' = retention /\ nextId' = nextId /\ listed' = listed
    BY <1>6 DEF PlaceRow, cameras
  <2>2. k.pc = "add" /\ k.unit = th[t].unit /\ k.queue = th[t].queue /\ k.dest = placement'[th[t].unit]
    BY <1>0 DEF Thread
  <2> HIDE DEF k
  <2>3. /\ th[t].pc = "place row" /\ th'[t] = k /\ \A s \in Threads \ {t} : th'[s] = th[s]
        /\ Rows(th[t]) /\ th[t].unit \in Units /\ th[t].dest \in Workers
    <3>1. Step(t, "place row", k) /\ "place row" # "idle"
      BY <2>1
    <3>2. th[t].pc = "place row" /\ th'[t] = k /\ (\A s \in Threads \ {t} : th'[s] = th[s]) /\ Rows(th[t])
      BY <3>1, WorkIs
    <3> QED
      BY <1>0, <3>2, ThreadFacts DEF Aims
  <2>0. PICK u \in Units : u = th[t].unit
    BY <2>3
  <2>4. \A v \in Units : Settled(v) /\ (cam[v] = "deleted" => Forgotten(v) /\ v # u)
    BY <2>0, <2>3 DEF Rows
  <2>5. \A v \in Units : v # u => placement'[v] = placement[v]
    BY <1>0, <2>0, <2>1 DEF RowsType
  <2>6. placement'[u] = placement[u] \/ placement[u] = NoOne
    BY <1>0, <2>0, <2>1, <2>3 DEF RowsType
  <2>7. \A v \in Units : (Settled(v)' \/ v = u) /\ (cam'[v] = "deleted" => Forgotten(v)')
    <3>1. \A v \in Units : v # u => Settled(v)'
      BY <2>1, <2>4, <2>5 DEF Settled
    <3>2. \A v \in Units : cam'[v] = "deleted" => Forgotten(v)'
      BY <2>1, <2>4, <2>5 DEF Forgotten
    <3> QED
      BY <3>1, <3>2
  <2>8. \A w \in Workers : Lists(u, w)' => w = placement'[u]
    <3>1. \A w \in Workers : u \in listed[w] <=> placement[u] = w
      BY <2>4 DEF Settled
    <3>2. listed' = listed
      BY <2>1
    <3> QED
      BY <2>6, <3>1, <3>2, Numbers DEF Lists
  <2>9. cam'[k.unit] # "deleted" /\ \A v \in k.queue : cam'[v] # "deleted"
    BY <2>1, <2>2, <2>3 DEF Rows
  <2>10. Rows(th[t])'
    BY <2>0, <2>2, <2>3, <2>7, <2>8, <2>9 DEF Rows
  <2>11. Numbered'
    BY <2>1 DEF SerialInv, Numbered
  <2> QED
    BY <2>3, <2>10, <2>11, SerialMoves
<1>7. CASE Add(t)
  <2> DEFINE k == Resume(t)
  <2>1. /\ listed' = [listed EXCEPT ![th[t].dest] = @ \cup {th[t].unit}] /\ Step(t, "add", k)
        /\ cam' = cam /\ retention' = retention /\ nextId' = nextId /\ placement' = placement
    BY <1>7 DEF Add, cameras
  <2>2. /\ k.pc \in {"idle", "place next", "move next", "rebalance"} /\ k.queue \in {{}, th[t].queue}
    BY <1>0, ResumeFits
  <2> HIDE DEF k
  <2>3. /\ th[t].pc = "add" /\ th'[t] = k /\ \A s \in Threads \ {t} : th'[s] = th[s]
        /\ Rows(th[t]) /\ th[t].unit \in Units /\ th[t].dest \in Workers
    <3>1. Step(t, "add", k) /\ "add" # "idle"
      BY <2>1
    <3>2. th[t].pc = "add" /\ th'[t] = k /\ (\A s \in Threads \ {t} : th'[s] = th[s]) /\ Rows(th[t])
      BY <3>1, WorkIs
    <3> QED
      BY <1>0, <3>2, ThreadFacts DEF Aims
  <2>0. PICK u \in Units, d \in Workers : u = th[t].unit /\ d = th[t].dest
    BY <2>3
  <2>4. \A w \in Workers : listed'[w] = IF w = d THEN listed[w] \cup {u} ELSE listed[w]
    BY <1>0, <2>0, <2>1 DEF RowsType
  <2>5. placement[u] = d /\ \A w \in Workers : u \in listed[w] => w = d
    BY <2>0, <2>3 DEF Rows, Lists
  <2>6. Settled(u)'
    <3>1. placement' = placement
      BY <2>1
    <3> QED
      BY <2>4, <2>5, <3>1 DEF Settled
  <2>7. \A v \in Units : v # u => Settled(v)
    BY <2>0, <2>3 DEF Rows
  <2>8. \A v \in Units : v # u => Settled(v)'
    <3>1. placement' = placement
      BY <2>1
    <3>2. \A v \in Units, w \in Workers : v # u => (v \in listed'[w] <=> v \in listed[w])
      BY <2>4
    <3> QED
      BY <2>7, <3>1, <3>2 DEF Settled
  <2>9. \A v \in Units : cam[v] = "deleted" => Forgotten(v)
    BY <2>3 DEF Rows
  <2>10. \A v \in Units : cam'[v] = "deleted" => Forgotten(v)'
    BY <2>1, <2>9 DEF Forgotten
  <2>11. \A v \in k.queue : cam'[v] # "deleted"
    BY <2>1, <2>2, <2>3 DEF Rows
  <2>12. Rows(th[t])'
    <3>1. \A v \in Units : Settled(v)'
      BY <2>6, <2>8
    <3> QED
      BY <2>2, <2>3, <3>1, <2>10, <2>11 DEF Rows
  <2>13. Numbered'
    BY <2>1 DEF SerialInv, Numbered
  <2> QED
    BY <2>3, <2>12, <2>13, SerialMoves
<1>8. CASE \E pc \in {"choose", "choose move", "choose pair"} : Look(t, pc)
  BY <1>8, SerialLook
<1> QED
  BY <1>1, <1>2, <1>3, <1>4, <1>5, <1>6, <1>7, <1>8

\* What a worker lists while all is settled is not deleted.
LEMMA ListedAreThere ==
  ASSUME Rows(Idle), NEW w \in Workers, NEW u \in Units, u \in listed[w]
  PROVE  cam[u] # "deleted"
<1>1. Settled(u) /\ (cam[u] = "deleted" => Forgotten(u))
  BY IdleRows
<1> QED
  BY <1>1, Numbers DEF Settled, Forgotten

\* move() itself: the looks at the assignments, the removals, the row.
LEMMA SerialScan ==
  ASSUME TypeInv, SerialInv, NEW t \in Threads, Scan(t) \/ TakeOff(t) \/ MoveRow(t)
  PROVE  SerialInv'
<1>0. ThreadInv /\ RowsType /\ th[t] \in Thread /\ Aims(th[t])
  BY ThreadFacts DEF TypeInv
<1>1. th[t].pc = "scan" /\ Rows(th[t]) /\ Numbered
  BY AtWork DEF Scan, TakeOff, MoveRow, Goto, Step
<1>2. PICK u \in Units, d \in Workers : u = th[t].unit /\ d = th[t].dest
  BY <1>0, <1>1 DEF Aims
<1>3. /\ \A v \in Units : (Settled(v) \/ v = u) /\ (cam[v] = "deleted" => Forgotten(v) /\ v # u)
      /\ \A w \in Workers : Lists(u, w) => w \in th[t].found \/ w \in th[t].todo \/ w = d
      /\ \E v \in Workers : \A w \in Workers : Lists(u, w) => w = v
      /\ \A v \in th[t].queue : cam[v] # "deleted"
  BY <1>1, <1>2 DEF Rows
<1>4. CASE Scan(t)
  <2> DEFINE w == First(th[t].todo)
             lists == th[t].unit \in listed[w] /\ w # th[t].dest
             f == IF lists THEN th[t].found \cup {w} ELSE th[t].found
             k == [th[t] EXCEPT !.found = f, !.todo = th[t].todo \ {w}]
  <2>1. UNCHANGED <<cameras, placement, listed>> /\ Step(t, "scan", k)
    BY <1>4 DEF Scan
  <2>2. \A v \in Workers : Lists(u, v) => v \in f \/ v \in th[t].todo \ {w} \/ v = d
    BY <1>2, <1>3 DEF Lists
  <2> HIDE DEF f, w
  <2>3. /\ k.pc = "scan" /\ k.unit = u /\ k.dest = d /\ k.queue = th[t].queue
        /\ k.found = f /\ k.todo = th[t].todo \ {w}
    BY <1>0, <1>1, <1>2 DEF Thread
  <2> HIDE DEF k
  <2>4. Rows(k)
    BY <1>3, <2>2, <2>3 DEF Rows
  <2> QED
    BY <2>1, <2>4, SerialReads
<1>5. CASE TakeOff(t)
  <2> DEFINE w == First(th[t].found)
             k == [th[t] EXCEPT !.found = @ \ {w}]
  <2>1. /\ th[t].todo = {} /\ th[t].found # {} /\ Step(t, "scan", k)
        /\ listed' = [listed EXCEPT ![w] = @ \ {th[t].unit}]
        /\ cam' = cam /\ retention' = retention /\ nextId' = nextId /\ placement' = placement
    BY <1>5 DEF TakeOff, cameras
  <2>2. PICK x : x = w
    OBVIOUS
  <2> HIDE DEF w
  <2>3. /\ k.pc = "scan" /\ k.unit = u /\ k.dest = d /\ k.queue = th[t].queue
        /\ k.found = th[t].found \ {x} /\ k.todo = {}
    BY <1>0, <1>1, <1>2, <2>1, <2>2 DEF Thread
  <2> HIDE DEF k
  <2>4. \A v \in Workers : listed'[v] = IF v = x THEN listed[v] \ {u} ELSE listed[v]
    BY <1>0, <1>2, <2>1, <2>2 DEF RowsType
  <2>5. th'[t] = k /\ \A s \in Threads \ {t} : th'[s] = th[s]
    BY <1>0, <2>1, StepIs
  <2>6. \A v \in Units : Settled(v)' \/ v = u
    <3>1. \A v \in Units, y \in Workers : v # u => (v \in listed'[y] <=> v \in listed[y])
      BY <2>4
    <3> QED
      BY <1>3, <2>1, <3>1 DEF Settled
  <2>7. \A v \in Units : cam'[v] = "deleted" => Forgotten(v)' /\ v # u
    BY <1>3, <2>1 DEF Forgotten
  <2>8. \A y \in Workers : Lists(u, y)' => Lists(u, y) /\ y # x
    BY <2>4 DEF Lists
  <2>9. \A y \in Workers : Lists(u, y)' => y \in k.found \/ y \in k.todo \/ y = d
    BY <1>3, <2>1, <2>3, <2>8
  <2>10. \E v \in Workers : \A y \in Workers : Lists(u, y)' => y = v
    BY <1>3, <2>8
  <2>11. cam'[u] # "deleted" /\ \A v \in k.queue : cam'[v] # "deleted"
    BY <1>3, <2>1, <2>3
  <2>12. Rows(th[t])'
    BY <2>3, <2>5, <2>6, <2>7, <2>9, <2>10, <2>11 DEF Rows
  <2>13. Numbered'
    BY <1>1, <2>1 DEF Numbered
  <2> QED
    BY <1>1, <2>5, <2>12, <2>13, SerialMoves
<1>6. CASE MoveRow(t)
  <2> DEFINE k == [th[t] EXCEPT !.pc = "add"]
  <2>1. /\ th[t].todo = {} /\ th[t].found = {} /\ Step(t, "scan", k)
        /\ placement' = [placement EXCEPT ![th[t].unit] = th[t].dest]
        /\ cam' = cam /\ retention' = retention /\ nextId' = nextId /\ listed' = listed
    BY <1>6 DEF MoveRow, Goto, cameras
  <2>2. k.pc = "add" /\ k.unit = u /\ k.dest = d /\ k.queue = th[t].queue
    BY <1>0, <1>2 DEF Thread
  <2> HIDE DEF k
  <2>3. placement'[u] = d /\ \A v \in Units : v # u => placement'[v] = placement[v]
    BY <1>0, <1>2, <2>1 DEF RowsType
  <2>4. th'[t] = k /\ \A s \in Threads \ {t} : th'[s] = th[s]
    BY <1>0, <2>1, StepIs
  <2>5. \A v \in Units : Settled(v)' \/ v = u
    BY <1>3, <2>1, <2>3 DEF Settled
  <2>6. \A v \in Units : cam'[v] = "deleted" => Forgotten(v)'
    BY <1>3, <2>1, <2>3 DEF Forgotten
  <2>7. \A y \in Workers : Lists(u, y)' => y = d
    BY <1>3, <2>1 DEF Lists
  <2>8. cam'[u] # "deleted" /\ \A v \in k.queue : cam'[v] # "deleted"
    BY <1>3, <2>1, <2>2
  <2>9. Rows(th[t])'
    BY <2>2, <2>3, <2>4, <2>5, <2>6, <2>7, <2>8 DEF Rows
  <2>10. Numbered'
    BY <1>1, <2>1 DEF Numbered
  <2> QED
    BY <1>1, <2>4, <2>9, <2>10, SerialMoves
<1> QED
  BY <1>4, <1>5, <1>6

\* What decides on a move: a call, redistribute, rebalance.
LEMMA SerialMove ==
  ASSUME OneAtATime, TypeInv, SerialInv, NEW t \in Threads,
         \/ \E u \in Units, w \in Workers : Move(t, u, w)
         \/ Scan(t) \/ TakeOff(t) \/ MoveRow(t) \/ Released(t) \/ SlotNext(t) \/ MoveNext(t) \/ ChooseMove(t)
         \/ Rebalance(t) \/ RebalanceNext(t) \/ ChoosePair(t)
  PROVE  SerialInv'
<1>0. ThreadInv /\ RowsType /\ th[t] \in Thread /\ Aims(th[t])
  BY ThreadFacts DEF TypeInv
<1>1. CASE \E u \in Units, w \in Workers : Move(t, u, w)
  <2>1. PICK u \in Units, w \in Workers : Move(t, u, w)
    BY <1>1
  <2> DEFINE a == At("move", "scan")
             k == Moving(a, u, w)
  <2>2. Call(t, "move", k) /\ "move" \in Calls /\ cam[u] = "live" /\ UNCHANGED <<cameras, placement, listed>>
    BY <2>1 DEF Move, Call
  <2>3. a \in Thread /\ a.job = "move" /\ a.queue = {}
    <3>1. "scan" \in Accesses /\ "move" \in Calls \cup {"none", "ensure", "redistribute"}
      BY <2>2 DEF Accesses
    <3> QED
      BY <3>1, AtFits, ZenonT(60)
  <2> HIDE DEF a
  <2>4. Rows(Idle) => Rows(k)
    BY <2>2, <2>3, MovingRows
  <2> HIDE DEF k
  <2> QED
    BY <2>2, <2>4, SerialCalls
<1>2. CASE Released(t)
  <2> DEFINE g == {w \in released : listed[w] # {}}
             k == [th[t] EXCEPT !.pc = "slot next", !.gones = g]
  <2>1. UNCHANGED <<cameras, placement, listed>> /\ Step(t, "released", k)
    BY <1>2 DEF Released
  <2> HIDE DEF g
  <2>2. k.pc = "slot next" /\ k.queue = th[t].queue
    BY <1>0 DEF Thread
  <2> HIDE DEF k
  <2>3. th[t].pc = "released" /\ Rows(th[t])
    BY <2>1, WorkIs
  <2>4. Rows(k)
    BY <2>2, <2>3 DEF Rows
  <2> QED
    BY <2>1, <2>4, SerialReads
<1>3. CASE SlotNext(t)
  <2>1. UNCHANGED <<cameras, placement, listed>> /\ th[t].pc = "slot next"
    BY <1>3 DEF SlotNext, Step
  <2>2. Rows(Idle)
    BY <2>1, AtWork
  <2>3. CASE th[t].gones = {}
    BY <1>3, <2>1, <2>2, <2>3, SerialReads DEF SlotNext
  <2>4. CASE th[t].gones # {}
    <3> DEFINE gone == First(th[t].gones)
               k == [th[t] EXCEPT !.pc = "move next", !.gones = @ \ {gone},
                                  !.pool = seen \ {gone}, !.queue = listed[gone]]
    <3>1. Step(t, "slot next", k)
      BY <1>3, <2>4 DEF SlotNext
    <3>2. gone \in Workers
      BY <1>0, <2>4, ThreadFacts, Numbers
    <3> HIDE DEF gone
    <3>3. \A u \in listed[gone] : cam[u] # "deleted"
      BY <1>0, <2>2, <3>2, ListedAreThere DEF RowsType
    <3>4. k.pc = "move next" /\ k.queue = listed[gone]
      BY <1>0 DEF Thread
    <3> HIDE DEF k
    <3>5. Rows(k)
      BY <2>2, <3>3, <3>4, RestRows
    <3> QED
      BY <2>1, <3>1, <3>5, SerialReads
  <2> QED
    BY <2>3, <2>4
<1>4. CASE MoveNext(t)
  <2>1. UNCHANGED <<cameras, placement, listed>> /\ th[t].pc = "move next"
    BY <1>4 DEF MoveNext, Step
  <2>2. Rows(Idle) /\ Rows(th[t])
    BY <2>1, AtWork
  <2>3. CASE th[t].queue = {}
    <3> DEFINE k == [th[t] EXCEPT !.pc = "slot next", !.pool = {}]
    <3>1. Step(t, "move next", k)
      BY <1>4, <2>3 DEF MoveNext
    <3>2. k.pc = "slot next" /\ k.queue = {}
      BY <1>0, <2>3 DEF Thread
    <3> HIDE DEF k
    <3>3. Rows(k)
      BY <2>2, <3>2, RestRows
    <3> QED
      BY <2>1, <3>1, <3>3, SerialReads
  <2>4. CASE th[t].queue # {}
    <3> DEFINE u == Min(th[t].queue)
               k == [th[t] EXCEPT !.pc = "choose move", !.unit = u,
                                  !.queue = @ \ {Min(@)}, !.todo = th[t].pool]
    <3>1. Step(t, "move next", k)
      BY <1>4, <2>4 DEF MoveNext
    <3>2. u \in th[t].queue
      BY <1>0, <2>4, ThreadFacts, Numbers
    <3>3. k.pc = "choose move" /\ k.unit = u /\ k.queue \subseteq th[t].queue
      BY <1>0 DEF Thread
    <3> HIDE DEF k, u
    <3>4. cam[k.unit] # "deleted" /\ \A v \in k.queue : cam[v] # "deleted"
      BY <2>2, <3>2, <3>3 DEF Rows
    <3>5. Rows(k)
      BY <2>2, <3>3, <3>4, HandRows
    <3> QED
      BY <2>1, <3>1, <3>5, SerialReads
  <2> QED
    BY <2>3, <2>4
<1>5. CASE ChooseMove(t)
  <2> DEFINE best == MostFree(t)
             full == th[t].pool = {} \/ Cardinality(listed[best]) >= Capacity[best]
             k == Moving(th[t], th[t].unit, best)
             r == [Resume(t) EXCEPT !.queue = {}]
  <2>1. /\ UNCHANGED <<cameras, placement, listed>> /\ th[t].pc = "choose move"
        /\ Step(t, "choose move", IF full THEN r ELSE k)
    BY <1>5 DEF ChooseMove, Step
  <2>2. th[t].job = "redistribute" /\ th[t].unit \in Units
    BY <1>0, <2>1 DEF Aims
  <2>3. Rows(Idle) /\ Rows(th[t])
    BY <2>1, AtWork
  <2>4. CASE full
    <3>1. Resume(t) \in Thread /\ Resume(t).pc \in {"idle", "place next", "move next", "rebalance"}
      BY <1>0, ResumeFits DEF Fit
    <3>2. r.pc = Resume(t).pc /\ r.queue = {}
      BY <3>1 DEF Thread
    <3>3. Step(t, "choose move", r)
      BY <2>1, <2>4
    <3> HIDE DEF r
    <3>4. Rows(r)
      BY <2>3, <3>1, <3>2, RestRows
    <3> QED
      BY <2>1, <3>3, <3>4, SerialReads
  <2>5. CASE ~full
    <3>1. best \in Workers
      BY <1>0, <2>5, Chosen
    <3>2. Rows(k)
      <4>1. cam[th[t].unit] # "deleted" /\ \A v \in th[t].queue : cam[v] # "deleted"
        BY <2>1, <2>3 DEF Rows
      <4> HIDE DEF best
      <4> QED
        BY <1>0, <2>2, <2>3, <3>1, <4>1, MovingRows
    <3>3. Step(t, "choose move", k)
      BY <2>1, <2>5
    <3> HIDE DEF k
    <3> QED
      BY <2>1, <3>2, <3>3, SerialReads
  <2> QED
    BY <2>4, <2>5
<1>6. CASE Rebalance(t)
  <2> DEFINE k == [At("rebalance", "rebalance") EXCEPT !.pool = seen]
  <2>1. Call(t, "rebalance", k) /\ UNCHANGED <<cameras, placement, listed>>
    BY <1>6 DEF Rebalance
  <2>2. k.pc = "rebalance" /\ k.queue = {}
    BY DEF At, Idle
  <2> HIDE DEF k
  <2>3. Rows(Idle) => Rows(k)
    BY <2>2, RestRows
  <2> QED
    BY <2>1, <2>3, SerialCalls
<1>7. CASE RebalanceNext(t)
  <2> DEFINE k == [th[t] EXCEPT !.pc = "choose pair", !.todo = th[t].pool]
  <2>1. /\ UNCHANGED <<cameras, placement, listed>> /\ th[t].pc = "rebalance"
        /\ Step(t, "rebalance", Idle) \/ Step(t, "rebalance", k)
    BY <1>7 DEF RebalanceNext, Step
  <2>2. k.pc = "choose pair" /\ k.queue = th[t].queue
    BY <1>0 DEF Thread
  <2> HIDE DEF k
  <2>3. Rows(Idle) /\ Rows(th[t])
    BY <2>1, AtWork
  <2>4. Rows(k)
    BY <2>1, <2>2, <2>3 DEF Rows
  <2> QED
    BY <2>1, <2>3, <2>4, SerialReads
<1>8. CASE ChoosePair(t)
  <2> DEFINE hi == Highest(t)
             lo == Lowest(t)
             worth == /\ OutOfBand(t, hi, lo)
                      /\ listed[hi] # {}
                      /\ Cardinality(listed[lo]) + 1 <= Capacity[lo]
             u == Min(listed[hi])
             k == Moving(th[t], u, lo)
  <2>1. /\ UNCHANGED <<cameras, placement, listed>> /\ th[t].pc = "choose pair"
        /\ Step(t, "choose pair", IF worth THEN k ELSE Idle)
    BY <1>8 DEF ChoosePair
  <2>2. th[t].job = "rebalance" /\ th[t].pool # {}
    BY <1>0, <2>1 DEF Aims
  <2>3. hi \in Workers /\ lo \in Workers
    BY <1>0, <2>2, Chosen
  <2>4. Rows(Idle) /\ Rows(th[t])
    BY <2>1, AtWork
  <2>5. CASE worth
    <3>1. u \in listed[hi] /\ u \in Units
      <4>1. listed[hi] \in SUBSET Units /\ listed[hi] # {}
        BY <1>0, <2>3, <2>5 DEF RowsType
      <4> QED
        BY <4>1, Numbers
    <3>2. Step(t, "choose pair", k)
      BY <2>1, <2>5
    <3>3. Rows(k)
      <4> HIDE DEF hi, lo, u
      <4>1. cam[u] # "deleted"
        BY <2>3, <2>4, <3>1, ListedAreThere
      <4>2. \A v \in th[t].queue : cam[v] # "deleted"
        BY <2>4 DEF Rows
      <4> QED
        BY <1>0, <2>2, <2>3, <2>4, <3>1, <4>1, <4>2, MovingRows
    <3> HIDE DEF k
    <3> QED
      BY <2>1, <3>2, <3>3, SerialReads
  <2>6. CASE ~worth
    BY <2>1, <2>4, <2>6, SerialReads
  <2> QED
    BY <2>5, <2>6
<1>9. CASE Scan(t) \/ TakeOff(t) \/ MoveRow(t)
  BY <1>9, SerialScan
<1> QED
  BY <1>1, <1>2, <1>3, <1>4, <1>5, <1>6, <1>7, <1>8, <1>9

\* Nothing of it changes.
LEMMA SerialSame ==
  ASSUME SerialInv, UNCHANGED <<cameras, placement, listed, th>>
  PROVE  SerialInv'
<1>1. OneAtWork' /\ Numbered'
  BY DEF SerialInv, OneAtWork, Numbered, cameras
<1>2. ASSUME NEW t \in Threads, th'[t].pc # "idle" PROVE Rows(th[t])'
  <2>1. Rows(th[t]) /\ th'[t] = th[t]
    BY <1>2 DEF SerialInv
  <2> QED
    BY <2>1, SameRows
<1>3. ASSUME Quiet' PROVE Rows(Idle)'
  <2>1. \A u \in Units : Settled(u) /\ (cam[u] = "deleted" => Forgotten(u))
    BY <1>3, IdleRows DEF SerialInv, Quiet
  <2>2. \A u \in Units : Settled(u)' /\ (cam'[u] = "deleted" => Forgotten(u)')
    BY <2>1 DEF Settled, Forgotten, cameras
  <2> QED
    BY <2>2 DEF Rows, Idle
<1> QED
  BY <1>1, <1>2, <1>3 DEF SerialInv

\* Workers do not touch the rows; an operator's word leaves the thread idle; no
\* thread dies.
LEMMA SerialOther ==
  ASSUME OneAtATime, TypeInv, SerialInv,
         \/ Environment
         \/ \E t \in Threads : Crash(t) \/ \E w \in Workers : Retire(t, w)
  PROVE  SerialInv'
<1>1. CASE Environment
  <2>1. UNCHANGED <<cameras, placement, listed, th>>
    BY <1>1 DEF Environment, SlotChanges, SeenChanges
  <2> QED
    BY <2>1, SerialSame
<1>2. ASSUME NEW t \in Threads, Crash(t) PROVE FALSE
  BY <1>2 DEF Crash, OneAtATime, TypeInv, RowsType
<1>3. ASSUME NEW t \in Threads, NEW w \in Workers, Retire(t, w) PROVE SerialInv'
  BY <1>3, SerialCalls DEF Retire
<1> QED
  BY <1>1, <1>2, <1>3

LEMMA SerialStep == OneAtATime /\ TypeInv /\ SerialInv /\ [Next]_vars => SerialInv'
<1> SUFFICES ASSUME OneAtATime, TypeInv, SerialInv, [Next]_vars PROVE SerialInv'
  OBVIOUS
<1>1. CASE Environment
  BY <1>1, SerialOther
<1>2. ASSUME NEW t \in Threads, Begin(t) PROVE SerialInv'
  BY <1>2, SerialCamera, SerialMove, SerialOther DEF Begin
<1>3. ASSUME NEW t \in Threads, Ensure(t) \/ Continue(t) PROVE SerialInv'
  BY <1>3, SerialCamera, SerialPlace, SerialMove DEF Continue
<1>4. ASSUME NEW t \in Threads, Crash(t) PROVE SerialInv'
  BY <1>4, SerialOther
<1>5. CASE UNCHANGED vars
  <2>1. UNCHANGED <<cameras, placement, listed, th>>
    BY <1>5 DEF vars
  <2> QED
    BY <2>1, SerialSame
<1> QED
  BY <1>1, <1>2, <1>3, <1>4, <1>5 DEF Next

LEMMA SerialInit == Init => SerialInv
<1> SUFFICES ASSUME Init PROVE SerialInv
  OBVIOUS
<1>1. \A u \in Units : Settled(u) /\ cam[u] = "none"
  BY Numbers DEF Init, Settled
<1>2. \A t \in Threads : th[t].pc = "idle"
  BY DEF Init, Idle
<1>3. Rows(Idle)
  BY <1>1, IdleRows
<1> QED
  BY <1>1, <1>2, <1>3 DEF SerialInv, OneAtWork, Numbered

\* Methods one after the other: whenever nobody is at work, every camera is
\* listed by the worker its row names and by no other -- whatever the loop and
\* the operators have placed, moved, spread and deleted, in any order, and
\* whatever happened to the workers meanwhile.
THEOREM SerialFollowsRow ==
  ASSUME OneAtATime
  PROVE  Spec => []AssignmentFollowsRow
<1>1. TypeInv /\ TypeInv' /\ SerialInv /\ [Next]_vars => SerialInv'
  BY SerialStep
<1>2. TypeInv /\ SerialInv => AssignmentFollowsRow
  BY SerialSays
<1> QED
  BY <1>1, <1>2, SerialInit, TypeAlways, PTL DEF Spec

\* The same, in the middle of methods too: no two workers read the same camera.
THEOREM SerialNeverTwice ==
  ASSUME OneAtATime
  PROVE  Spec => []NeverListedTwice
<1>1. TypeInv /\ TypeInv' /\ SerialInv /\ [Next]_vars => SerialInv'
  BY SerialStep
<1>2. TypeInv /\ SerialInv => NeverListedTwice
  BY SerialSays
<1> QED
  BY <1>1, <1>2, SerialInit, TypeAlways, PTL DEF Spec

\* The same, of a deleted camera: no worker has it, and its retention row does
\* not keep its events.
THEOREM SerialForgets ==
  ASSUME OneAtATime
  PROVE  Spec => []DeletedIsForgotten
<1>1. TypeInv /\ TypeInv' /\ SerialInv /\ [Next]_vars => SerialInv'
  BY SerialStep
<1>2. TypeInv /\ SerialInv => DeletedIsForgotten
  BY SerialSays
<1> QED
  BY <1>1, <1>2, SerialInit, TypeAlways, PTL DEF Spec
=============================================================================
