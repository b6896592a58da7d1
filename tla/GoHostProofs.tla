---------------------------- MODULE GoHostProofs ----------------------------
(***************************************************************************)
(* For any number of servers, starts, edits and cut-offs: two processes    *)
(* that run never go by one epoch, and a process that was fenced runs no   *)
(* pipeline (GoHost).                                                      *)
(*                                                                         *)
(* A step of a process changes its own host and the number issued only     *)
(* when it claims it. OneHostMoves says what such a step must show of the  *)
(* host it leaves behind, so that each action is about one record.         *)
(*                                                                         *)
(* The theorems at the end put the process beside the controller           *)
(* (MCCluster).                                                            *)
(***************************************************************************)
EXTENDS MCCluster, ControllerProofs

HostInv ==
  /\ host \in [Servers -> HostType]
  /\ \A s \in Servers : /\ host[s].epoch <= issued
                        /\ Runs(s) => host[s].epoch > 0
                        /\ host[s].pub # "idle" => host[s].rev > 0
  /\ EpochsAreOwn /\ FencedStaysQuiet /\ StartsUnderTheGate

LEMMA InvParts == GoInv <=> StoreType /\ HostInv
BY DEF GoInv, GoTypeOK, HostInv

\* COALESCE(MAX(revision), 0) is a natural number.
LEMMA RevIsNat ==
  ASSUME NEW config \in Configs
  PROVE  Rev(config) \in Nat
<1> DEFINE length == [c \in Feeds |-> Len(config[c])]
<1>1. length \in [Feeds -> Int] /\ \A c \in Feeds : length[c] = Len(config[c]) /\ Len(config[c]) \in Nat
  BY DEF Configs
<1> HIDE DEF length
<1>2. PICK c \in Feeds : \A d \in Feeds : length[d] <= length[c]
  BY <1>1, GoAssumption, Greatest
<1>3. \E n \in {Len(config[d]) : d \in Feeds} : \A m \in {Len(config[d]) : d \in Feeds} : n >= m
  BY <1>1, <1>2
<1> QED
  BY <1>1, <1>3 DEF Rev, Max

\* A step of one process that claims nothing.
LEMMA OneHostMoves ==
  ASSUME HostInv, issued \in Nat, NEW s \in Servers, NEW h \in HostType,
         host' = [host EXCEPT ![s] = h], issued' = issued,
         h.at \in {"run", "stopping"} => Runs(s) /\ h.epoch = host[s].epoch,
         h.epoch <= issued,
         h.pub # "idle" => h.rev > 0,
         h.pass = "starting" => h.open,
         ~h.open => h.running = {}
  PROVE  HostInv'
<1>1. \A t \in Servers : host'[t] = IF t = s THEN h ELSE host[t]
  BY DEF HostInv
<1>2. host' \in [Servers -> HostType]
  BY DEF HostInv
<1>3. \A t \in Servers : Runs(t)' => Runs(t) /\ host'[t].epoch = host[t].epoch
  BY <1>1 DEF Runs
<1>4. EpochsAreOwn'
  BY <1>3 DEF HostInv, EpochsAreOwn
<1>5. FencedStaysQuiet' /\ StartsUnderTheGate'
  BY <1>1 DEF HostInv, FencedStaysQuiet, StartsUnderTheGate
<1>6. \A t \in Servers : /\ host'[t].epoch <= issued'
                         /\ Runs(t)' => host'[t].epoch > 0
                         /\ host'[t].pub # "idle" => host'[t].rev > 0
  BY <1>1, <1>3 DEF HostInv
<1> QED
  BY <1>2, <1>4, <1>5, <1>6 DEF HostInv

\* The step that claims the next number: nobody has it yet.
LEMMA HostClaims ==
  ASSUME HostInv, issued \in Nat, NEW s \in Servers,
         host' = [host EXCEPT ![s] = Claimed(s)], issued' = issued + 1, issued = host[s].epoch
  PROVE  HostInv'
<1> DEFINE h == Claimed(s)
<1>1. /\ h \in HostType /\ h.epoch = issued + 1 /\ h.pub = host[s].pub /\ h.rev = host[s].rev
      /\ h.pass = host[s].pass /\ h.open = host[s].open /\ h.running = host[s].running
  <2>1. host[s] \in HostType
    BY DEF HostInv
  <2>2. host[s].epoch + 1 \in Nat
    BY <2>1 DEF HostType
  <2>3. h \in HostType
    BY <2>1, <2>2, ZenonT(60) DEF HostType, Claimed
  <2> QED
    BY <2>1, <2>3 DEF HostType, Claimed
<1> HIDE DEF h
<1>2. \A t \in Servers : host'[t] = IF t = s THEN h ELSE host[t]
  BY DEF HostInv, h
<1>3. host' \in [Servers -> HostType]
  BY <1>1 DEF HostInv, h
<1>4. \A t \in Servers : t # s => (Runs(t)' <=> Runs(t)) /\ host'[t].epoch <= issued
  BY <1>2 DEF Runs, HostInv
<1>5. EpochsAreOwn'
  BY <1>1, <1>2, <1>3, <1>4 DEF HostInv, EpochsAreOwn, HostType
<1>6. FencedStaysQuiet' /\ StartsUnderTheGate'
  BY <1>1, <1>2 DEF HostInv, FencedStaysQuiet, StartsUnderTheGate
<1>7. \A t \in Servers : /\ host'[t].epoch <= issued'
                         /\ Runs(t)' => host'[t].epoch > 0
                         /\ host'[t].pub # "idle" => host'[t].rev > 0
  BY <1>1, <1>2 DEF HostInv, HostType, Runs
<1> QED
  BY <1>3, <1>5, <1>6, <1>7 DEF HostInv

LEMMA DownType == Down \in HostType /\ Down.epoch = 0 /\ Down.at = "down" /\ Down.pub = "idle"
                  /\ Down.pass = "idle" /\ Down.open /\ Down.running = {}
<1>1. [c \in Feeds |-> 0] \in [Feeds -> Nat]
  OBVIOUS
<1>2. Down \in HostType
  BY <1>1, ZenonT(60) DEF Down, HostType
<1> QED
  BY <1>2 DEF Down

\* What a step that claims nothing must leave of the host it is about.
Known(s, h) ==
  /\ h \in HostType
  /\ h.at \in {"run", "stopping"} => Runs(s) /\ h.epoch = host[s].epoch
  /\ h.epoch <= issued
  /\ h.pub # "idle" => h.rev > 0
  /\ h.pass = "starting" => h.open
  /\ ~h.open => h.running = {}

LEMMA FitMoves ==
  ASSUME HostInv, issued \in Nat, NEW s \in Servers, NEW h, Known(s, h),
         host' = [host EXCEPT ![s] = h], issued' = issued
  PROVE  HostInv'
BY OneHostMoves, ZenonT(60) DEF Known

LEMMA HostFits ==
  ASSUME HostInv, NEW s \in Servers
  PROVE  /\ host[s] \in HostType
         /\ Runs(s) => Known(s, host[s])
         /\ issued \in Nat => Known(s, Down)
<1>1. host[s] \in HostType
  BY DEF HostInv
<1>2. Runs(s) => Known(s, host[s])
  BY <1>1 DEF HostInv, Known, Runs, FencedStaysQuiet, StartsUnderTheGate
<1>3. issued \in Nat => Known(s, Down)
  BY DownType DEF Known
<1> QED
  BY <1>1, <1>2, <1>3
\* A host whose pass, list and pipelines are replaced is still a host.
LEMMA HostActuated ==
  ASSUME NEW k \in HostType, NEW p \in {"idle", "looking", "starting"},
         NEW todo \in SUBSET Feeds, NEW running \in SUBSET Feeds,
         NEW actual \in [Feeds -> Nat], NEW want \in [Feeds -> Nat]
  PROVE  /\ [k EXCEPT !.pass = p, !.todo = todo, !.running = running, !.actual = actual] \in HostType
         /\ [k EXCEPT !.pass = p, !.want = want, !.running = running, !.actual = actual] \in HostType
BY DEF HostType

\* What the invariant says of the host of one server.
LEMMA HostFacts ==
  ASSUME HostInv, NEW s \in Servers
  PROVE  /\ host[s] \in HostType
         /\ host[s].epoch <= issued /\ host[s].epoch \in Nat
         /\ host[s].published \in Nat
         /\ host[s].pub # "idle" => host[s].rev > 0
         /\ host[s].pass = "starting" => host[s].open
         /\ ~host[s].open => host[s].running = {}
         /\ host[s].running \in SUBSET Feeds /\ host[s].todo \in SUBSET Feeds
         /\ host[s].actual \in [Feeds -> Nat] /\ host[s].want \in [Feeds -> Nat]
<1>1. host[s] \in HostType
  BY DEF HostInv
<1> QED
  BY <1>1 DEF HostInv, FencedStaysQuiet, StartsUnderTheGate, HostType

-----------------------------------------------------------------------------
\* The steps of the prologue.
LEMMA PrologueKeeps ==
  ASSUME StoreType, HostInv, NEW s \in Servers,
         Identify(s) \/ KeepRows(s) \/ Restore(s) \/ Refuse(s) \/ ReadEpoch(s) \/ ClaimEpoch(s)
  PROVE  HostInv'
<1> USE DEF Set, directoryVars
<1>1. issued \in Nat /\ entry.rev \in Nat
  BY DEF StoreType
<1>2. Known(s, Down)
  BY <1>1, HostFits
<1>3. CASE Identify(s)
  <2> DEFINE h == [host[s] EXCEPT !.at = "rehydrate", !.published = entry.rev]
  <2>1. h \in HostType
    BY <1>1, HostFacts, ZenonT(60) DEF HostType
  <2>2. Known(s, h)
    BY <1>1, <2>1, HostFacts DEF Known, HostType
  <2> QED
    BY <1>1, <1>2, <1>3, <2>2, FitMoves DEF Identify, Prologue
<1>4. CASE KeepRows(s)
  <2> DEFINE h == [host[s] EXCEPT !.at = "epoch"]
  <2>1. h \in HostType
    BY HostFacts, ZenonT(60) DEF HostType
  <2>2. Known(s, h)
    BY <2>1, HostFacts DEF Known, HostType
  <2> QED
    BY <1>1, <1>4, <2>2, FitMoves DEF KeepRows
<1>5. CASE Restore(s)
  <2> DEFINE h == [host[s] EXCEPT !.at = "epoch"]
  <2>1. h \in HostType
    BY HostFacts, ZenonT(60) DEF HostType
  <2>2. Known(s, h)
    BY <2>1, HostFacts DEF Known, HostType
  <2> QED
    BY <1>1, <1>2, <1>5, <2>2, FitMoves DEF Restore, Prologue
<1>6. CASE Refuse(s)
  BY <1>1, <1>2, <1>6, FitMoves DEF Refuse, Prologue
<1>7. CASE ReadEpoch(s)
  <2> DEFINE h == [host[s] EXCEPT !.at = "claim", !.epoch = issued]
  <2>1. h \in HostType
    BY <1>1, HostFacts, ZenonT(60) DEF HostType
  <2>2. Known(s, h)
    BY <1>1, <2>1, HostFacts DEF Known, HostType
  <2> QED
    BY <1>1, <1>2, <1>7, <2>2, FitMoves DEF ReadEpoch, Prologue
<1>8. CASE ClaimEpoch(s)
  <2>1. CASE Connected(s) /\ issued = host[s].epoch
    <3>1. host' = [host EXCEPT ![s] = Claimed(s)] /\ issued' = issued + 1
      BY <1>8, <2>1 DEF ClaimEpoch, Prologue
    <3> QED
      BY <1>1, <2>1, <3>1, HostClaims
  <2>2. CASE ~(Connected(s) /\ issued = host[s].epoch)
    <3> DEFINE h == [host[s] EXCEPT !.at = "epoch"]
    <3>1. h \in HostType
      BY HostFacts, ZenonT(60) DEF HostType
    <3>2. Known(s, h)
      BY <3>1, HostFacts DEF Known, HostType
    <3>3. issued' = issued /\ (host' = [host EXCEPT ![s] = Down] \/ host' = [host EXCEPT ![s] = h])
      BY <1>8, <2>2 DEF ClaimEpoch, Prologue
    <3> HIDE DEF h
    <3> QED
      BY <1>1, <1>2, <3>2, <3>3, FitMoves
  <2> QED
    BY <2>1, <2>2
<1> QED
  BY <1>3, <1>4, <1>5, <1>6, <1>7, <1>8

\* The steps of the goroutines change the host, and only while the process runs.
LEMMA RoundKeeps ==
  ASSUME StoreType, HostInv, NEW s \in Servers, NEW h, Round(s, h), Known(s, h)
  PROVE  HostInv'
<1>1. issued \in Nat
  BY DEF StoreType
<1>2. host' = [host EXCEPT ![s] = h] /\ issued' = issued
  BY DEF Round, Set, directoryVars
<1> QED
  BY <1>1, <1>2, FitMoves

\* The steps of a pass: a pipeline is started under the gate that was looked at.
LEMMA PassKeeps ==
  ASSUME StoreType, HostInv, NEW s \in Servers, BeginPass(s) \/ GoPass(s)
  PROVE  HostInv'
<1>1. issued \in Nat
  BY DEF StoreType
<1>2. CASE BeginPass(s)
  <2> DEFINE want == Wanted(table[s])
             todo == {c \in Feeds : want[c] > host[s].actual[c]}
             h == [host[s] EXCEPT !.pass = "looking", !.want = want, !.todo = todo]
  <2>1. Round(s, h)
    BY <1>2 DEF BeginPass
  <2>2. want \in [Feeds -> Nat]
    BY DEF StoreType, Configs, Wanted
  <2>3. todo \in SUBSET Feeds
    OBVIOUS
  <2> HIDE DEF want, todo
  <2>4. h \in HostType
    BY <2>2, <2>3, HostFacts, ZenonT(60) DEF HostType
  <2>5. Known(s, h)
    BY <2>1, <2>4, HostFacts DEF Known, HostType, Round, Runs
  <2> QED
    BY <2>1, <2>5, RoundKeeps
<1>3. CASE LookAtGate(s)
  <2>1. PICK c \in host[s].todo :
          Round(s, IF host[s].open /\ MayWrite(s) THEN [host[s] EXCEPT !.pass = "starting"]
                   ELSE [host[s] EXCEPT !.todo = @ \ {c}])
    BY <1>3 DEF LookAtGate
  <2>2. CASE host[s].open /\ MayWrite(s)
    <3> DEFINE h == [host[s] EXCEPT !.pass = "starting"]
    <3>1. h \in HostType
      BY HostFacts, ZenonT(60) DEF HostType
    <3>2. Known(s, h)
      BY <2>1, <2>2, <3>1, HostFacts DEF Known, HostType, Round, Runs
    <3> QED
      BY <2>1, <2>2, <3>2, RoundKeeps
  <2>3. CASE ~(host[s].open /\ MayWrite(s))
    <3> DEFINE h == [host[s] EXCEPT !.todo = @ \ {c}]
    <3>1. h \in HostType
      BY HostFacts, ZenonT(60) DEF HostType
    <3>2. Known(s, h)
      BY <2>1, <3>1, HostFacts DEF Known, HostType, Round, Runs
    <3> QED
      BY <2>1, <2>3, <3>2, RoundKeeps
  <2> QED
    BY <2>2, <2>3
<1>4. CASE StartFeed(s)
  <2>1. PICK c \in host[s].todo, ok \in BOOLEAN :
          Round(s, [host[s] EXCEPT !.pass = "looking", !.todo = @ \ {c},
                                   !.running = IF ok THEN @ \cup {c} ELSE @ \ {c},
                                   !.actual[c] = IF ok THEN host[s].want[c] ELSE @])
    BY <1>4 DEF StartFeed
  <2> DEFINE todo == host[s].todo \ {c}
             running == IF ok THEN host[s].running \cup {c} ELSE host[s].running \ {c}
             actual == [host[s].actual EXCEPT ![c] = IF ok THEN host[s].want[c] ELSE @]
             h == [host[s] EXCEPT !.pass = "looking", !.todo = todo, !.running = running, !.actual = actual]
  <2>2. Round(s, h)
    BY <2>1, HostFacts, ZenonT(60) DEF HostType
  <2>3. c \in Feeds /\ todo \in SUBSET Feeds /\ running \in SUBSET Feeds
    BY HostFacts
  <2>4. actual \in [Feeds -> Nat]
    BY <2>3, HostFacts
  <2>5. host[s].open
    BY <1>4, HostFacts DEF StartFeed
  <2> HIDE DEF todo, running, actual
  <2>6. h \in HostType
    BY <2>3, <2>4, HostFacts, HostActuated
  <2>7. Known(s, h)
    BY <2>2, <2>5, <2>6, HostFacts DEF Known, HostType, Round, Runs
  <2> QED
    BY <2>2, <2>7, RoundKeeps
<1>5. CASE EndPass(s)
  <2> DEFINE gone == {c \in Feeds : host[s].want[c] = 0}
             running == host[s].running \ gone
             actual == [c \in Feeds |-> IF c \in gone THEN 0 ELSE host[s].actual[c]]
             h == [host[s] EXCEPT !.pass = "idle", !.want = Down.want, !.running = running, !.actual = actual]
  <2>1. Round(s, h)
    BY <1>5, ZenonT(60) DEF EndPass
  <2>2. running \in SUBSET Feeds /\ (host[s].running = {} => running = {})
    BY HostFacts
  <2>3. actual \in [Feeds -> Nat]
    BY HostFacts
  <2>4. Down.want \in [Feeds -> Nat]
    BY DEF Down
  <2> HIDE DEF running, actual
  <2>5. h \in HostType
    BY <2>2, <2>3, <2>4, HostFacts, HostActuated
  <2>6. Known(s, h)
    BY <2>1, <2>2, <2>5, HostFacts DEF Known, HostType, Round, Runs
  <2> QED
    BY <2>1, <2>6, RoundKeeps
<1> QED
  BY <1>2, <1>3, <1>4, <1>5 DEF GoPass

\* The steps of the lease: Fence finds no pass that still could start a pipeline.
LEMMA LeaseKeeps ==
  ASSUME StoreType, HostInv, NEW s \in Servers,
         RenewLease(s) \/ FenceHost(s) \/ LeaseRunsOut(s)
  PROVE  HostInv'
<1>1. CASE RenewLease(s)
  <2> DEFINE g == IF host[s].fenced THEN host[s] ELSE Renewed(s)
             h == IF g.fenced \/ ~g.fresh THEN [g EXCEPT !.lease = "fence"] ELSE g
  <2>1. Round(s, h)
    BY <1>1 DEF RenewLease
  <2>2. /\ [host[s] EXCEPT !.fenced = TRUE, !.fresh = FALSE] \in HostType
        /\ [host[s] EXCEPT !.fresh = TRUE] \in HostType
    BY HostFacts, ZenonT(60) DEF HostType
  <2>3. g \in HostType
    BY <2>2, HostFacts DEF Renewed
  <2>4. /\ g.at = host[s].at /\ g.epoch = host[s].epoch /\ g.pub = host[s].pub /\ g.rev = host[s].rev
        /\ g.pass = host[s].pass /\ g.open = host[s].open /\ g.running = host[s].running
    BY HostFacts DEF Renewed, HostType
  <2> HIDE DEF g
  <2>5. [g EXCEPT !.lease = "fence"] \in HostType
    BY <2>3, ZenonT(60) DEF HostType
  <2>6. Known(s, h)
    BY <2>1, <2>3, <2>4, <2>5, HostFacts DEF Known, HostType, Round, Runs
  <2> QED
    BY <2>1, <2>6, RoundKeeps
<1>2. CASE FenceHost(s)
  <2> DEFINE g == Stopped(host[s])
             h == [(IF host[s].open THEN g ELSE host[s]) EXCEPT !.lease = "idle"]
  <2>1. Round(s, h) /\ host[s].pass = "idle"
    BY <1>2 DEF FenceHost, MutexFree
  <2>2. [c \in Feeds |-> 0] \in [Feeds -> Nat]
    OBVIOUS
  <2>3. g \in HostType
    BY <2>2, HostFacts, ZenonT(60) DEF HostType, Stopped
  <2>4. /\ g.at = host[s].at /\ g.epoch = host[s].epoch /\ g.pub = host[s].pub /\ g.rev = host[s].rev
        /\ g.pass = host[s].pass /\ g.running = {}
    BY HostFacts DEF Stopped, HostType
  <2> HIDE DEF g
  <2>5. [g EXCEPT !.lease = "idle"] \in HostType /\ [host[s] EXCEPT !.lease = "idle"] \in HostType
    BY <2>3, HostFacts, ZenonT(60) DEF HostType
  <2>6. Known(s, h)
    BY <2>1, <2>3, <2>4, <2>5, HostFacts DEF Known, HostType, Round, Runs
  <2> QED
    BY <2>1, <2>6, RoundKeeps
<1>3. CASE LeaseRunsOut(s)
  <2> DEFINE h == [host[s] EXCEPT !.fresh = FALSE]
  <2>1. Round(s, h)
    BY <1>3 DEF LeaseRunsOut
  <2>2. h \in HostType
    BY HostFacts, ZenonT(60) DEF HostType
  <2>3. Known(s, h)
    BY <2>1, <2>2, HostFacts DEF Known, HostType, Round, Runs
  <2> QED
    BY <2>1, <2>3, RoundKeeps
<1> QED
  BY <1>1, <1>2, <1>3

\* The steps of a publication, which is of a revision there is.
LEMMA PublishKeeps ==
  ASSUME StoreType, HostInv, NEW s \in Servers,
         Publishing(s) \/ PutObject(s) \/ Point(s) \/ PublishAgain(s)
  PROVE  HostInv'
<1>1. issued \in Nat /\ entry.index \in Nat /\ table[s] \in Configs
  BY DEF StoreType
<1>2. CASE Publishing(s)
  <2> DEFINE rev == Rev(table[s])
             h == [host[s] EXCEPT !.pub = "object", !.rev = rev]
  <2>1. Round(s, h) /\ rev > host[s].published
    BY <1>2 DEF Publishing
  <2>2. rev \in Nat
    BY <1>1, RevIsNat
  <2> HIDE DEF rev
  <2>3. h \in HostType
    BY <2>2, HostFacts, ZenonT(60) DEF HostType
  <2>4. rev > 0
    BY <2>1, <2>2, HostFacts
  <2>5. Known(s, h)
    BY <2>1, <2>3, <2>4, HostFacts DEF Known, HostType, Round, Runs
  <2> QED
    BY <2>1, <2>5, RoundKeeps
<1>3. CASE PutObject(s)
  <2> DEFINE h == [host[s] EXCEPT !.pub = "point", !.index = entry.index]
  <2>1. /\ Runs(s) /\ host[s].pub = "object"
        /\ host' = [host EXCEPT ![s] = h] /\ issued' = issued
    BY <1>3 DEF PutObject, PublishStep, Set
  <2>2. h \in HostType
    BY <1>1, HostFacts, ZenonT(60) DEF HostType
  <2>3. Known(s, h)
    BY <2>1, <2>2, HostFacts DEF Known, HostType, Runs
  <2> QED
    BY <1>1, <2>1, <2>3, FitMoves
<1>4. CASE Point(s)
  <2> DEFINE h == [host[s] EXCEPT !.pub = "idle", !.rev = 0, !.index = 0, !.published = host[s].rev]
  <2>1. Runs(s) /\ host' = [host EXCEPT ![s] = h] /\ issued' = issued
    BY <1>4 DEF Point, PublishStep, Set
  <2>2. 0 \in Nat /\ host[s].rev \in Nat
    BY HostFacts DEF HostType
  <2>3. h \in HostType
    BY <2>2, HostFacts, ZenonT(60) DEF HostType
  <2>4. Known(s, h)
    BY <2>1, <2>3, HostFacts DEF Known, HostType, Runs
  <2> QED
    BY <1>1, <2>1, <2>4, FitMoves
<1>5. CASE PublishAgain(s)
  <2> DEFINE h == [host[s] EXCEPT !.pub = "idle", !.rev = 0, !.index = 0]
  <2>1. Round(s, h)
    BY <1>5 DEF PublishAgain
  <2>2. 0 \in Nat
    OBVIOUS
  <2>3. h \in HostType
    BY <2>2, HostFacts, ZenonT(60) DEF HostType
  <2>4. Known(s, h)
    BY <2>1, <2>3, HostFacts DEF Known, HostType, Round, Runs
  <2> QED
    BY <2>1, <2>4, RoundKeeps
<1> QED
  BY <1>2, <1>3, <1>4, <1>5

\* A process starts and ends; an edit and a cut change no process.
LEMMA LifeKeeps ==
  ASSUME StoreType, HostInv, NEW s \in Servers,
         \/ StartHost(s) \/ StopHost(s) \/ EndHost(s) \/ CutOff(s) \/ Back(s)
         \/ \E c \in Feeds : EditRow(s, c)
  PROVE  HostInv'
<1>1. issued \in Nat
  BY DEF StoreType
<1>2. CASE StartHost(s)
  <2> DEFINE h == [Down EXCEPT !.at = "identity"]
  <2>1. host' = [host EXCEPT ![s] = h] /\ issued' = issued
    BY <1>2 DEF StartHost, Set, directoryVars
  <2>2. h \in HostType
    BY DownType, ZenonT(60) DEF HostType
  <2>3. Known(s, h)
    BY <1>1, <2>2, DownType DEF Known, HostType
  <2> QED
    BY <1>1, <2>1, <2>3, FitMoves
<1>3. CASE StopHost(s)
  <2> DEFINE h == [host[s] EXCEPT !.at = "stopping", !.running = {}]
  <2>1. Round(s, h)
    BY <1>3 DEF StopHost
  <2>2. {} \in SUBSET Feeds
    OBVIOUS
  <2>3. h \in HostType
    BY <2>2, HostFacts, ZenonT(60) DEF HostType
  <2>4. Known(s, h)
    BY <2>1, <2>3, HostFacts DEF Known, HostType, Round, Runs
  <2> QED
    BY <2>1, <2>4, RoundKeeps
<1>4. CASE EndHost(s)
  <2>1. host' = [host EXCEPT ![s] = Down] /\ issued' = issued
    BY <1>4 DEF EndHost, Set, directoryVars
  <2> QED
    BY <1>1, <2>1, HostFits, FitMoves
<1>5. CASE CutOff(s) \/ Back(s) \/ (\E c \in Feeds : EditRow(s, c))
  <2>1. UNCHANGED <<host, issued>>
    BY <1>5 DEF CutOff, Back, EditRow, directoryVars
  <2> QED
    BY <2>1 DEF HostInv, EpochsAreOwn, FencedStaysQuiet, StartsUnderTheGate, Runs
<1> QED
  BY <1>2, <1>3, <1>4, <1>5

-----------------------------------------------------------------------------
\* What the processes leave behind: no configuration but one that was edited, and
\* no object but under a revision.
LEMMA StoreKeeps ==
  ASSUME StoreType, HostInv, [GoNext]_goVars
  PROVE  StoreType'
<1> DEFINE stored == <<table, objects, entry, issued, cutOff, tally>>
<1>1. CASE UNCHANGED stored
  BY <1>1 DEF StoreType
<1>2. ASSUME NEW s \in Servers,
             \/ Identify(s) \/ KeepRows(s) \/ Refuse(s) \/ ReadEpoch(s)
             \/ BeginPass(s) \/ GoPass(s) \/ RenewLease(s) \/ FenceHost(s) \/ LeaseRunsOut(s)
             \/ Publishing(s) \/ PublishAgain(s) \/ StopHost(s) \/ EndHost(s)
      PROVE  UNCHANGED stored
  BY <1>2 DEF Identify, KeepRows, Refuse, ReadEpoch, Prologue, BeginPass, GoPass, LookAtGate, StartFeed,
              EndPass, RenewLease, FenceHost, LeaseRunsOut, Publishing, PublishAgain, StopHost, EndHost,
              Round, directoryVars
<1>3. ASSUME NEW s \in Servers, Restore(s) PROVE StoreType'
  <2>1. PICK o \in NamedObject(s) : table' = [table EXCEPT ![s] = IF Connected(s) THEN o.config ELSE @]
    BY <1>3 DEF Restore
  <2>2. o.config \in Configs
    BY DEF NamedObject, Fetched, StoreType
  <2>3. table' \in [Servers -> Configs]
    BY <2>1, <2>2 DEF StoreType
  <2>4. UNCHANGED <<objects, entry, issued, cutOff, tally>>
    BY <1>3 DEF Restore, Prologue, directoryVars
  <2> QED
    BY <2>3, <2>4 DEF StoreType
<1>4. ASSUME NEW s \in Servers, ClaimEpoch(s) PROVE StoreType'
  BY <1>4 DEF ClaimEpoch, Prologue, StoreType
<1>5. ASSUME NEW s \in Servers, PutObject(s) PROVE StoreType'
  <2>1. /\ Dump(s) \in [key : Nat \ {0}, config : Configs]
    <3>1. host[s].rev \in Nat \ {0}
      BY <1>5, HostFacts DEF PutObject, PublishStep, HostType
    <3> QED
      BY <3>1 DEF Dump, StoreType
  <2>2. objects' \subseteq [key : Nat \ {0}, config : Configs]
    BY <1>5, <2>1 DEF PutObject, StoreType
  <2> QED
    BY <1>5, <2>2 DEF PutObject, PublishStep, StoreType
<1>6. ASSUME NEW s \in Servers, Point(s) PROVE StoreType'
  <2>1. host[s].rev \in Nat
    BY HostFacts DEF HostType
  <2>2. entry' \in [rev : Nat, index : Nat]
    BY <1>6, <2>1 DEF Point, StoreType
  <2> QED
    BY <1>6, <2>2 DEF Point, PublishStep, StoreType
<1>7. ASSUME NEW s \in Servers, StartHost(s) PROVE StoreType'
  BY <1>7 DEF StartHost, Bounded, directoryVars, StoreType
<1>8. ASSUME NEW s \in Servers, NEW c \in Feeds, EditRow(s, c) PROVE StoreType'
  <2>1. table' \in [Servers -> Configs]
    <3>1. Append(table[s][c], s) \in Seq(Servers \cup {Old}) /\ <<>> \in Seq(Servers \cup {Old})
      BY DEF StoreType, Configs
    <3>2. ASSUME NEW row \in Seq(Servers \cup {Old}), table' = [table EXCEPT ![s][c] = row]
          PROVE  table' \in [Servers -> Configs]
      BY <3>2 DEF StoreType, Configs
    <3>3. table' = [table EXCEPT ![s][c] = Append(table[s][c], s)] \/ table' = [table EXCEPT ![s][c] = <<>>]
      BY <1>8 DEF EditRow, StoreType, Configs
    <3> QED
      BY <3>1, <3>2, <3>3
  <2> QED
    BY <1>8, <2>1 DEF EditRow, Bounded, directoryVars, StoreType
<1>9. ASSUME NEW s \in Servers, CutOff(s) \/ Back(s) PROVE StoreType'
  BY <1>9 DEF CutOff, Back, Bounded, directoryVars, StoreType
<1> QED
  BY <1>1, <1>2, <1>3, <1>4, <1>5, <1>6, <1>7, <1>8, <1>9 DEF GoNext, goVars, directoryVars

LEMMA InitHolds == GoInit => GoInv
<1> SUFFICES ASSUME GoInit PROVE StoreType /\ HostInv
  BY InvParts
<1>1. \A s \in Servers : host[s] = Down /\ host[s] \in HostType
  BY DownType DEF GoInit
<1>2. HostInv
  BY <1>1, DownType DEF GoInit, HostInv, EpochsAreOwn, FencedStaysQuiet, StartsUnderTheGate, Runs
<1>3. StoreType
  <2>1. <<Old>> \in Seq(Servers \cup {Old}) /\ <<>> \in Seq(Servers \cup {Old})
    OBVIOUS
  <2>2. [c \in Feeds |-> <<Old>>] \in Configs /\ NoRows \in Configs
    BY <2>1 DEF Configs, NoRows
  <2>3. table \in [Servers -> Configs]
    BY <2>2 DEF GoInit
  <2> QED
    BY <2>3 DEF GoInit, StoreType
<1> QED
  BY <1>2, <1>3

LEMMA StepKeeps == GoInv /\ [GoNext]_goVars => GoInv'
<1> SUFFICES ASSUME StoreType, HostInv, [GoNext]_goVars PROVE StoreType' /\ HostInv'
  <2>1. GoInv' <=> StoreType' /\ HostInv'
    BY InvParts, PTL
  <2> QED
    BY <2>1, InvParts
<1>1. StoreType'
  BY StoreKeeps
<1>2. ASSUME UNCHANGED goVars PROVE HostInv'
  <2>1. UNCHANGED <<host, issued>>
    BY <1>2 DEF goVars, directoryVars
  <2> QED
    BY <2>1 DEF HostInv, EpochsAreOwn, FencedStaysQuiet, StartsUnderTheGate, Runs
<1>3. ASSUME GoNext PROVE HostInv'
  BY <1>3, PrologueKeeps, PassKeeps, LeaseKeeps, PublishKeeps, LifeKeeps DEF GoNext
<1> QED
  BY <1>1, <1>2, <1>3

\* For every number of servers, starts and troubles, what the processes and the
\* directory hold is of its type, and no process goes by a number that was not
\* issued (NextEpoch) or publishes under none (PublishOnce).
THEOREM GoTypeCorrect == GoSpec => []GoTypeOK
<1>1. GoInv => GoTypeOK
  BY DEF GoInv
<1> QED
  BY InitHolds, StepKeeps, <1>1, PTL DEF GoSpec

\* "Nobody ever receives the same number" (epoch.go).
THEOREM EpochsOwned == GoSpec => []EpochsAreOwn
<1>1. GoInv => EpochsAreOwn
  BY DEF GoInv
<1> QED
  BY InitHolds, StepKeeps, <1>1, PTL DEF GoSpec

\* A process whose gate Fence shut (apphost.go) runs no pipeline from then on,
\* whatever pass was under way.
THEOREM FencedForEver == GoSpec => []FencedStaysQuiet
<1>1. GoInv => FencedStaysQuiet
  BY DEF GoInv
<1> QED
  BY InitHolds, StepKeeps, <1>1, PTL DEF GoSpec

-----------------------------------------------------------------------------
\* The two ways together: the run's specification takes steps of one of them at a time.

LEMMA ClusterParts == ClusterSpec => Spec /\ GoSpec
<1>1. ClusterInit => Init /\ GoInit
  BY DEF ClusterInit
<1>2. [ClusterNext]_<<vars, goVars, sub>> => [Next]_vars /\ [GoNext]_goVars
  BY DEF ClusterNext
<1>3. ClusterSpec => ClusterInit /\ [][ClusterNext]_<<vars, goVars, sub>>
  BY DEF ClusterSpec
<1> QED
  BY <1>1, <1>2, <1>3, PTL DEF Spec, GoSpec

\* The types of both, under the specification the run checks.
THEOREM ClusterTypeCorrect == ClusterSpec => []ClusterTypeOK
<1>1. TypeOK /\ GoTypeOK => ClusterTypeOK
  BY DEF ClusterTypeOK
<1> QED
  BY <1>1, ClusterParts, ControllerTypeCorrect, GoTypeCorrect, PTL

\* Under the specification the run checks, with methods one after the other: a camera is listed by the
\* worker of its row and by no other, a deleted one by none, and a fenced process runs no pipeline.
THEOREM ClusterKeepsItsCameras ==
  ASSUME OneAtATime
  PROVE  ClusterSpec => [](AssignmentFollowsRow /\ NeverListedTwice /\ DeletedIsForgotten /\ FencedStaysQuiet)
<1>1. Spec => []AssignmentFollowsRow
  BY SerialFollowsRow
<1>2. Spec => []NeverListedTwice
  BY SerialNeverTwice
<1>3. Spec => []DeletedIsForgotten
  BY SerialForgets
<1> QED
  BY <1>1, <1>2, <1>3, ClusterParts, FencedForEver, PTL
=============================================================================
