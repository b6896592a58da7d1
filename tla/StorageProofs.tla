---------------------------- MODULE StorageProofs ----------------------------
(***************************************************************************)
(* What is kept on a disk, for every number of segments, buckets, servers, *)
(* cameras and processes: footage is not lost on its way into the archive, *)
(* a copy of a bucket is whole, an event is indexed once, and what a Node  *)
(* offers can be played. Each part has an inductive invariant of its own;  *)
(* the parts are put together at the end.                                  *)
(***************************************************************************)
EXTENDS MCStorage, FileVariablesProofs, RowWriteProofs, FiniteSetTheorems

-----------------------------------------------------------------------------
\* The archive of a server.

ArchiveSpec == ArchiveInit /\ [][ArchiveNext]_archiveVars

Paths_ == Segs \cup Spans
AtMostOne(S) == \A x, y \in S : x = y

MoverStates ==
  [at : {"off", "up", "sweep", "move", "appear", "remove", "line"},
   seg : SUBSET Segs, left : SUBSET Segs, writing : SUBSET Segs]
PassStates ==
  [at : {"idle", "rewrite", "close", "retain", "delete", "lines", "platform"},
   listed : SUBSET Paths_, keep : [Segs -> Nat]]

\* The types of all the archive's variables; a worker moves one segment at most
\* and writes one at most.
ArchiveStates ==
  /\ spool \in [Segs -> {"absent", "open", "closed"}]
  /\ files \in SUBSET Paths_ /\ part \in SUBSET Segs
  /\ lines \in [Paths_ -> Nat]
  /\ over \in SUBSET Spans /\ aged \in SUBSET Paths_ /\ made \in SUBSET Segs
  /\ mover \in [Movers -> MoverStates] /\ pass \in PassStates
  /\ \A w \in Movers : AtMostOne(mover[w].seg) /\ AtMostOne(mover[w].writing)

\* A worker removes a segment from the spool once its copy is in place; the job
\* deletes what has aged. So each segment has a place at every moment.
ArchiveInv ==
  /\ ArchiveStates
  /\ FootageIsKept
  /\ \A w \in Movers : mover[w].at = "remove" => mover[w].seg \subseteq files \cup aged
  /\ pass.at = "delete" => pass.listed \subseteq aged

\* A set with at most one element has cardinality at most one.
LEMMA AtMostOneCounts ==
  ASSUME NEW S, AtMostOne(S)
  PROVE  Cardinality(S) <= 1
<1>1. CASE S = {}
  BY <1>1, FS_EmptySet
<1>2. CASE S # {}
  <2>1. PICK x \in S : TRUE
    BY <1>2
  <2>2. S = {x}
    BY <2>1 DEF AtMostOne
  <2>3. Cardinality(S) = 1
    BY <2>2, FS_Singleton, ZenonT(60)
  <2> QED
    BY <2>3
<1> QED
  BY <1>1, <1>2

\* The archive begins in the invariant.
LEMMA ArchiveBegins == ArchiveInit => ArchiveInv
<1> SUFFICES ASSUME ArchiveInit PROVE ArchiveInv
  OBVIOUS
<1>1. Idle \in MoverStates /\ AtMostOne(Idle.seg) /\ AtMostOne(Idle.writing) /\ Idle.at = "off"
  BY DEF Idle, MoverStates, AtMostOne
<1>2. Rest \in PassStates /\ Rest.at = "idle"
  BY DEF Rest, PassStates
<1>3. ArchiveStates
  BY <1>1, <1>2 DEF ArchiveInit, ArchiveStates, Paths_
<1> QED
  BY <1>1, <1>2, <1>3 DEF ArchiveInit, ArchiveInv, FootageIsKept

\* A worker's record with one or more fields replaced is a worker's record.
LEMMA MoverMoves ==
  ASSUME ArchiveStates, NEW w \in Movers,
         NEW m \in MoverStates, AtMostOne(m.seg), AtMostOne(m.writing),
         mover' = [mover EXCEPT ![w] = m]
  PROVE  /\ mover' \in [Movers -> MoverStates]
         /\ \A u \in Movers : AtMostOne(mover'[u].seg) /\ AtMostOne(mover'[u].writing)
BY DEF ArchiveStates

\* Every step of a worker keeps the types.
LEMMA WorkerTypes ==
  ASSUME ArchiveStates, NEW w \in Movers, Worker(w)
  PROVE  ArchiveStates'
<1> DEFINE m == mover[w]
           Good(r) == r \in MoverStates /\ AtMostOne(r.seg) /\ AtMostOne(r.writing)
<1>1. m \in MoverStates /\ AtMostOne(m.seg) /\ AtMostOne(m.writing)
  BY DEF ArchiveStates
<1>2. mover[w] = m
  OBVIOUS
<1>3. Good(Idle)
  BY DEF Idle, MoverStates, AtMostOne
<1>4. AtMostOne({}) /\ \A s : AtMostOne({s})
  BY DEF AtMostOne
<1> HIDE DEF m
<1>5. \A at \in {"off", "up", "sweep", "move", "appear", "remove", "line"} : Good([m EXCEPT !.at = at])
  BY <1>1 DEF MoverStates
<1>6. ASSUME PromoteReturns(w) PROVE \E r : Good(r) /\ mover' = [mover EXCEPT ![w] = r]
  <2> DEFINE left == m.left \ m.seg
             r == [m EXCEPT !.at = IF left = {} THEN "up" ELSE "sweep", !.seg = {}, !.left = left]
  <2>1. Good(r)
    BY <1>1, <1>4 DEF MoverStates
  <2>2. mover' = [mover EXCEPT ![w] = r]
    BY <1>2, <1>6 DEF PromoteReturns
  <2> QED
    BY <2>1, <2>2
<1>7. ASSUME NEW r, Good(r), mover' = [mover EXCEPT ![w] = r], UNCHANGED <<sameFs, pass, over, aged>>,
             spool' \in [Segs -> {"absent", "open", "closed"}], files' \in SUBSET Paths_,
             part' \in SUBSET Segs, lines' \in [Paths_ -> Nat], made' \in SUBSET Segs
      PROVE  ArchiveStates'
  BY <1>7, MoverMoves DEF ArchiveStates
<1> HIDE DEF Good
<1> USE DEF disk, world
<1>8. UNCHANGED disk => /\ spool' \in [Segs -> {"absent", "open", "closed"}] /\ files' \in SUBSET Paths_
                        /\ part' \in SUBSET Segs /\ lines' \in [Paths_ -> Nat]
  BY DEF ArchiveStates
<1>9. UNCHANGED made => made' \in SUBSET Segs
  BY DEF ArchiveStates
<1>10. m.seg \subseteq Segs /\ m.seg \subseteq Paths_ /\ m.writing \subseteq Segs
  BY <1>1 DEF MoverStates, Paths_
<1>11. ASSUME StartWorker(w) PROVE ArchiveStates'
  <2> DEFINE left == {s \in Segs : /\ spool[s] = "closed"
                                   /\ \A u \in Movers : s \notin mover[u].seg}
             r == [m EXCEPT !.at = IF left = {} THEN "up" ELSE "sweep", !.left = left]
  <2>1. Good(r)
    BY <1>1 DEF MoverStates, Good
  <2>2. mover' = [mover EXCEPT ![w] = r]
    BY <1>2, <1>11 DEF StartWorker
  <2> QED
    BY <1>7, <1>8, <1>9, <1>11, <2>1, <2>2 DEF StartWorker
<1>12. ASSUME Sweep(w) PROVE ArchiveStates'
  <2>1. PICK s \in m.left : mover' = [mover EXCEPT ![w] = IF spool[s] = "closed"
                                        THEN [m EXCEPT !.at = "move", !.seg = {s}] ELSE Idle]
    BY <1>2, <1>12 DEF Sweep
  <2>2. Good([m EXCEPT !.at = "move", !.seg = {s}])
    BY <1>1, <1>4 DEF MoverStates, Good
  <2>3. \E r : Good(r) /\ mover' = [mover EXCEPT ![w] = r]
    BY <1>3, <2>1, <2>2
  <2> QED
    BY <1>7, <1>8, <1>9, <1>12, <2>3 DEF Sweep
<1>13. ASSUME NEW s \in Segs, OpenSegment(w, s) PROVE ArchiveStates'
  <2>1. Good([m EXCEPT !.writing = {s}])
    BY <1>1, <1>4 DEF MoverStates, Good
  <2>2. mover' = [mover EXCEPT ![w] = [m EXCEPT !.writing = {s}]]
    BY <1>2, <1>13 DEF OpenSegment
  <2>3. spool' \in [Segs -> {"absent", "open", "closed"}] /\ made' \in SUBSET Segs
    BY <1>13 DEF OpenSegment, ArchiveStates
  <2>4. files' \in SUBSET Paths_ /\ part' \in SUBSET Segs /\ lines' \in [Paths_ -> Nat]
    BY <1>13 DEF OpenSegment, ArchiveStates
  <2> QED
    BY <1>7, <1>13, <2>1, <2>2, <2>3, <2>4 DEF OpenSegment
<1>14. ASSUME CloseSegment(w) PROVE ArchiveStates'
  <2> DEFINE r == [m EXCEPT !.at = "move", !.seg = m.writing, !.writing = {}]
  <2>1. Good(r)
    BY <1>1, <1>4 DEF MoverStates, Good
  <2>2. mover' = [mover EXCEPT ![w] = r]
    BY <1>2, <1>14 DEF CloseSegment
  <2>3. spool' \in [Segs -> {"absent", "open", "closed"}]
    BY <1>14 DEF CloseSegment, ArchiveStates
  <2>4. files' \in SUBSET Paths_ /\ part' \in SUBSET Segs /\ lines' \in [Paths_ -> Nat]
    BY <1>14 DEF CloseSegment, ArchiveStates
  <2> QED
    BY <1>7, <1>9, <1>14, <2>1, <2>2, <2>3, <2>4 DEF CloseSegment
<1>15. Take(w) \in [Segs -> {"absent", "open", "closed"}]
  BY DEF Take, ArchiveStates
<1>16. ASSUME NEW from, NEW to \in {"off", "up", "sweep", "move", "appear", "remove", "line"}, Step(w, from, to)
       PROVE  \E r : Good(r) /\ mover' = [mover EXCEPT ![w] = r]
  <2>1. mover' = [mover EXCEPT ![w] = [m EXCEPT !.at = to]]
    BY <1>2, <1>16 DEF Step
  <2> QED
    BY <1>5, <2>1
<1>17. ASSUME Rename(w) PROVE ArchiveStates'
  <2>1. spool' \in [Segs -> {"absent", "open", "closed"}] /\ files' \in SUBSET Paths_
    BY <1>2, <1>10, <1>15, <1>17 DEF Rename, ArchiveStates
  <2>2. part' \in SUBSET Segs /\ lines' \in [Paths_ -> Nat]
    BY <1>17 DEF Rename, ArchiveStates
  <2> QED
    BY <1>7, <1>9, <1>16, <1>17, <2>1, <2>2 DEF Rename
<1>18. ASSUME Copy(w) \/ Appear(w) PROVE ArchiveStates'
  <2>1. files' \in SUBSET Paths_ /\ part' \in SUBSET Segs
    BY <1>2, <1>10, <1>18 DEF Copy, Appear, ArchiveStates
  <2>2. spool' \in [Segs -> {"absent", "open", "closed"}] /\ lines' \in [Paths_ -> Nat]
    BY <1>18 DEF Copy, Appear, ArchiveStates
  <2> QED
    BY <1>7, <1>9, <1>16, <1>18, <2>1, <2>2 DEF Copy, Appear
<1>19. ASSUME RemoveCopied(w) PROVE ArchiveStates'
  <2>1. spool' \in [Segs -> {"absent", "open", "closed"}]
    BY <1>15, <1>19 DEF RemoveCopied
  <2>2. files' \in SUBSET Paths_ /\ part' \in SUBSET Segs /\ lines' \in [Paths_ -> Nat]
    BY <1>19 DEF RemoveCopied, ArchiveStates
  <2> QED
    BY <1>7, <1>9, <1>16, <1>19, <2>1, <2>2 DEF RemoveCopied
<1>20. ASSUME AppendLine(w) PROVE ArchiveStates'
  <2>1. lines' \in [Paths_ -> Nat]
    BY <1>20 DEF AppendLine, ArchiveStates, Paths_
  <2>2. spool' \in [Segs -> {"absent", "open", "closed"}] /\ files' \in SUBSET Paths_ /\ part' \in SUBSET Segs
    BY <1>20 DEF AppendLine, ArchiveStates
  <2> QED
    BY <1>6, <1>7, <1>9, <1>20, <2>1, <2>2 DEF AppendLine
<1>21. ASSUME Refuse(w) \/ KillWorker(w) PROVE ArchiveStates'
  <2>1. \E r : Good(r) /\ mover' = [mover EXCEPT ![w] = r]
    BY <1>3, <1>6, <1>21 DEF Refuse, KillWorker
  <2>2. spool' \in [Segs -> {"absent", "open", "closed"}]
    BY <1>21 DEF Refuse, KillWorker, ArchiveStates
  <2>3. files' \in SUBSET Paths_ /\ part' \in SUBSET Segs /\ lines' \in [Paths_ -> Nat]
    BY <1>21 DEF Refuse, KillWorker, ArchiveStates
  <2> QED
    BY <1>7, <1>9, <1>21, <2>1, <2>2, <2>3 DEF Refuse, KillWorker
<1> QED
  BY <1>11, <1>12, <1>13, <1>14, <1>17, <1>18, <1>19, <1>20, <1>21 DEF Worker, Promote

\* Every step of the resource job keeps the types.
LEMMA PassTypes ==
  ASSUME ArchiveStates, Pass \/ KillPass
  PROVE  ArchiveStates'
<1> USE DEF disk, world
<1>1. Rest \in PassStates
  BY DEF Rest, PassStates
<1>2. ASSUME pass' \in PassStates, lines' \in [Paths_ -> Nat], files' \in SUBSET Paths_,
             UNCHANGED <<spool, part, mover, over, aged, made>>
      PROVE  ArchiveStates'
  BY <1>2 DEF ArchiveStates
<1>3. \A from, to : to \in {"close", "retain", "platform"} /\ PassStep(from, to) => pass' \in PassStates
  BY DEF PassStep, PassStates, ArchiveStates
<1>4. ASSUME RepairWalk PROVE ArchiveStates'
  <2>1. pass' \in PassStates
    BY <1>4 DEF RepairWalk, PassStates, ArchiveStates, Paths_
  <2> QED
    BY <1>2, <1>4, <2>1 DEF RepairWalk, ArchiveStates
<1>5. ASSUME RepairRewrite PROVE ArchiveStates'
  <2>1. lines' \in [Paths_ -> Nat] /\ files' \in SUBSET Paths_
    BY <1>5 DEF RepairRewrite, ArchiveStates, Paths_
  <2> QED
    BY <1>2, <1>3, <1>5, <2>1 DEF RepairRewrite
<1>6. ASSUME CloseBuckets PROVE ArchiveStates'
  <2>1. lines' \in [Paths_ -> Nat] /\ files' \in SUBSET Paths_
    BY <1>6 DEF CloseBuckets, ArchiveStates, Paths_
  <2> QED
    BY <1>2, <1>3, <1>6, <2>1 DEF CloseBuckets
<1>7. ASSUME RetainRead PROVE ArchiveStates'
  <2>1. \A s \in Segs : lines[s] \in Nat
    BY DEF ArchiveStates, Paths_
  <2>2. pass' \in PassStates
    BY <1>7, <2>1 DEF RetainRead, PassStates, Paths_
  <2> QED
    BY <1>2, <1>7, <2>2 DEF RetainRead, ArchiveStates
<1>8. ASSUME RetainDelete PROVE ArchiveStates'
  <2>1. pass' \in PassStates
    <3>1. PICK s \in pass.listed, to \in {"lines", "delete"} :
            pass' = [pass EXCEPT !.listed = @ \ {s}, !.at = to]
      BY <1>8 DEF RetainDelete
    <3>2. pass \in PassStates
      BY DEF ArchiveStates
    <3> QED
      BY <3>1, <3>2 DEF PassStates
  <2>2. lines' \in [Paths_ -> Nat] /\ files' \in SUBSET Paths_
    BY <1>8 DEF RetainDelete, ArchiveStates
  <2> QED
    BY <1>2, <1>8, <2>1, <2>2 DEF RetainDelete
<1>9. ASSUME RetainRewrite PROVE ArchiveStates'
  <2>1. \A s \in Segs : pass.keep[s] \in Nat
    BY DEF ArchiveStates, PassStates
  <2>2. lines' \in [Paths_ -> Nat] /\ files' \in SUBSET Paths_
    BY <1>9, <2>1 DEF RetainRewrite, ArchiveStates, Paths_
  <2> QED
    BY <1>2, <1>3, <1>9, <2>2 DEF RetainRewrite
<1>10. ASSUME PlatformRetain \/ KillPass PROVE ArchiveStates'
  <2>1. lines' \in [Paths_ -> Nat] /\ files' \in SUBSET Paths_
    BY <1>10 DEF PlatformRetain, KillPass, ArchiveStates
  <2> QED
    BY <1>1, <1>2, <1>10, <2>1 DEF PlatformRetain, KillPass
<1> QED
  BY <1>4, <1>5, <1>6, <1>7, <1>8, <1>9, <1>10 DEF Pass

\* So does every step of the archive.
LEMMA ArchiveTypesStep ==
  ASSUME ArchiveStates, [ArchiveNext]_archiveVars
  PROVE  ArchiveStates'
<1> USE DEF disk, world
<1>1. ASSUME NEW x \in Paths_, Age(x) PROVE ArchiveStates'
  BY <1>1 DEF Age, ArchiveStates, Paths_
<1>2. ASSUME NEW x \in Spans, Observe(x) \/ EndSpan(x) PROVE ArchiveStates'
  BY <1>2 DEF Observe, EndSpan, ArchiveStates, Paths_
<1>3. ASSUME UNCHANGED archiveVars PROVE ArchiveStates'
  BY <1>3 DEF archiveVars, ArchiveStates
<1> QED
  BY <1>1, <1>2, <1>3, WorkerTypes, PassTypes DEF ArchiveNext, Paths_

\* A worker keeps footage: what Take removes is in the archive, or has aged.
LEMMA WorkerKeeps ==
  ASSUME ArchiveInv, NEW w \in Movers, Worker(w), ArchiveStates'
  PROVE  ArchiveInv'
<1> USE DEF disk, world
<1>1. /\ spool \in [Segs -> {"absent", "open", "closed"}] /\ made \subseteq Segs
      /\ mover \in [Movers -> MoverStates]
      /\ FootageIsKept
      /\ \A u \in Movers : mover[u].at = "remove" => mover[u].seg \subseteq files \cup aged
  BY DEF ArchiveInv, ArchiveStates
<1>2. aged' = aged /\ pass' = pass /\ files \subseteq files'
  BY DEF Worker, StartWorker, Sweep, OpenSegment, CloseSegment, KillWorker, Promote,
         Rename, Copy, Appear, RemoveCopied, AppendLine, Refuse
<1>3. ASSUME ~Appear(w) PROVE mover'[w].at # "remove"
  <2>1. ASSUME StartWorker(w) \/ PromoteReturns(w) PROVE mover'[w].at # "remove"
    <3>1. ASSUME NEW at \in {"up", "sweep"}, NEW seg, NEW left,
                 mover' = [mover EXCEPT ![w].at = at, ![w].seg = seg, ![w].left = left]
                 \/ mover' = [mover EXCEPT ![w].at = at, ![w].left = left]
          PROVE  mover'[w].at # "remove"
      BY <1>1, <3>1 DEF MoverStates
    <3> QED
      BY <2>1, <3>1, ZenonT(60) DEF StartWorker, PromoteReturns
  <2>2. ASSUME Sweep(w) PROVE mover'[w].at # "remove"
    BY <1>1, <2>2 DEF Sweep, Idle, MoverStates
  <2>3. ASSUME NEW s \in Segs, OpenSegment(w, s) PROVE mover'[w].at # "remove"
    BY <1>1, <2>3 DEF OpenSegment, MoverStates
  <2>4. ASSUME CloseSegment(w) PROVE mover'[w].at # "remove"
    BY <1>1, <2>4 DEF CloseSegment, MoverStates
  <2>5. ASSUME Rename(w) \/ Copy(w) \/ RemoveCopied(w) PROVE mover'[w].at # "remove"
    BY <1>1, <2>5 DEF Rename, Copy, RemoveCopied, Step, MoverStates
  <2>6. ASSUME mover' = [mover EXCEPT ![w] = Idle] PROVE mover'[w].at # "remove"
    BY <1>1, <2>6 DEF Idle
  <2> QED
    BY <1>3, <2>1, <2>2, <2>3, <2>4, <2>5, <2>6 DEF Worker, Promote, AppendLine, Refuse, KillWorker
<1>4. \A u \in Movers \ {w} : mover'[u] = mover[u]
  BY <1>1 DEF Worker, StartWorker, Sweep, OpenSegment, CloseSegment, KillWorker, Promote,
         Rename, Copy, Appear, RemoveCopied, AppendLine, Refuse, PromoteReturns, Step
<1>5. ASSUME Appear(w) PROVE mover'[w].seg \subseteq files'
  BY <1>1, <1>5 DEF Appear, Step, MoverStates
<1>6. ASSUME NEW u \in Movers, mover'[u].at = "remove" PROVE mover'[u].seg \subseteq files' \cup aged'
  <2>1. CASE u = w
    BY <1>3, <1>5, <1>6, <2>1
  <2>2. CASE u # w
    BY <1>1, <1>2, <1>4, <1>6, <2>2
  <2> QED
    BY <2>1, <2>2
<1>7. FootageIsKept'
  <2>1. ASSUME UNCHANGED <<spool, made>> PROVE FootageIsKept'
    BY <1>1, <1>2, <2>1 DEF FootageIsKept
  <2>2. ASSUME NEW s \in Segs, OpenSegment(w, s) PROVE FootageIsKept'
    BY <1>1, <1>2, <2>2 DEF OpenSegment, FootageIsKept
  <2>3. ASSUME CloseSegment(w) \/ KillWorker(w) \/ Refuse(w) PROVE FootageIsKept'
    BY <1>1, <1>2, <2>3 DEF CloseSegment, KillWorker, Refuse, FootageIsKept
  <2>4. ASSUME Rename(w) PROVE FootageIsKept'
    BY <1>1, <1>2, <2>4 DEF Rename, Take, FootageIsKept
  <2>5. ASSUME RemoveCopied(w) PROVE FootageIsKept'
    BY <1>1, <1>2, <2>5 DEF RemoveCopied, Step, Take, FootageIsKept
  <2> QED
    BY <2>1, <2>2, <2>3, <2>4, <2>5
    DEF Worker, Promote, StartWorker, Sweep, Copy, Appear, AppendLine
<1> QED
  BY <1>2, <1>6, <1>7 DEF ArchiveInv

\* Every step of the archive keeps the invariant.
LEMMA ArchiveStep == ArchiveInv /\ [ArchiveNext]_archiveVars => ArchiveInv'
<1> SUFFICES ASSUME ArchiveInv, [ArchiveNext]_archiveVars PROVE ArchiveInv'
  OBVIOUS
<1> USE DEF disk, world
<1>1. ArchiveStates'
  BY ArchiveTypesStep DEF ArchiveInv
<1>2. ASSUME UNCHANGED <<spool, mover, made>>, aged \subseteq aged', files \subseteq files' \cup aged',
             pass'.at = "delete" => pass'.listed \subseteq aged'
      PROVE  ArchiveInv'
  BY <1>1, <1>2 DEF ArchiveInv, FootageIsKept
<1>3. ASSUME Pass \/ KillPass PROVE ArchiveInv'
  <2>1. pass \in PassStates
    BY DEF ArchiveInv, ArchiveStates
  <2>2. UNCHANGED <<spool, mover, made, aged>>
    BY <1>3 DEF Pass, RepairWalk, RepairRewrite, CloseBuckets, RetainRead, RetainDelete, RetainRewrite,
            PlatformRetain, KillPass
  <2>3. files \subseteq files' \cup aged
    BY <1>3 DEF ArchiveInv, Pass, RepairWalk, RepairRewrite, CloseBuckets, RetainRead, RetainDelete, RetainRewrite,
            PlatformRetain, KillPass
  <2>4. ASSUME pass'.at = "delete" PROVE pass'.listed \subseteq aged
    <3>1. CASE RetainRead
      BY <3>1 DEF RetainRead
    <3>2. CASE RetainDelete
      BY <2>1, <3>2 DEF RetainDelete, PassStates, ArchiveInv
    <3>3. ASSUME RepairWalk PROVE FALSE
      BY <2>1, <2>4, <3>3 DEF RepairWalk, PassStates
    <3>5. ASSUME PlatformRetain \/ KillPass PROVE FALSE
      BY <2>4, <3>5 DEF PlatformRetain, KillPass, Rest
    <3>4. ASSUME RepairRewrite \/ CloseBuckets \/ RetainRewrite PROVE FALSE
      BY <2>1, <2>4, <3>4 DEF RepairRewrite, CloseBuckets, RetainRewrite, PassStep, PassStates
    <3> QED
      BY <1>3, <3>1, <3>2, <3>3, <3>4, <3>5 DEF Pass
  <2> QED
    BY <1>2, <2>2, <2>3, <2>4
<1>4. ASSUME NEW x, Observe(x) \/ EndSpan(x) \/ Age(x) PROVE ArchiveInv'
  <2>1. UNCHANGED <<spool, mover, made, pass>> /\ aged \subseteq aged' /\ files \subseteq files'
    BY <1>4 DEF Observe, EndSpan, Age
  <2> QED
    BY <1>2, <2>1 DEF ArchiveInv
<1>5. ASSUME UNCHANGED archiveVars PROVE ArchiveInv'
  BY <1>2, <1>5 DEF archiveVars, ArchiveInv
<1> QED
  BY <1>1, <1>3, <1>4, <1>5, WorkerKeeps DEF ArchiveNext

\* The invariant holds in every state of the archive.
LEMMA ArchiveInductive == ArchiveSpec => []ArchiveInv
BY ArchiveBegins, ArchiveStep, PTL DEF ArchiveSpec

\* Footage is never lost on its way: _move and promote, whoever is killed, whatever is refused and however
\* many workers promote beside the resource job.
THEOREM ArchiveKeepsFootage == ArchiveSpec => []FootageIsKept
<1>1. ArchiveInv => FootageIsKept
  BY DEF ArchiveInv
<1> QED
  BY <1>1, ArchiveInductive, PTL

\* The types of the archive, and one segment at a time in each worker.
THEOREM ArchiveTypeCorrect == ArchiveSpec => []ArchiveTypeOK
<1>1. ArchiveInv => ArchiveTypeOK
  BY AtMostOneCounts DEF ArchiveInv, ArchiveStates, ArchiveTypeOK, Paths_
<1> QED
  BY <1>1, ArchiveInductive, PTL

-----------------------------------------------------------------------------
\* The event buckets and their index.

EventsSpec == EventsInit /\ [][EventsNext]_eventVars

\* While a bucket is written to, its home has all of it and nobody a copy.
BucketsInv ==
  \A b_ \in Buckets :
    /\ own[b_] = 0 \/ own[b_] = wrote[b_]
    /\ b_ \notin closed => own[b_] = wrote[b_]
    /\ \A s \in Servers : copy[s][b_] = 0 \/ (b_ \in closed /\ copy[s][b_] = wrote[b_])

\* What has not been marked has no rows.
IndexInv == \A b_ \in Buckets : rows[b_] <= wrote[b_] /\ (b_ \notin seen => rows[b_] = 0)

EventsInv == EventsTypeOK /\ wrote \in [Buckets -> Nat] /\ BucketsInv /\ IndexInv

\* The event log begins in the invariant.
LEMMA EventsBegin == EventsInit => EventsInv
BY DEF EventsInit, EventsInv, EventsTypeOK, BucketsInv, IndexInv

\* The heartbeat of a server keeps the types.
LEMMA BeatTypes ==
  ASSUME EventsTypeOK, NEW s \in Servers, Beat(s)
  PROVE  hb' \in [Servers -> [fresh : BOOLEAN, mirrors : SUBSET Servers]]
BY DEF EventsTypeOK, Beat

\* Writing, closing and ageing keep the invariant.
LEMMA BucketSteps ==
  ASSUME EventsInv, NEW b_ \in Buckets, Log(b_) \/ Close(b_) \/ GrowOld(b_)
  PROVE  EventsInv'
<1> USE DEF EventsInv, indexVars
<1>1. ASSUME Log(b_) PROVE EventsInv'
  <2>1. EventsTypeOK' /\ wrote' \in [Buckets -> Nat]
    BY <1>1 DEF Log, EventsTypeOK
  <2>2. BucketsInv'
    BY <1>1 DEF Log, EventsTypeOK, BucketsInv
  <2>3. IndexInv'
    BY <1>1 DEF Log, EventsTypeOK, IndexInv
  <2> QED
    BY <2>1, <2>2, <2>3
<1>2. ASSUME Close(b_) \/ GrowOld(b_) PROVE EventsInv'
  <2>1. EventsTypeOK' /\ wrote' \in [Buckets -> Nat]
    BY <1>2 DEF Close, GrowOld, EventsTypeOK
  <2>2. BucketsInv' /\ IndexInv'
    BY <1>2 DEF Close, GrowOld, BucketsInv, IndexInv
  <2> QED
    BY <2>1, <2>2
<1> QED
  BY <1>1, <1>2

\* The resource job keeps it: retention takes closed buckets, a mirror copies
\* closed ones whole and a restore brings whole copies home.
LEMMA ResourceSteps ==
  ASSUME EventsInv, NEW s \in Servers, Resource(s) \/ Start(s)
  PROVE  EventsInv'
<1> USE DEF EventsInv, indexVars, span
<1>1. ASSUME UNCHANGED <<own, copy, indexVars, span>>, EventsTypeOK' PROVE EventsInv'
  BY <1>1 DEF BucketsInv, IndexInv
<1> DEFINE Jobs == {"down", "boot", "restore", "run", "mirror"}
<1>8. /\ own \in [Buckets -> Nat] /\ copy \in [Servers -> [Buckets -> Nat]] /\ hb \in [Servers -> [fresh : BOOLEAN, mirrors : SUBSET Servers]]
      /\ job \in [Servers -> Jobs] /\ todo \in [Servers -> SUBSET Servers]
  BY DEF EventsTypeOK
<1>9. \A j \in Jobs, T \in SUBSET Servers :
        [job EXCEPT ![s] = j] \in [Servers -> Jobs] /\ [todo EXCEPT ![s] = T] \in [Servers -> SUBSET Servers]
  BY <1>8
<1>11. \A p : [todo EXCEPT ![s] = @ \ {p}] \in [Servers -> SUBSET Servers]
  BY <1>8
<1>10. ASSUME UNCHANGED <<indexVars, span>>, own' \in [Buckets -> Nat], copy' \in [Servers -> [Buckets -> Nat]],
              hb' \in [Servers -> [fresh : BOOLEAN, mirrors : SUBSET Servers]],
              job' \in [Servers -> Jobs], todo' \in [Servers -> SUBSET Servers]
       PROVE  EventsTypeOK'
  BY <1>10 DEF EventsTypeOK
<1>2. ASSUME Boot(s) PROVE EventsInv'
  <2>1. job' \in [Servers -> Jobs] /\ todo' \in [Servers -> SUBSET Servers]
    <3>1. {p \in Live \ {s} : s \in hb[p].mirrors} \in SUBSET Servers
      BY DEF Live
    <3> QED
      BY <1>2, <1>9, <3>1 DEF Boot
  <2>2. EventsTypeOK'
    BY <1>2, <1>8, <1>10, <2>1, BeatTypes DEF Boot
  <2> QED
    BY <1>1, <1>2, <2>2 DEF Boot
<1>3. ASSUME Heartbeat(s) PROVE EventsInv'
  <2>1. EventsTypeOK'
    BY <1>3, BeatTypes DEF Heartbeat, EventsTypeOK
  <2> QED
    BY <1>1, <1>3, <2>1 DEF Heartbeat
<1>4. ASSUME Ready(s) \/ Fade(s) \/ PassDone(s) \/ Start(s) PROVE EventsInv'
  <2>1. job' \in [Servers -> Jobs]
    BY <1>4, <1>8, <1>9 DEF Ready, Fade, PassDone, Start
  <2>2. hb' \in [Servers -> [fresh : BOOLEAN, mirrors : SUBSET Servers]]
    <3>1. [hb[s] EXCEPT !.fresh = FALSE] \in [fresh : BOOLEAN, mirrors : SUBSET Servers]
      <4>1. \A h \in [fresh : BOOLEAN, mirrors : SUBSET Servers] :
              [h EXCEPT !.fresh = FALSE] \in [fresh : BOOLEAN, mirrors : SUBSET Servers]
        OBVIOUS
      <4> QED
        BY <1>8, <4>1, ZenonT(60)
    <3>2. ASSUME Fade(s) PROVE hb' = [hb EXCEPT ![s] = [hb[s] EXCEPT !.fresh = FALSE]]
      BY <3>2 DEF Fade
    <3> QED
      BY <1>4, <1>8, <3>1, <3>2 DEF Ready, PassDone, Start
  <2>3. EventsTypeOK'
    BY <1>4, <1>8, <1>10, <2>1, <2>2 DEF Ready, Fade, PassDone, Start
  <2> QED
    BY <1>1, <1>4, <2>3 DEF Ready, Fade, PassDone, Start
<1>5. ASSUME Retain(s) PROVE EventsInv'
  <2>1. PeersOf(s) \subseteq Servers
    BY DEF PeersOf, Live
  <2>2. EventsTypeOK' /\ wrote' \in [Buckets -> Nat]
    BY <1>5, <2>1 DEF Retain, EventsTypeOK
  <2>3. BucketsInv' /\ IndexInv'
    BY <1>5 DEF Retain, EventsTypeOK, BucketsInv, IndexInv
  <2> QED
    BY <2>2, <2>3
<1>6. ASSUME NEW p \in Servers, Restore(s, p) PROVE EventsInv'
  <2>3. job' \in [Servers -> Jobs] /\ todo' \in [Servers -> SUBSET Servers]
    <3>1. CASE job[p] = "down"
      BY <1>6, <1>9, <3>1 DEF Restore
    <3>2. CASE job[p] # "down"
      BY <1>6, <1>8, <1>11, <3>2 DEF Restore
    <3> QED
      BY <3>1, <3>2
  <2>4. own' \in [Buckets -> Nat]
    BY <1>6, <1>8 DEF Restore
  <2>1. EventsTypeOK' /\ wrote' \in [Buckets -> Nat]
    BY <1>6, <1>8, <1>10, <2>3, <2>4 DEF Restore
  <2>2. BucketsInv' /\ IndexInv'
    BY <1>6 DEF Restore, Holds, EventsTypeOK, BucketsInv, IndexInv
  <2> QED
    BY <2>1, <2>2
<1>7. ASSUME NEW p \in Servers, Mirror(s, p) PROVE EventsInv'
  <2>3. todo' \in [Servers -> SUBSET Servers]
    <3>1. CASE job[p] = "down"
      BY <1>7, <1>9, <3>1 DEF Mirror
    <3>2. CASE job[p] # "down"
      BY <1>7, <1>11, <3>2 DEF Mirror
    <3> QED
      BY <3>1, <3>2
  <2> DEFINE held == [b_ \in Buckets |-> IF b_ \in ToMirror(s, p) THEN own[b_] ELSE copy[p][b_]]
  <2>7. held \in [Buckets -> Nat]
    BY <1>8
  <2>8. copy' = copy \/ copy' = [copy EXCEPT ![p] = held]
    BY <1>7 DEF Mirror
  <2>9. \A b_ \in Buckets : held[b_] = copy[p][b_] \/ (b_ \in closed /\ own[b_] > 0 /\ held[b_] = own[b_])
    BY DEF ToMirror
  <2> HIDE DEF held
  <2>4. \A u \in Servers, b_ \in Buckets :
          copy'[u][b_] = copy[u][b_] \/ (b_ \in closed /\ own[b_] > 0 /\ copy'[u][b_] = own[b_])
    BY <1>8, <2>8, <2>9
  <2>5. copy' \in [Servers -> [Buckets -> Nat]]
    BY <1>8, <2>7, <2>8
  <2>1. EventsTypeOK' /\ wrote' \in [Buckets -> Nat]
    BY <1>7, <1>8, <1>10, <2>3, <2>5 DEF Mirror
  <2>6. UNCHANGED <<own, wrote, closed, rows, seen>>
    BY <1>7 DEF Mirror
  <2>2. BucketsInv' /\ IndexInv'
    <3>1. IndexInv'
      BY <2>6 DEF IndexInv
    <3>2. ASSUME NEW b_ \in Buckets, NEW u \in Servers
          PROVE  copy'[u][b_] = 0 \/ (b_ \in closed' /\ copy'[u][b_] = wrote'[b_])
      BY <1>8, <2>4, <2>6 DEF BucketsInv
    <3> QED
      BY <2>6, <3>1, <3>2 DEF BucketsInv
  <2> QED
    BY <2>1, <2>2
<1> QED
  BY <1>2, <1>3, <1>4, <1>5, <1>6, <1>7 DEF Resource

\* A crash closes the buckets of its server.
LEMMA CrashSteps ==
  ASSUME EventsInv, NEW s \in Servers, Crash(s)
  PROVE  EventsInv'
<1> USE DEF EventsInv, indexVars
<1>1. EventsTypeOK' /\ wrote' \in [Buckets -> Nat]
  <2>1. closed' \subseteq Buckets /\ past' \subseteq closed'
    BY DEF Crash, Mine, EventsTypeOK
  <2>2. own' = own \/ own' = [b_ \in Buckets |-> IF b_ \in Mine(s) THEN 0 ELSE own[b_]]
    BY DEF Crash
  <2>3. own' \in [Buckets -> Nat]
    BY <2>2 DEF EventsTypeOK
  <2>4. copy' = copy \/ copy' = [copy EXCEPT ![s] = [b_ \in Buckets |-> 0]]
    BY DEF Crash
  <2>5. copy' \in [Servers -> [Buckets -> Nat]]
    <3>1. copy \in [Servers -> [Buckets -> Nat]]
      BY DEF EventsTypeOK
    <3>2. [b_ \in Buckets |-> 0] \in [Buckets -> Nat]
      OBVIOUS
    <3> HIDE DEF EventsInv
    <3> QED
      BY <2>4, <3>1, <3>2
  <2>6. job' \in [Servers -> {"down", "boot", "restore", "run", "mirror"}] /\ todo' \in [Servers -> SUBSET Servers]
    BY DEF Crash, EventsTypeOK
  <2>7. UNCHANGED <<hb, rows, seen, wrote>>
    BY DEF Crash
  <2> QED
    BY <2>1, <2>3, <2>5, <2>6, <2>7 DEF EventsTypeOK
<1>2. IndexInv'
  BY DEF Crash, IndexInv
<1>3. \A b_ \in Buckets : \/ own'[b_] = own[b_]
                          \/ own'[b_] = 0 /\ b_ \in closed'
  BY DEF Crash, Mine, EventsTypeOK
<1>4. \A u \in Servers, b_ \in Buckets : copy'[u][b_] = 0 \/ copy'[u][b_] = copy[u][b_]
  <2>1. copy' = copy \/ copy' = [copy EXCEPT ![s] = [b_ \in Buckets |-> 0]]
    BY DEF Crash
  <2>2. copy \in [Servers -> [Buckets -> Nat]]
    BY DEF EventsTypeOK
  <2> QED
    BY <2>1, <2>2
<1>5. wrote' = wrote /\ closed \subseteq closed'
  BY DEF Crash
<1>6. BucketsInv'
  BY <1>3, <1>4, <1>5 DEF BucketsInv
<1> QED
  BY <1>1, <1>2, <1>6

\* The index reads a bucket it has not marked, at home or from a copy.
LEMMA IndexSteps ==
  ASSUME EventsInv, (\E b_ \in Buckets : Read(b_)) \/ Rebuild
  PROVE  EventsInv'
<1> USE DEF EventsInv, span
<1>1. ASSUME NEW b_ \in Buckets, NEW n \in Nat, n <= wrote[b_], b_ \notin seen, Insert(b_, n),
             UNCHANGED <<own, copy, job, todo, hb, span>>
      PROVE  EventsInv'
  <2>1. EventsTypeOK' /\ wrote' \in [Buckets -> Nat]
    BY <1>1 DEF Insert, EventsTypeOK
  <2>2. BucketsInv' /\ IndexInv'
    BY <1>1 DEF Insert, EventsTypeOK, BucketsInv, IndexInv
  <2> QED
    BY <2>1, <2>2
<1>2. ASSUME NEW b_ \in Buckets, TailHome(b_) PROVE EventsInv'
  BY <1>1, <1>2 DEF TailHome, EventsTypeOK, BucketsInv
<1>3. ASSUME NEW b_ \in Buckets, NEW p \in Servers, TailMirror(b_, p) PROVE EventsInv'
  BY <1>1, <1>3 DEF TailMirror, EventsTypeOK, BucketsInv
<1>4. ASSUME Rebuild PROVE EventsInv'
  BY <1>4 DEF Rebuild, EventsTypeOK, BucketsInv, IndexInv
<1> QED
  BY <1>2, <1>3, <1>4 DEF Read

\* Every step of the event log keeps the invariant.
LEMMA EventsStep == EventsInv /\ [EventsNext]_eventVars => EventsInv'
<1>1. ASSUME EventsInv, UNCHANGED eventVars PROVE EventsInv'
  BY <1>1 DEF EventsInv, EventsTypeOK, BucketsInv, IndexInv, eventVars, indexVars, span
<1> QED
  BY <1>1, BucketSteps, ResourceSteps, CrashSteps, IndexSteps DEF EventsNext

\* The invariant holds in every state of the event log.
LEMMA EventsInductive == EventsSpec => []EventsInv
BY EventsBegin, EventsStep, PTL DEF EventsSpec

\* Every copy of a closed bucket, and what a restore brought home, has every line written to it.
THEOREM CopiesAreWhole == EventsSpec => []ClosedBucketIsWhole
<1>1. EventsInv => ClosedBucketIsWhole
  BY DEF EventsInv, BucketsInv, ClosedBucketIsWhole
<1> QED
  BY <1>1, EventsInductive, PTL

\* The index has no event twice, from whichever server and however often it was rebuilt.
THEOREM IndexedAtMostOnce == EventsSpec => []EachEventIndexedOnce
<1>1. EventsInv => EachEventIndexedOnce
  BY DEF EventsInv, IndexInv, EachEventIndexedOnce
<1> QED
  BY <1>1, EventsInductive, PTL

\* The types of buckets, jobs and index.
THEOREM EventsTypeCorrect == EventsSpec => []EventsTypeOK
<1>1. EventsInv => EventsTypeOK
  BY DEF EventsInv
<1> QED
  BY <1>1, EventsInductive, PTL

-----------------------------------------------------------------------------
\* A Node.

NodeSpec == NodeInit /\ [][NodeNext]_nodeVars

CameraRows == [rev : Nat, enabled : BOOLEAN]
Pipes == [on : BOOLEAN, open : Nat, since : Nat, closed : SUBSET Nat, failed : BOOLEAN]
ClosedSegments == [path : Files, start : Nat]

\* The types of all the variables of a Node.
NodeStates ==
  /\ cameraRow \in [Cams -> CameraRows]
  /\ fetched \in [taken : BOOLEAN, rows : [Cams -> CameraRows]]
  /\ actual \in [Cams -> Nat] /\ pipe \in [Cams -> Pipes]
  /\ pending \in SUBSET ClosedSegments /\ writing \in SUBSET ClosedSegments
  /\ file \in 0..MaxFiles /\ trouble \in 0..MaxTrouble
  /\ onDisk \in SUBSET (1..file) /\ spanOf \in [Files -> Nat] /\ doomed \in SUBSET (1..file)

\* A file a pipeline has not handed over yet; one that waits for its row.
Held(f, c) == f \in pipe[c].closed \/ pipe[c].open = f
Queue == pending \cup writing

\* A file is in one place at a time: at the pipeline that opened it, in the
\* queue, in the index, or between its row's deletion and its own.
Custody ==
  /\ \A f \in Nat, c \in Cams : Held(f, c) /\ f # 0 =>
       /\ f <= file /\ spanOf[f] = 0 /\ f \notin doomed
       /\ \A s \in Queue : s.path # f
       /\ \A d \in Cams : Held(f, d) => d = c
       /\ ~(f \in pipe[c].closed /\ pipe[c].open = f)
  /\ \A c \in Cams : 0 \notin pipe[c].closed
  /\ \A s \in Queue : s.path \in onDisk /\ spanOf[s.path] = 0 /\ s.path \notin doomed
  /\ \A s, r \in Queue : s.path = r.path => s = r
  /\ pending \cap writing = {}
  /\ \A f \in Files : spanOf[f] # 0 => f \in onDisk /\ f \notin doomed

\* A start in the queue is that of a file that was opened.
Starts ==
  /\ \A c \in Cams : /\ pipe[c].since \in 0..file
                     /\ pipe[c].closed # {} \/ pipe[c].open # 0 => pipe[c].since # 0
  /\ \A s \in Queue : s.start \in 1..file

HostInv == NodeStates /\ Custody /\ Starts

\* The types at the beginning.
LEMMA NodeBegins == NodeInit => HostInv
<1> SUFFICES ASSUME NodeInit PROVE HostInv
  OBVIOUS
<1>1. NoCamera \in CameraRows
  BY DEF NoCamera, CameraRows
<1>2. NoPipe \in Pipes /\ NoPipe.open = 0 /\ NoPipe.since = 0 /\ NoPipe.closed = {}
  BY DEF NoPipe, Pipes
<1>3. NodeStates
  BY <1>1, <1>2, NodeAssumption DEF NodeInit, NodeStates, Files
<1>4. Custody
  BY <1>2 DEF NodeInit, Custody, Held, Queue
<1>5. Starts
  BY <1>2 DEF NodeInit, Starts, Queue
<1> QED
  BY <1>3, <1>4, <1>5 DEF HostInv

\* What neither opens, closes, indexes nor deletes a file leaves the files where
\* they are, and a pipeline that is replaced or torn down only lets go of some.
LEMMA CustodyKept ==
  ASSUME Custody, pending' \subseteq pending, writing' \subseteq writing,
         UNCHANGED <<file, onDisk, spanOf>>, doomed' \subseteq doomed,
         \A c \in Cams : /\ pipe'[c].closed \subseteq pipe[c].closed
                         /\ pipe'[c].open \in {0, pipe[c].open}
  PROVE  Custody'
<1>1. Queue' \subseteq Queue /\ pending' \cap writing' = {}
  BY DEF Queue, Custody
<1>2. \A f \in Nat, c \in Cams : f # 0 /\ Held(f, c)' => Held(f, c)
  BY DEF Held
<1>3. ASSUME NEW f \in Nat, NEW c \in Cams, Held(f, c)', f # 0
      PROVE  /\ f <= file' /\ spanOf'[f] = 0 /\ f \notin doomed'
             /\ \A s \in Queue' : s.path # f
             /\ \A d \in Cams : Held(f, d)' => d = c
             /\ ~(f \in pipe'[c].closed /\ pipe'[c].open = f)
  BY <1>1, <1>2, <1>3 DEF Custody
<1>4. \A f \in Files : spanOf'[f] # 0 => f \in onDisk' /\ f \notin doomed'
  BY DEF Custody
<1>5. /\ \A s \in Queue' : s.path \in onDisk' /\ spanOf'[s.path] = 0 /\ s.path \notin doomed'
      /\ \A s, r \in Queue' : s.path = r.path => s = r
  BY <1>1 DEF Custody
<1>6. \A c \in Cams : 0 \notin pipe'[c].closed
  BY DEF Custody
<1> QED
  BY <1>1, <1>3, <1>4, <1>5, <1>6 DEF Custody

\* So does what opens no file and queues none leave their starts.
LEMMA StartsKept ==
  ASSUME Starts, pending' \subseteq pending \cup writing, writing' \subseteq pending \cup writing, UNCHANGED file,
         \A c \in Cams : \/ pipe'[c].closed = {} /\ pipe'[c].open = 0 /\ pipe'[c].since = 0
                        \/ /\ pipe'[c].since = pipe[c].since
                           /\ pipe[c].closed = {} /\ pipe[c].open = 0 => pipe'[c].closed = {} /\ pipe'[c].open = 0
  PROVE  file \in Nat => Starts'
<1>1. Queue' \subseteq Queue
  BY DEF Queue
<1>2. ASSUME NEW c \in Cams, file \in Nat
      PROVE  pipe'[c].since \in 0..file /\ (pipe'[c].closed # {} \/ pipe'[c].open # 0 => pipe'[c].since # 0)
  BY <1>2 DEF Starts
<1> QED
  BY <1>1, <1>2 DEF Starts

\* The fields of a pipeline's record.
LEMMA PipeFields ==
  ASSUME NEW k \in Pipes
  PROVE  k.open \in Nat /\ k.since \in Nat /\ k.closed \in SUBSET Nat
BY DEF Pipes
LEMMA PipeEmpty ==
  /\ NoPipe \in Pipes /\ NoPipe.open = 0 /\ NoPipe.since = 0 /\ NoPipe.closed = {}
  /\ Started \in Pipes /\ Started.open = 0 /\ Started.since = 0 /\ Started.closed = {}
BY DEF NoPipe, Started, Pipes

\* A pipeline's record with fields replaced is a pipeline's record.
Opened(k, o, n, C) == [k EXCEPT !.open = o, !.since = n, !.closed = C]
LEMMA PipeOpens ==
  ASSUME NEW k \in Pipes, NEW o \in Nat, NEW n \in Nat, NEW C \in SUBSET Nat
  PROVE  /\ Opened(k, o, n, C) \in Pipes
         /\ Opened(k, o, n, C).open = o
         /\ Opened(k, o, n, C).since = n
         /\ Opened(k, o, n, C).closed = C
BY DEF Pipes, Opened
Ended(k, C) == [k EXCEPT !.open = 0, !.closed = C]
LEMMA PipeCloses ==
  ASSUME NEW k \in Pipes, NEW C \in SUBSET Nat
  PROVE  /\ Ended(k, C) \in Pipes
         /\ Ended(k, C).open = 0
         /\ Ended(k, C).since = k.since
         /\ Ended(k, C).closed = C
BY DEF Pipes, Ended
Drained(k) == [k EXCEPT !.closed = {}]
LEMMA PipeDrained ==
  ASSUME NEW k \in Pipes
  PROVE  /\ Drained(k) \in Pipes
         /\ Drained(k).open = k.open
         /\ Drained(k).since = k.since
         /\ Drained(k).closed = {}
BY DEF Pipes, Drained
Failed(k) == [k EXCEPT !.failed = TRUE]
LEMMA PipeFails ==
  ASSUME NEW k \in Pipes
  PROVE  /\ Failed(k) \in Pipes
         /\ Failed(k).open = k.open
         /\ Failed(k).since = k.since
         /\ Failed(k).closed = k.closed
BY DEF Pipes, Failed

\* One pipeline's record replaced.
LEMMA PipeMoves ==
  ASSUME NodeStates, NEW c \in Cams, NEW k \in Pipes, pipe' = [pipe EXCEPT ![c] = k]
  PROVE  pipe' \in [Cams -> Pipes] /\ pipe'[c] = k /\ \A d \in Cams : d # c => pipe'[d] = pipe[d]
BY DEF NodeStates

\* The steps that touch neither a pipeline nor a file keep the invariant.
LEMMA QuietNodeSteps ==
  ASSUME HostInv,
         \/ Fetch \/ TakePending \/ InsertFails \/ RetainDone \/ DiskChanges \/ LastReport
         \/ \E c \in Cams : Order(c) \/ BackoffEnds(c)
  PROVE  HostInv'
<1> USE DEF HostInv, rowVars, hostVars, archiveState
<1>1. ASSUME NEW c \in Cams, Order(c) PROVE NodeStates'
  <2>1. NoCamera \in CameraRows
    BY DEF NoCamera, CameraRows
  <2>2. \A e \in BOOLEAN : [rev |-> cameraRow[c].rev + 1, enabled |-> e] \in CameraRows
    BY DEF NodeStates, CameraRows
  <2>3. cameraRow' \in [Cams -> CameraRows]
    BY <1>1, <2>1, <2>2 DEF Order, NodeStates
  <2> QED
    BY <1>1, <2>3 DEF Order, NodeStates
<1>2. ASSUME Fetch PROVE NodeStates'
  BY <1>2 DEF Fetch, NodeStates
<1>3. ASSUME TakePending \/ LastReport PROVE NodeStates'
  BY <1>3 DEF TakePending, LastReport, NodeStates
<1>4. ASSUME InsertFails PROVE NodeStates'
  BY <1>4, NodeAssumption DEF InsertFails, NodeStates
<1>5. ASSUME RetainDone PROVE NodeStates'
  BY <1>5 DEF RetainDone, NodeStates
<1>6. ASSUME DiskChanges PROVE NodeStates'
  BY <1>6, NodeAssumption DEF DiskChanges, NodeStates
<1>7. ASSUME NEW c \in Cams, BackoffEnds(c) PROVE NodeStates'
  BY <1>7 DEF BackoffEnds, NodeStates
<1>8. NodeStates'
  BY <1>1, <1>2, <1>3, <1>4, <1>5, <1>6, <1>7
<1>9. ASSUME TakePending \/ LastReport PROVE Custody'
  <2>1. Queue' = Queue /\ pending' = {}
    BY <1>9 DEF TakePending, LastReport, Queue
  <2>2. UNCHANGED <<file, onDisk, spanOf, doomed, pipe>>
    BY <1>9 DEF TakePending, LastReport
  <2> QED
    BY <2>1, <2>2 DEF Custody, Held
<1>10. ASSUME \/ Fetch \/ InsertFails \/ RetainDone \/ DiskChanges
              \/ \E c \in Cams : Order(c) \/ BackoffEnds(c)
       PROVE  Custody'
  <2>1. pending' \subseteq pending /\ writing' \subseteq writing /\ UNCHANGED <<file, onDisk, spanOf, doomed, pipe>>
    BY <1>10 DEF Fetch, InsertFails, RetainDone, DiskChanges, Order, BackoffEnds
  <2> QED
    BY <2>1, CustodyKept
<1>11. Starts'
  <2>1. pending' \subseteq pending \cup writing /\ writing' \subseteq pending \cup writing /\ UNCHANGED <<file, pipe>>
    BY DEF Fetch, InsertFails, RetainDone, DiskChanges, Order, BackoffEnds, TakePending, LastReport
  <2>2. file \in Nat
    BY NodeAssumption DEF NodeStates
  <2> QED
    BY <2>1, <2>2, StartsKept
<1> QED
  BY <1>8, <1>9, <1>10, <1>11

\* A row is inserted for a file that waits in the queue and nowhere else; a row
\* is deleted before its file.
LEMMA IndexNodeSteps ==
  ASSUME HostInv, InsertRow \/ RetainRows \/ RetainFiles
  PROVE  HostInv'
<1> USE DEF HostInv, rowVars, hostVars
<1>4. file \in Nat
  BY NodeAssumption DEF NodeStates
<1>1. ASSUME InsertRow PROVE HostInv'
  <2>1. PICK s \in writing : /\ writing' = writing \ {s}
                             /\ spanOf' = [spanOf EXCEPT ![s.path] = s.start]
    BY <1>1 DEF InsertRow
  <2>2. UNCHANGED <<pending, file, onDisk, doomed, pipe>>
    BY <1>1 DEF InsertRow
  <2>3. s \in ClosedSegments /\ s.path \in Files /\ s.start \in Nat
    BY <2>1 DEF NodeStates, ClosedSegments
  <2>4. NodeStates'
    BY <1>1, <2>1, <2>3 DEF InsertRow, NodeStates
  <2>5. s \in Queue /\ s.path \in onDisk /\ s.path \notin doomed
    BY <2>1 DEF Queue, Custody
  <2>6. \A f \in Files : f # s.path => spanOf'[f] = spanOf[f]
    BY <2>1 DEF NodeStates
  <2>7. Queue' \subseteq Queue /\ s \notin Queue'
    BY <2>1, <2>2 DEF Queue, Custody
  <2>8. \A r \in Queue' : r.path # s.path /\ r.path \in Files
    BY <2>5, <2>7 DEF Custody, Queue, NodeStates, ClosedSegments
  <2>9. \A f \in Nat, c \in Cams : Held(f, c) /\ f # 0 => f # s.path /\ f \in Files
    <3>1. \A f \in Nat, c \in Cams : Held(f, c) /\ f # 0 => f # s.path /\ f <= file
      BY <2>5 DEF Custody
    <3>2. file \in 0..MaxFiles /\ MaxFiles \in Nat
      BY NodeAssumption DEF NodeStates
    <3> QED
      BY <3>1, <3>2 DEF Files
  <2>10. Custody'
    <3>1. ASSUME NEW f \in Nat, NEW c \in Cams, Held(f, c)', f # 0
          PROVE  /\ f <= file' /\ spanOf'[f] = 0 /\ f \notin doomed'
                 /\ \A r \in Queue' : r.path # f
                 /\ \A d \in Cams : Held(f, d)' => d = c
                 /\ ~(f \in pipe'[c].closed /\ pipe'[c].open = f)
      <4>1. Held(f, c) /\ \A d \in Cams : Held(f, d)' <=> Held(f, d)
        BY <2>2, <3>1 DEF Held
      <4> QED
        BY <2>2, <2>6, <2>7, <2>9, <3>1, <4>1 DEF Custody
    <3>2. \A r \in Queue' : r.path \in onDisk' /\ spanOf'[r.path] = 0 /\ r.path \notin doomed'
      BY <2>2, <2>6, <2>7, <2>8 DEF Custody
    <3>3. \A f \in Files : spanOf'[f] # 0 => f \in onDisk' /\ f \notin doomed'
      BY <2>2, <2>5, <2>6 DEF Custody
    <3>4. /\ \A q, r \in Queue' : q.path = r.path => q = r
          /\ pending' \cap writing' = {}
          /\ \A c \in Cams : 0 \notin pipe'[c].closed
      BY <2>1, <2>2, <2>7 DEF Custody
    <3> QED
      BY <3>1, <3>2, <3>3, <3>4 DEF Custody
  <2>11. Starts'
    BY <1>4, <2>1, <2>2, StartsKept
  <2> QED
    BY <2>4, <2>10, <2>11
<1>2. ASSUME RetainRows PROVE HostInv'
  <2>1. PICK old \in SUBSET Indexed :
          /\ spanOf' = [f \in Files |-> IF f \in old THEN 0 ELSE spanOf[f]]
          /\ onDisk' = onDisk /\ doomed' = old
    BY <1>2 DEF RetainRows, Delete, Deletes
  <2>2. UNCHANGED <<pending, writing, file, pipe>> /\ doomed = {}
    BY <1>2 DEF RetainRows
  <2>3. \A f \in old : f \in Files /\ spanOf[f] # 0 /\ f \in onDisk
    BY <2>1 DEF Indexed, Custody
  <2>4. NodeStates'
    BY <1>2, <2>1, <2>3 DEF RetainRows, NodeStates
  <2>5. \A f \in Files : spanOf'[f] = IF f \in old THEN 0 ELSE spanOf[f]
    BY <2>1
  <2>6. \A s \in Queue : s.path \in Files /\ s.path \notin old
    BY <2>3 DEF Custody, Queue, NodeStates, ClosedSegments
  <2>7. \A f \in Nat, c \in Cams : Held(f, c) /\ f # 0 => f \in Files /\ f \notin old
    <3>1. file \in 0..MaxFiles /\ MaxFiles \in Nat
      BY NodeAssumption DEF NodeStates
    <3> QED
      BY <2>3, <3>1 DEF Custody, Files
  <2>8. Custody'
    <3>1. ASSUME NEW f \in Nat, NEW c \in Cams, Held(f, c)', f # 0
          PROVE  /\ f <= file' /\ spanOf'[f] = 0 /\ f \notin doomed'
                 /\ \A r \in Queue' : r.path # f
                 /\ \A d \in Cams : Held(f, d)' => d = c
                 /\ ~(f \in pipe'[c].closed /\ pipe'[c].open = f)
      <4>1. Held(f, c) /\ \A d \in Cams : Held(f, d)' <=> Held(f, d)
        BY <2>2, <3>1 DEF Held
      <4>2. Queue' = Queue
        BY <2>2 DEF Queue
      <4> QED
        BY <2>1, <2>2, <2>5, <2>7, <3>1, <4>1, <4>2 DEF Custody
    <3>2. \A r \in Queue' : r.path \in onDisk' /\ spanOf'[r.path] = 0 /\ r.path \notin doomed'
      BY <2>1, <2>2, <2>5, <2>6 DEF Custody, Queue
    <3>3. \A f \in Files : spanOf'[f] # 0 => f \in onDisk' /\ f \notin doomed'
      BY <2>1, <2>5 DEF Custody
    <3>4. /\ \A q, r \in Queue' : q.path = r.path => q = r
          /\ pending' \cap writing' = {}
          /\ \A c \in Cams : 0 \notin pipe'[c].closed
      BY <2>2 DEF Custody, Queue
    <3> QED
      BY <3>1, <3>2, <3>3, <3>4 DEF Custody
  <2>9. Starts'
    BY <1>4, <2>2, StartsKept
  <2> QED
    BY <2>4, <2>8, <2>9
<1>3. ASSUME RetainFiles PROVE HostInv'
  <2>1. spanOf' = spanOf /\ onDisk' = onDisk \ doomed /\ doomed' = {}
    BY <1>3 DEF RetainFiles, Delete, Deletes
  <2>2. UNCHANGED <<pending, writing, file, pipe>>
    BY <1>3 DEF RetainFiles
  <2>3. NodeStates'
    BY <1>3, <2>1 DEF RetainFiles, NodeStates
  <2>4. Queue' = Queue /\ \A f, c : Held(f, c)' <=> Held(f, c)
    BY <2>2 DEF Queue, Held
  <2>5. Custody'
    BY <2>1, <2>2, <2>4 DEF Custody
  <2>6. Starts'
    BY <1>4, <2>2, StartsKept
  <2> QED
    BY <2>3, <2>5, <2>6
<1> QED
  BY <1>1, <1>2, <1>3

\* A pass of the reconciler starts, restarts and stops pipelines; it opens no file.
LEMMA ReconcileStep ==
  ASSUME HostInv, Reconcile
  PROVE  HostInv'
<1> USE DEF HostInv, rowVars, archiveState
<1>1. NoPipe \in Pipes /\ NoPipe.open = 0 /\ NoPipe.since = 0 /\ NoPipe.closed = {}
  BY PipeEmpty
<1>2. Started \in Pipes /\ Started.open = 0 /\ Started.since = 0 /\ Started.closed = {}
  BY PipeEmpty
<1> DEFINE due == {c \in Cams : Due(c)}
<1>3. PICK bad \in SUBSET due :
        /\ trouble' = trouble + (IF allowed THEN Cardinality(bad) ELSE 0) /\ trouble' <= MaxTrouble
        /\ LET ok == IF allowed THEN due \ bad ELSE {} IN
           /\ actual' = [c \in Cams |-> IF c \in ok THEN fetched.rows[c].rev ELSE IF c \in Unwanted THEN 0 ELSE actual[c]]
           /\ pipe' = [c \in Cams |-> IF c \in ok THEN Started
                                      ELSE IF c \in Unwanted \/ (c \in due /\ allowed) THEN NoPipe ELSE pipe[c]]
  BY DEF Reconcile
<1>4. UNCHANGED <<cameraRow, pending, writing, file, onDisk, spanOf, doomed>> /\ fetched' = [fetched EXCEPT !.taken = FALSE]
  BY DEF Reconcile
<1>5. Cardinality(bad) \in Nat
  <2>1. bad \in SUBSET Cams
    OBVIOUS
  <2>2. IsFiniteSet(bad)
    BY <2>1, NodeAssumption, FS_Subset
  <2> QED
    BY <2>2, FS_CardinalityType
<1>6. trouble' \in 0..MaxTrouble
  BY <1>3, <1>5, NodeAssumption DEF NodeStates
<1>7. \A c \in Cams : fetched.rows[c].rev \in Nat
  BY DEF NodeStates, CameraRows
<1>8. actual' \in [Cams -> Nat]
  BY <1>3, <1>7 DEF NodeStates
<1>9. \A c \in Cams : pipe'[c] \in {Started, NoPipe, pipe[c]}
  BY <1>3
<1>10. pipe' \in [Cams -> Pipes]
  BY <1>1, <1>2, <1>3 DEF NodeStates
<1>11. fetched' \in [taken : BOOLEAN, rows : [Cams -> CameraRows]]
  BY <1>4 DEF NodeStates
<1>12. NodeStates'
  BY <1>4, <1>6, <1>8, <1>10, <1>11 DEF NodeStates
<1>13. \A c \in Cams : pipe'[c].closed \subseteq pipe[c].closed /\ pipe'[c].open \in {0, pipe[c].open}
  BY <1>1, <1>2, <1>9
<1>14. Custody'
  BY <1>4, <1>13, CustodyKept
<1>15. file \in Nat
  BY NodeAssumption DEF NodeStates
<1>16. Starts'
  BY <1>1, <1>2, <1>4, <1>9, <1>15, StartsKept
<1> QED
  BY <1>12, <1>14, <1>16

\* A fragment is opened under a number no file had.
LEMMA OpenStep ==
  ASSUME HostInv, NEW c \in Cams, OpenFragment(c)
  PROVE  HostInv'
<1> USE DEF HostInv, rowVars
<1>1. PICK k \in Pipes : k = pipe[c]
  BY DEF NodeStates
<1>2. file \in Nat /\ file' = file + 1 /\ file' \in Files /\ file' \in 0..MaxFiles
  BY NodeAssumption DEF OpenFragment, NodeStates, Files
<1>3. PICK r \in Pipes : /\ pipe' = [pipe EXCEPT ![c] = r]
                         /\ r.open = file + 1 /\ r.since = file + 1 /\ r.closed = k.closed \cup ({k.open} \ {0})
  <2>1. PICK C \in SUBSET Nat : C = k.closed \cup ({k.open} \ {0})
    BY PipeFields
  <2>2. PICK n \in Nat : n = file + 1
    BY <1>2
  <2>3. pipe' = [pipe EXCEPT ![c] = Opened(k, n, n, C)]
    BY <1>1, <2>1, <2>2 DEF OpenFragment, Opened
  <2>4. PICK r \in Pipes : r = Opened(k, n, n, C)
    BY <2>1, <2>2, PipeOpens
  <2>5. r.open = n /\ r.since = n /\ r.closed = C
    <3>1. /\ Opened(k, n, n, C).open = n /\ Opened(k, n, n, C).since = n
          /\ Opened(k, n, n, C).closed = C
      BY <2>1, <2>2, PipeOpens
    <3> QED
      BY <2>4, <3>1
  <2>6. pipe' = [pipe EXCEPT ![c] = r]
    BY <2>3, <2>4, ZenonT(60)
  <2> QED
    BY <2>1, <2>2, <2>5, <2>6, ZenonT(60)
<1>4. pipe' \in [Cams -> Pipes] /\ pipe'[c] = r /\ \A d \in Cams : d # c => pipe'[d] = pipe[d]
  BY <1>3, PipeMoves
<1>5. UNCHANGED <<cameraRow, fetched, actual, pending, writing, spanOf, doomed, trouble>> /\ onDisk' = onDisk \cup {file + 1}
  BY DEF OpenFragment
<1>6. NodeStates'
  BY <1>2, <1>4, <1>5 DEF NodeStates
<1>7. \A f \in Nat, d \in Cams : f # 0 => (Held(f, d)' <=> Held(f, d) \/ (d = c /\ f = file + 1))
  BY <1>1, <1>3, <1>4 DEF Held
<1>8. /\ file + 1 \notin doomed /\ spanOf[file + 1] = 0
      /\ \A s \in Queue : s.path # file + 1
      /\ \A d \in Cams : ~Held(file + 1, d)
  <2>1. file + 1 \notin onDisk /\ file + 1 \notin doomed /\ file + 1 # 0 /\ file + 1 \in Files /\ file + 1 \in Nat /\ ~(file + 1 <= file)
    BY <1>2 DEF NodeStates
  <2> QED
    BY <2>1 DEF Custody
<1>9. Queue' = Queue
  BY <1>5 DEF Queue
<1>10. Custody'
  <2>1. ASSUME NEW f \in Nat, NEW d \in Cams, Held(f, d)', f # 0
        PROVE  /\ f <= file' /\ spanOf'[f] = 0 /\ f \notin doomed'
               /\ \A s \in Queue' : s.path # f
               /\ \A e \in Cams : Held(f, e)' => e = d
               /\ ~(f \in pipe'[d].closed /\ pipe'[d].open = f)
    <3>1. CASE f = file + 1
      <4>1. f \notin pipe'[d].closed
        <5>1. CASE d = c
          BY <1>1, <1>3, <1>4, <1>8, <3>1, <5>1 DEF Held
        <5>2. CASE d # c
          BY <1>4, <1>8, <3>1, <5>2 DEF Held
        <5> QED
          BY <5>1, <5>2
      <4> QED
        BY <1>2, <1>5, <1>7, <1>8, <1>9, <2>1, <3>1, <4>1
    <3>2. CASE f # file + 1
      <4>1. Held(f, d) /\ f <= file
        BY <1>7, <2>1, <3>2 DEF Custody
      <4>2. ~(f \in pipe'[d].closed /\ pipe'[d].open = f)
        <5>1. CASE d = c
          BY <1>3, <1>4, <3>2, <5>1
        <5>2. CASE d # c
          BY <1>4, <2>1, <4>1, <5>2 DEF Custody
        <5> QED
          BY <5>1, <5>2
      <4> QED
        BY <1>2, <1>5, <1>7, <1>9, <2>1, <3>2, <4>1, <4>2 DEF Custody
    <3> QED
      BY <3>1, <3>2
  <2>2. /\ \A s \in Queue' : s.path \in onDisk' /\ spanOf'[s.path] = 0 /\ s.path \notin doomed'
        /\ \A s, q \in Queue' : s.path = q.path => s = q
        /\ pending' \cap writing' = {}
        /\ \A f \in Files : spanOf'[f] # 0 => f \in onDisk' /\ f \notin doomed'
    BY <1>5, <1>9 DEF Custody
  <2>3. \A d \in Cams : 0 \notin pipe'[d].closed
    BY <1>1, <1>3, <1>4 DEF Custody
  <2> QED
    BY <2>1, <2>2, <2>3 DEF Custody
<1>11. Starts'
  BY <1>2, <1>3, <1>4, <1>5, <1>9 DEF Starts
<1> QED
  BY <1>6, <1>10, <1>11

\* The open fragment becomes a closed one of the same pipeline.
LEMMA CloseStep ==
  ASSUME HostInv, NEW c \in Cams, CloseFragment(c)
  PROVE  HostInv'
<1> USE DEF HostInv, rowVars, archiveState
<1>1. PICK k \in Pipes : k = pipe[c]
  BY DEF NodeStates
<1>2. k.open \in Nat /\ k.open # 0 /\ k.closed \in SUBSET Nat
  BY <1>1, PipeFields DEF CloseFragment
<1>3. PICK r \in Pipes : /\ pipe' = [pipe EXCEPT ![c] = r]
                         /\ r.open = 0 /\ r.since = k.since /\ r.closed = k.closed \cup {k.open}
  <2>1. PICK C \in SUBSET Nat : C = k.closed \cup {k.open}
    BY <1>2
  <2>2. pipe' = [pipe EXCEPT ![c] = Ended(k, C)]
    BY <1>1, <2>1 DEF CloseFragment, Ended
  <2>3. /\ Ended(k, C) \in Pipes /\ Ended(k, C).open = 0
        /\ Ended(k, C).since = k.since /\ Ended(k, C).closed = C
    BY PipeCloses
  <2> QED
    BY <2>1, <2>2, <2>3
<1>4. pipe' \in [Cams -> Pipes] /\ pipe'[c] = r /\ \A d \in Cams : d # c => pipe'[d] = pipe[d]
  BY <1>3, PipeMoves
<1>5. UNCHANGED <<cameraRow, fetched, actual, pending, writing, file, onDisk, spanOf, doomed, trouble>>
  BY DEF CloseFragment
<1>6. NodeStates'
  BY <1>4, <1>5 DEF NodeStates
<1>7. \A f \in Nat, d \in Cams : f # 0 => (Held(f, d)' <=> Held(f, d))
  BY <1>1, <1>2, <1>3, <1>4 DEF Held
<1>8. Queue' = Queue
  BY <1>5 DEF Queue
<1>9. \A d \in Cams : 0 \notin pipe'[d].closed
  BY <1>1, <1>2, <1>3, <1>4 DEF Custody
<1>10. ASSUME NEW f \in Nat, NEW d \in Cams, Held(f, d)', f # 0
       PROVE  /\ f <= file' /\ spanOf'[f] = 0 /\ f \notin doomed'
              /\ \A s \in Queue' : s.path # f
              /\ \A e \in Cams : Held(f, e)' => e = d
              /\ ~(f \in pipe'[d].closed /\ pipe'[d].open = f)
  <2>1. ~(f \in pipe'[d].closed /\ pipe'[d].open = f)
    BY <1>3, <1>4, <1>7, <1>10 DEF Custody
  <2> QED
    BY <1>5, <1>7, <1>8, <1>10, <2>1 DEF Custody
<1>11. /\ \A s \in Queue' : s.path \in onDisk' /\ spanOf'[s.path] = 0 /\ s.path \notin doomed'
       /\ \A s, q \in Queue' : s.path = q.path => s = q
       /\ pending' \cap writing' = {}
       /\ \A f \in Files : spanOf'[f] # 0 => f \in onDisk' /\ f \notin doomed'
  BY <1>5, <1>8 DEF Custody
<1>12. Custody'
  BY <1>9, <1>10, <1>11 DEF Custody
<1>13. file \in Nat
  BY NodeAssumption DEF NodeStates
<1>14. Starts'
  BY <1>1, <1>2, <1>3, <1>4, <1>5, <1>13, StartsKept
<1> QED
  BY <1>6, <1>12, <1>14

\* A pipeline fails where it is.
LEMMA FailStep ==
  ASSUME HostInv, NEW c \in Cams, StreamFails(c)
  PROVE  HostInv'
<1> USE DEF HostInv, rowVars, archiveState
<1>1. PICK k \in Pipes : k = pipe[c]
  BY DEF NodeStates
<1>2. PICK r \in Pipes : r = Failed(k) /\ r.open = k.open /\ r.since = k.since /\ r.closed = k.closed
  BY PipeFails
<1>3. pipe' = [pipe EXCEPT ![c] = r]
  BY <1>1, <1>2 DEF StreamFails, Failed
<1>4. pipe' \in [Cams -> Pipes] /\ pipe'[c] = r /\ \A d \in Cams : d # c => pipe'[d] = pipe[d]
  BY <1>3, PipeMoves
<1>5. UNCHANGED <<cameraRow, fetched, actual, pending, writing, file, onDisk, spanOf, doomed>> /\ trouble' \in 0..MaxTrouble
  BY NodeAssumption DEF StreamFails, NodeStates
<1>6. NodeStates'
  BY <1>4, <1>5 DEF NodeStates
<1>7. \A d \in Cams : pipe'[d].closed \subseteq pipe[d].closed /\ pipe'[d].open \in {0, pipe[d].open}
  BY <1>1, <1>2, <1>4
<1>8. Custody'
  BY <1>5, <1>7, CustodyKept
<1>9. file \in Nat
  BY NodeAssumption DEF NodeStates
<1>10. Starts'
  BY <1>1, <1>2, <1>4, <1>5, <1>9, StartsKept
<1> QED
  BY <1>6, <1>8, <1>10

\* Closed fragments whose file is there pass from the bus into the queue; with a
\* failed pipeline the rest is dropped.
LEMMA PumpStep ==
  ASSUME HostInv, NEW c \in Cams, Pump(c)
  PROVE  HostInv'
<1> USE DEF HostInv, rowVars, archiveState
<1>1. PICK k \in Pipes : k = pipe[c]
  BY DEF NodeStates
<1>2. PICK read \in SUBSET k.closed :
        pending' = pending \cup {[path |-> f, start |-> k.since] : f \in read \cap onDisk}
  BY <1>1 DEF Pump
<1>3. k.closed \in SUBSET Nat /\ k.open \in Nat /\ k.since \in Nat
  BY DEF Pipes
<1>4. PICK r \in Pipes : /\ pipe' = [pipe EXCEPT ![c] = r]
                         /\ (r.open = 0 /\ r.since = 0) \/ (r.open = k.open /\ r.since = k.since)
                         /\ r.closed = {}
  <2>1. CASE pipe[c].failed
    <3>1. NoPipe \in Pipes /\ NoPipe.open = 0 /\ NoPipe.since = 0 /\ NoPipe.closed = {}
      BY PipeEmpty
    <3>2. pipe' = [pipe EXCEPT ![c] = NoPipe]
      BY <2>1 DEF Pump
    <3>3. PICK r \in Pipes : r = NoPipe
      BY <3>1
    <3>4. r.open = 0 /\ r.since = 0 /\ r.closed = {}
      BY <3>1, <3>3
    <3>5. pipe' = [pipe EXCEPT ![c] = r]
      BY <3>2, <3>3
    <3> QED
      BY <3>4, <3>5, ZenonT(60)
  <2>2. CASE ~pipe[c].failed
    <3>1. Drained(k) \in Pipes /\ Drained(k).open = k.open /\ Drained(k).since = k.since /\ Drained(k).closed = {}
      BY PipeDrained
    <3>2. pipe' = [pipe EXCEPT ![c] = Drained(k)]
      BY <1>1, <2>2 DEF Pump, Drained
    <3> QED
      BY <3>1, <3>2
  <2> QED
    BY <2>1, <2>2
<1>5. pipe' \in [Cams -> Pipes] /\ pipe'[c] = r /\ \A d \in Cams : d # c => pipe'[d] = pipe[d]
  BY <1>4, PipeMoves
<1>6. UNCHANGED <<cameraRow, fetched, writing, file, onDisk, spanOf, doomed, trouble>>
  BY DEF Pump
<1>7. actual' \in [Cams -> Nat]
  BY DEF Pump, NodeStates
<1> DEFINE New == {[path |-> f, start |-> k.since] : f \in read \cap onDisk}
<1>8. \A s \in New : /\ s \in ClosedSegments /\ s.start = k.since
                     /\ s.path \in read /\ s.path \in onDisk /\ s.path \in Files
  <2>1. \A f \in onDisk : f \in Files
    BY NodeAssumption DEF NodeStates, Files
  <2> QED
    BY <1>3, <2>1 DEF ClosedSegments
<1>9. pending' = pending \cup New
  BY <1>2
<1> HIDE DEF New
<1>10. NodeStates'
  <2>1. pending' \in SUBSET ClosedSegments
    BY <1>8, <1>9 DEF NodeStates
  <2> QED
    BY <1>5, <1>6, <1>7, <2>1 DEF NodeStates
<1>11. Queue' = Queue \cup New
  BY <1>6, <1>9 DEF Queue
<1>12. \A s \in New : /\ s.path \in Nat /\ s.path # 0 /\ Held(s.path, c)
                      /\ \A d \in Cams : ~Held(s.path, d)'
                      /\ \A q \in Queue : q.path # s.path
                      /\ spanOf[s.path] = 0 /\ s.path \notin doomed
  <2> TAKE s \in New
  <2>1. s.path \in k.closed /\ s.path \in Nat
    BY <1>2, <1>3, <1>8
  <2>2. s.path # 0 /\ Held(s.path, c)
    BY <1>1, <2>1 DEF Held, Custody
  <2>3. \A d \in Cams : Held(s.path, d) => d = c
    BY <2>1, <2>2 DEF Custody
  <2>4. s.path # k.open
    BY <1>1, <2>1, <2>2 DEF Custody
  <2>5. \A d \in Cams : ~Held(s.path, d)'
    BY <1>4, <1>5, <2>2, <2>3, <2>4 DEF Held
  <2> QED
    BY <2>1, <2>2, <2>5 DEF Custody
<1>13. \A f \in Nat, d \in Cams : f # 0 /\ Held(f, d)' => Held(f, d)
  BY <1>1, <1>4, <1>5 DEF Held
<1>14. ASSUME NEW f \in Nat, NEW d \in Cams, Held(f, d)', f # 0
       PROVE  /\ f <= file' /\ spanOf'[f] = 0 /\ f \notin doomed'
              /\ \A s \in Queue' : s.path # f
              /\ \A e \in Cams : Held(f, e)' => e = d
              /\ ~(f \in pipe'[d].closed /\ pipe'[d].open = f)
  <2>1. ~(f \in pipe'[d].closed /\ pipe'[d].open = f)
    BY <1>4, <1>5, <1>13, <1>14 DEF Custody
  <2>2. \A s \in Queue' : s.path # f
    BY <1>11, <1>12, <1>13, <1>14 DEF Custody
  <2> QED
    BY <1>6, <1>13, <1>14, <2>1, <2>2 DEF Custody
<1>15. \A s \in Queue' : s.path \in onDisk' /\ spanOf'[s.path] = 0 /\ s.path \notin doomed'
  BY <1>6, <1>8, <1>11, <1>12 DEF Custody
<1>16. \A s, q \in New : s.path = q.path => s = q
  BY <1>8 DEF ClosedSegments
<1>17. \A s, q \in Queue' : s.path = q.path => s = q
  BY <1>11, <1>12, <1>16 DEF Custody
<1>18. pending' \cap writing' = {}
  BY <1>6, <1>9, <1>12 DEF Custody, Queue
<1>19. /\ \A f \in Files : spanOf'[f] # 0 => f \in onDisk' /\ f \notin doomed'
       /\ \A d \in Cams : 0 \notin pipe'[d].closed
  BY <1>4, <1>5, <1>6 DEF Custody
<1>20. Custody'
  BY <1>14, <1>15, <1>17, <1>18, <1>19 DEF Custody
<1>21. file \in Nat
  BY NodeAssumption DEF NodeStates
<1>22. Starts'
  <2>1. \A s \in New : s.start \in 1..file
    <3>1. ASSUME NEW s \in New PROVE k.closed # {}
      BY <1>2, <1>8, <3>1
    <3>2. ASSUME k.closed # {} PROVE k.since \in 1..file
      BY <1>1, <1>3, <1>21, <3>2 DEF Starts
    <3> QED
      BY <1>8, <3>1, <3>2
  <2>2. \A d \in Cams : /\ pipe'[d].since \in 0..file
                        /\ pipe'[d].closed # {} \/ pipe'[d].open # 0 => pipe'[d].since # 0
    BY <1>1, <1>4, <1>5, <1>21 DEF Starts
  <2> QED
    <3>1. \A s \in Queue' : s.start \in 1..file'
      BY <1>6, <1>11, <2>1 DEF Starts
    <3>2. file' = file
      BY <1>6
    <3>3. \A d \in Cams : pipe'[d].since \in 0..file'
      BY <2>2, <3>2
    <3>4. \A d \in Cams : pipe'[d].closed # {} \/ pipe'[d].open # 0 => pipe'[d].since # 0
      BY <2>2
    <3> QED
      BY <3>1, <3>3, <3>4, ZenonT(60) DEF Starts
<1> QED
  BY <1>10, <1>20, <1>22

\* The end of the process, orderly or not, lets go of every pipeline.
LEMMA EndSteps ==
  ASSUME HostInv, Stop \/ Exit \/ KillHost
  PROVE  HostInv'
<1> USE DEF HostInv, rowVars, archiveState
<1>1. NoPipe \in Pipes /\ NoPipe.open = 0 /\ NoPipe.since = 0 /\ NoPipe.closed = {}
  BY PipeEmpty
<1>2. pipe' = [c \in Cams |-> NoPipe]
  BY DEF Stop, Exit, KillHost, StartAgain
<1>3. fetched' \in [taken : BOOLEAN, rows : [Cams -> CameraRows]]
  BY DEF Stop, Exit, KillHost, StartAgain, NodeStates
<1>4. actual' \in [Cams -> Nat] /\ trouble' \in 0..MaxTrouble
  BY NodeAssumption DEF Stop, Exit, KillHost, StartAgain, NodeStates
<1>5. /\ UNCHANGED <<cameraRow, file, onDisk, spanOf>>
      /\ pending' \subseteq pending /\ writing' \subseteq writing /\ doomed' \subseteq doomed
  BY DEF Stop, Exit, KillHost, StartAgain
<1>6. NodeStates'
  BY <1>1, <1>2, <1>3, <1>4, <1>5 DEF NodeStates
<1>7. \A c \in Cams : pipe'[c].closed \subseteq pipe[c].closed /\ pipe'[c].open \in {0, pipe[c].open}
  BY <1>1, <1>2
<1>8. Custody'
  BY <1>5, <1>7, CustodyKept
<1>9. file \in Nat
  BY NodeAssumption DEF NodeStates
<1>10. Starts'
  BY <1>1, <1>2, <1>5, <1>9, StartsKept
<1> QED
  BY <1>6, <1>8, <1>10

\* Every step of a Node keeps the invariant.
LEMMA NodeStep == HostInv /\ [NodeNext]_nodeVars => HostInv'
<1>1. ASSUME HostInv, UNCHANGED nodeVars PROVE HostInv'
  <2>1. NodeStates'
    BY <1>1 DEF HostInv, NodeStates, nodeVars, rowVars, hostVars, archiveState
  <2>2. Custody'
    BY <1>1, CustodyKept DEF HostInv, nodeVars, rowVars, hostVars, archiveState
  <2>3. Starts'
    BY <1>1 DEF HostInv, Starts, Queue, nodeVars, rowVars, hostVars, archiveState
  <2> QED
    BY <2>1, <2>2, <2>3 DEF HostInv
<1> QED
  BY <1>1, QuietNodeSteps, IndexNodeSteps, ReconcileStep, OpenStep, CloseStep, FailStep, PumpStep, EndSteps
  DEF NodeNext

\* The invariant holds in every state of a Node.
LEMMA NodeInductive == NodeSpec => []HostInv
BY NodeBegins, NodeStep, PTL DEF NodeSpec

\* What the index offers is on the disk, wherever the app host is killed (report_once, enforce_retention).
THEOREM NodeOffersWhatPlays == NodeSpec => []PlayableIfOffered
<1>1. HostInv => PlayableIfOffered
  BY DEF HostInv, Custody, PlayableIfOffered, Indexed
<1> QED
  BY <1>1, NodeInductive, PTL

\* The types of a Node: no camera hands over a file that was never opened.
THEOREM NodeTypeCorrect == NodeSpec => []NodeTypeOK
<1>1. ASSUME HostInv PROVE NodeTypeOK
  <2>1. /\ file \in 0..MaxFiles /\ trouble \in 0..MaxTrouble /\ onDisk \subseteq 1..file /\ doomed \subseteq 1..file
        /\ \A c \in Cams : actual[c] \in Nat
    BY <1>1 DEF HostInv, NodeStates
  <2>2. \A s \in pending \cup writing : s.path \in 1..file /\ s.start \in 1..file
    BY <1>1 DEF HostInv, NodeStates, Custody, Starts, Queue, ClosedSegments
  <2>3. ASSUME NEW c \in Cams PROVE pipe[c].open \in 0..file /\ pipe[c].closed \subseteq 1..file
    <3>1. pipe[c].open \in Nat /\ pipe[c].closed \subseteq Nat /\ file \in Nat
      BY <1>1, <2>1, PipeFields DEF HostInv, NodeStates
    <3> QED
      BY <1>1, <3>1 DEF HostInv, Custody, Held
  <2>4. \A c \in Cams : actual[c] \in Nat /\ pipe[c].open \in 0..file /\ pipe[c].closed \subseteq 1..file
    BY <2>1, <2>3
  <2> QED
    BY <2>1, <2>2, <2>4 DEF NodeTypeOK
<1> QED
  BY <1>1, NodeInductive, PTL

-----------------------------------------------------------------------------
\* The parts together.

\* Whatever part a step moves, the others stay as they are.
LEMMA StorageSteps ==
  ASSUME [StorageNext]_storageVars
  PROVE  /\ [FileNext]_fileVars /\ [Next]_vars
         /\ [ArchiveNext]_archiveVars /\ [EventsNext]_eventVars /\ [NodeNext]_nodeVars
BY DEF StorageNext, storageVars, storeVars, serverVars

\* A behaviour of the whole is one of every part.
LEMMA StorageParts == StorageSpec => FileSpec /\ Spec /\ ArchiveSpec /\ EventsSpec /\ NodeSpec
<1>1. StorageInit => FileInit /\ Init /\ ArchiveInit /\ EventsInit /\ NodeInit
  BY DEF StorageInit
<1>2. [StorageNext]_storageVars => /\ [FileNext]_fileVars /\ [Next]_vars
                                  /\ [ArchiveNext]_archiveVars /\ [EventsNext]_eventVars /\ [NodeNext]_nodeVars
  BY StorageSteps
<1> QED
  BY <1>1, <1>2, PTL DEF StorageSpec, FileSpec, Spec, ArchiveSpec, EventsSpec, NodeSpec

\* The types of everything a disk keeps, under the specification the run checks.
THEOREM StorageTypeCorrect == StorageSpec => []StorageTypeOK
<1>1. FileTypeOK /\ TypeOK /\ ArchiveTypeOK /\ EventsTypeOK /\ NodeTypeOK => StorageTypeOK
  BY DEF StorageTypeOK
<1> QED
  BY <1>1, StorageParts, FileTypeCorrect, TypeCorrect, ArchiveTypeCorrect, EventsTypeCorrect, NodeTypeCorrect, PTL

\* Under the specification the run checks: footage reaches the archive or stays in
\* the spool, a copy of a closed bucket is whole, an event is indexed once, and
\* what a Node offers is on its disk.
THEOREM StorageKeepsWhatItHas ==
  StorageSpec => [](FootageIsKept /\ ClosedBucketIsWhole /\ EachEventIndexedOnce /\ PlayableIfOffered)
BY StorageParts, ArchiveKeepsFootage, CopiesAreWhole, IndexedAtMostOnce, NodeOffersWhatPlays, PTL
=============================================================================
