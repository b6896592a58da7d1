------------------------------ MODULE Archive ------------------------------
(***************************************************************************)
(* The archive of one server, for one camera: segments in the spool, files *)
(* in the archive tree, and the manifest beside them (vms/archive.py).     *)
(*                                                                         *)
(* Two kinds of process meet here without any lock.  A worker promotes: a  *)
(* segment is moved into the archive and then a line is appended.  The     *)
(* resource job makes its pass: it rewrites the manifest from what it has  *)
(* listed a moment before.  Either may be killed between any two of its    *)
(* accesses to the disk.                                                   *)
(*                                                                         *)
(* Abstracted: a path is the segment or bucket it names; the manifest is   *)
(* the number of lines per path (rewrite sorts them, nobody reads their    *)
(* order); time is what is decided by it (over, aged).  The grace of       *)
(* closed_in_spool is taken to be long enough that a segment another       *)
(* worker is moving at that moment is not on the list.                     *)
(***************************************************************************)
EXTENDS Naturals, FiniteSets

CONSTANTS Segs,        \* media segments that may be recorded
          Spans,       \* event buckets of the camera
          Movers,      \* worker processes of the server
          MaxDeaths    \* bound: processes killed and promotions refused

VARIABLES
  spool,     \* the segment's file in the spool: "absent", "open" or "closed"
  files,     \* what is in the archive under its own name
  part,      \* copies under dest.tmp, not yet in place
  lines,     \* lines of the manifest per path
  sameFs,    \* spool and archive are on one filesystem
  mover,     \* what each worker is doing
  pass,      \* what the resource job is doing
  over,      \* buckets whose span has ended
  aged,      \* segments and buckets past their retention
  made,      \* history: segments ever opened
  deaths     \* bound: faults so far

disk == <<spool, files, part, lines>>
world == <<over, aged, made>>
archiveVars == <<disk, sameFs, mover, pass, world, deaths>>

Idle == [at |-> "off", seg |-> {}, left |-> {}, writing |-> {}]
Rest == [at |-> "idle", listed |-> {}, keep |-> [s \in Segs |-> 0]]

ArchiveInit ==
  /\ spool = [s \in Segs |-> "absent"]
  /\ files = {} /\ part = {}
  /\ lines = [x \in Segs \cup Spans |-> 0]
  /\ sameFs \in BOOLEAN
  /\ mover = [w \in Movers |-> Idle]
  /\ pass = Rest
  /\ over = {} /\ aged = {} /\ made = {}
  /\ deaths = 0

-----------------------------------------------------------------------------
\* The worker.  seg is the segment promote() is at, left what closed_in_spool
\* returned at the start and is still to be promoted, writing the open segment.

Step(w, from, to) == /\ mover[w].at = from
                     /\ mover' = [mover EXCEPT ![w].at = to]

\* Where promote() returns to: the list of the start, or the running sinks.
PromoteReturns(w) ==
  LET left == mover[w].left \ mover[w].seg
  IN mover' = [mover EXCEPT ![w].at = IF left = {} THEN "up" ELSE "sweep",
                            ![w].seg = {}, ![w].left = left]

\* worker(): what the last instance closed but did not promote is listed first.
StartWorker(w) ==
  LET left == {s \in Segs : /\ spool[s] = "closed"
                            /\ \A v \in Movers : s \notin mover[v].seg}
  IN /\ mover[w].at = "off"
     /\ mover' = [mover EXCEPT ![w].at = IF left = {} THEN "up" ELSE "sweep",
                               ![w].left = left]
     /\ UNCHANGED <<disk, sameFs, pass, world, deaths>>

\* The next of the list.  Its file may be gone by now: stat raises and, outside
\* any handler, ends the process.
Sweep(w) ==
  /\ mover[w].at = "sweep"
  /\ \E s \in mover[w].left :
       mover' = [mover EXCEPT ![w] = IF spool[s] = "closed"
                                     THEN [@ EXCEPT !.at = "move", !.seg = {s}]
                                     ELSE Idle]
  /\ UNCHANGED <<disk, sameFs, pass, world, deaths>>

\* As a bug: a segment is opened while another is still open.
OpenBeside(w, s) ==
  /\ mover[w].at = "up" /\ s \notin made
  /\ spool' = [spool EXCEPT ![s] = "open"]
  /\ mover' = [mover EXCEPT ![w].writing = @ \cup {s}]
  /\ made' = made \cup {s}
  /\ UNCHANGED <<files, part, lines, sameFs, pass, over, aged, deaths>>

\* _location: splitmuxsink opens a segment under the camera's epoch.
OpenSegment(w, s) ==
  /\ mover[w].at = "up" /\ mover[w].writing = {} /\ s \notin made
  /\ spool' = [spool EXCEPT ![s] = "open"]
  /\ mover' = [mover EXCEPT ![w].writing = {s}]
  /\ made' = made \cup {s}
  /\ UNCHANGED <<files, part, lines, sameFs, pass, over, aged, deaths>>

\* do_handle_message, fragment-closed: the acknowledgement point.
CloseSegment(w) ==
  /\ mover[w].at = "up" /\ mover[w].writing # {}
  /\ spool' = [s \in Segs |-> IF s \in mover[w].writing THEN "closed" ELSE spool[s]]
  /\ mover' = [mover EXCEPT ![w].at = "move", ![w].seg = mover[w].writing, ![w].writing = {}]
  /\ UNCHANGED <<files, part, lines, sameFs, pass, world, deaths>>

Take(w) == [s \in Segs |-> IF s \in mover[w].seg THEN "absent" ELSE spool[s]]
\* Another worker may have taken it, or its copy, since it was listed.
InSpool(w) == \A s \in mover[w].seg : spool[s] # "absent"

\* _move on one filesystem: one rename.
Rename(w) ==
  /\ sameFs /\ InSpool(w) /\ Step(w, "move", "line")
  /\ spool' = Take(w) /\ files' = files \cup mover[w].seg
  /\ UNCHANGED <<part, lines, sameFs, pass, world, deaths>>

\* As a bug: the source is removed with the copy, before it is in place.
CopyAndRemove(w) ==
  /\ ~sameFs /\ Step(w, "move", "appear")
  /\ part' = part \cup mover[w].seg /\ spool' = Take(w)
  /\ UNCHANGED <<files, lines, sameFs, pass, world, deaths>>
\* _move across filesystems: copy, appear whole, and only then remove.
Copy(w) ==
  /\ ~sameFs /\ InSpool(w) /\ Step(w, "move", "appear")
  /\ part' = part \cup mover[w].seg
  /\ UNCHANGED <<spool, files, lines, sameFs, pass, world, deaths>>

Appear(w) ==
  /\ Step(w, "appear", "remove") /\ mover[w].seg \subseteq part
  /\ files' = files \cup mover[w].seg /\ part' = part \ mover[w].seg
  /\ UNCHANGED <<spool, lines, sameFs, pass, world, deaths>>

RemoveCopied(w) ==
  /\ InSpool(w) /\ Step(w, "remove", "line")
  /\ spool' = Take(w)
  /\ UNCHANGED <<files, part, lines, sameFs, pass, world, deaths>>

\* Manifest.append: the line comes after the file.
AppendLine(w) ==
  /\ mover[w].at = "line" /\ PromoteReturns(w)
  /\ lines' = [x \in Segs \cup Spans |-> lines[x] + IF x \in mover[w].seg THEN 1 ELSE 0]
  /\ UNCHANGED <<spool, files, part, sameFs, pass, world, deaths>>

\* _move raises, because the archive refuses or the file it wants is gone: the
\* sink logs it and the spool keeps the segment until the next start; during a
\* start it ends the process.
Refuse(w) ==
  /\ mover[w].at \in {"move", "appear", "remove"} /\ deaths < MaxDeaths
  /\ deaths' = deaths + 1
  /\ \/ mover' = [mover EXCEPT ![w] = Idle]
     \/ mover[w].left = {} /\ PromoteReturns(w)
  /\ spool' = [s \in Segs |-> IF s \in mover'[w].writing \/ s \notin mover[w].writing
                              THEN spool[s] ELSE "closed"]
  /\ UNCHANGED <<files, part, lines, sameFs, pass, world>>

\* The worker is killed.  Its open segment is, to anybody, a file grown old.
KillWorker(w) ==
  /\ mover[w].at # "off" /\ deaths < MaxDeaths
  /\ deaths' = deaths + 1
  /\ mover' = [mover EXCEPT ![w] = Idle]
  /\ spool' = [s \in Segs |-> IF s \in mover[w].writing THEN "closed" ELSE spool[s]]
  /\ UNCHANGED <<files, part, lines, sameFs, pass, world>>

-----------------------------------------------------------------------------
\* The resource job: ArchivePolicy.pass_ and then Resource.retain.

PassStep(from, to) == pass.at = from /\ pass' = [pass EXCEPT !.at = to]

\* repair, the walk: the files there are, of media and of closed buckets.
RepairWalk ==
  /\ pass.at = "idle"
  /\ pass' = [pass EXCEPT !.at = "rewrite", !.listed = files \ (Spans \ over)]
  /\ UNCHANGED <<disk, sameFs, mover, world, deaths>>

\* As a bug: only the lines whose files are gone are dropped.
RepairDropsOnly ==
  /\ PassStep("rewrite", "close")
  /\ lines' = [x \in Segs \cup Spans |-> IF x \in pass.listed THEN lines[x] ELSE 0]
  /\ UNCHANGED <<spool, files, part, sameFs, mover, world, deaths>>
\* repair, the rewrite: a line for each of them and for nothing else, whatever
\* has been moved or appended since the walk.
RepairRewrite ==
  /\ PassStep("rewrite", "close")
  /\ lines' = [x \in Segs \cup Spans |-> IF x \in pass.listed THEN 1 ELSE 0]
  /\ UNCHANGED <<spool, files, part, sameFs, mover, world, deaths>>

\* close_buckets: a bucket that is over and quiet gets its line, if it has none.
CloseBuckets ==
  /\ PassStep("close", "retain")
  /\ lines' = [x \in Segs \cup Spans |->
                 IF x \in Spans \cap over \cap files /\ lines[x] = 0 THEN 1 ELSE lines[x]]
  /\ UNCHANGED <<spool, files, part, sameFs, mover, world, deaths>>

\* retain, the reading: which lines to keep; without an old one nothing is rewritten.
RetainRead ==
  LET old == {s \in Segs \cap aged : lines[s] > 0}
  IN /\ pass.at = "retain"
     /\ pass' = [at |-> IF old = {} THEN "platform" ELSE "delete", listed |-> old,
                 keep |-> [s \in Segs |-> IF s \in old THEN 0 ELSE lines[s]]]
     /\ UNCHANGED <<disk, sameFs, mover, world, deaths>>

\* retain: the files first, one by one ...
RetainDelete ==
  /\ pass.at = "delete"
  /\ \E s \in pass.listed :
       /\ files' = files \ {s}
       /\ pass' = [pass EXCEPT !.listed = @ \ {s}, !.at = IF pass.listed = {s} THEN "lines" ELSE "delete"]
  /\ UNCHANGED <<spool, part, lines, sameFs, mover, world, deaths>>
\* ... and the lines after them; rewrite reads the buckets' lines itself.
RetainRewrite ==
  /\ PassStep("lines", "platform")
  /\ lines' = [x \in Segs \cup Spans |-> IF x \in Segs THEN pass.keep[x] ELSE lines[x]]
  /\ UNCHANGED <<spool, files, part, sameFs, mover, world, deaths>>

\* Resource.retain: the platform's own, buckets only, files only.
PlatformRetain ==
  /\ pass.at = "platform" /\ pass' = Rest
  /\ files' = files \ (Spans \cap aged)
  /\ UNCHANGED <<spool, part, lines, sameFs, mover, world, deaths>>

KillPass ==
  /\ pass.at # "idle" /\ deaths < MaxDeaths
  /\ deaths' = deaths + 1 /\ pass' = Rest
  /\ UNCHANGED <<disk, sameFs, mover, world>>

-----------------------------------------------------------------------------
\* EventLog.append creates the bucket of the hour; then its span ends; what is
\* there grows old.
Observe(b) ==
  /\ b \notin files \cup over
  /\ files' = files \cup {b}
  /\ UNCHANGED <<spool, part, lines, sameFs, mover, pass, world, deaths>>

EndSpan(b) ==
  /\ b \in files \ over
  /\ over' = over \cup {b}
  /\ UNCHANGED <<disk, sameFs, mover, pass, aged, made, deaths>>

Age(x) ==
  /\ x \in (files \cap (Segs \cup over)) \ aged
  /\ aged' = aged \cup {x}
  /\ UNCHANGED <<disk, sameFs, mover, pass, over, made, deaths>>

Promote(w) == Rename(w) \/ Copy(w) \/ Appear(w) \/ RemoveCopied(w) \/ AppendLine(w) \/ Refuse(w)
Worker(w) == \/ StartWorker(w) \/ Sweep(w) \/ CloseSegment(w) \/ Promote(w) \/ KillWorker(w)
             \/ \E s \in Segs : OpenSegment(w, s)
Pass == \/ RepairWalk \/ RepairRewrite \/ CloseBuckets
        \/ RetainRead \/ RetainDelete \/ RetainRewrite \/ PlatformRetain
ArchiveNext ==
  \/ \E w \in Movers : Worker(w)
  \/ Pass \/ KillPass
  \/ \E b \in Spans : Observe(b) \/ EndSpan(b)
  \/ \E x \in Segs \cup Spans : Age(x)

-----------------------------------------------------------------------------
\* The types of the archive; a worker has one segment open and moves one.
ArchiveTypeOK ==
  /\ spool \in [Segs -> {"absent", "open", "closed"}]
  /\ files \subseteq Segs \cup Spans /\ part \subseteq Segs
  /\ lines \in [Segs \cup Spans -> Nat]
  /\ over \subseteq Spans /\ aged \subseteq Segs \cup Spans /\ made \subseteq Segs
  /\ \A w \in Movers : \A f \in {"seg", "writing"} : Cardinality(mover[w][f]) <= 1

\* Footage is never lost on its way: whoever is killed at whatever step of
\* _move, a segment once opened is in the spool or in the archive until
\* retention was entitled to take it (promote's order of acknowledgement).
FootageIsKept ==
  \A s \in made : spool[s] # "absent" \/ s \in files \/ s \in aged

\* The manifest heals: a promote may append beside a rewrite, so that its line
\* is lost or doubled, and retention leaves lines without files; but again and
\* again each path has one line if its file is there and none if it is not.
ManifestHeals ==
  \A x \in Segs \cup Spans :
    []<>(lines[x] = IF x \in files \ (Spans \ over) THEN 1 ELSE 0)

\* The resource job is restarted and its timer fires for ever.
ArchiveFairness == WF_archiveVars(Pass)
=============================================================================
