-------------------------------- MODULE Spool --------------------------------
(***************************************************************************)
(* The spool of an appliance (М9 edgevms/spool/spool.py): the children of  *)
(* the recorders write segments into one directory per camera, and one     *)
(* uploader sends them, oldest name first, with upload_segment (М8), which *)
(* succeeds only when the cloud has something of the segment.              *)
(*                                                                         *)
(* A segment's name is the launch of its pipeline and its number in it     *)
(* (build_spool_pipeline_argv); born is when it was opened. A pipeline     *)
(* killed in the middle leaves a file that no demuxer reads. That a        *)
(* pipeline of kvssink which ends well has stored something is the SDK's.  *)
(* accept() and its bound have no caller but the tests.                    *)
(***************************************************************************)
EXTENDS Naturals, FiniteSets

CONSTANTS Channels,      \* cameras with a directory
          Budget,        \* segments sent in one pass
          MaxSegments, MaxLaunches, MaxFaults

ASSUME SpoolAssumption ==
  Budget \in Nat \ {0} /\ {MaxSegments, MaxLaunches, MaxFaults} \subseteq Nat

VARIABLES child,                   \* camera -> its pipeline's launch (0: none) and open segment
          launches, segments,      \* drawn so far
          stored, whole,           \* what lies in the spool; what was finalized
          uploader,                \* where drain() is, what it listed, how many it has sent
          inCloud, linkUp, faults
childVars == <<child, launches, segments, whole>>
sendVars == <<uploader, inCloud>>
spoolVars == <<childVars, stored, sendVars, linkUp, faults>>

NoChild == [launch |-> 0, open |-> {}]
Asleep == [at |-> "asleep", todo |-> {}, sent |-> 0]

SpoolInit ==
  /\ child = [c \in Channels |-> NoChild] /\ launches = 0 /\ segments = {}
  /\ stored = {} /\ whole = {} /\ uploader = Asleep /\ inCloud = {} /\ linkUp = TRUE /\ faults = 0

-----------------------------------------------------------------------------
Launch(c) ==
  /\ child[c] = NoChild /\ launches < MaxLaunches /\ launches' = launches + 1
  /\ child' = [child EXCEPT ![c].launch = launches + 1]
  /\ UNCHANGED <<segments, whole, stored, sendVars, linkUp, faults>>

\* splitmuxsink: the open segment is finalized and the next one opened.
NextSegment(c) ==
  LET number == Cardinality({s \in segments : s.launch = child[c].launch})
      new == [camera |-> c, launch |-> child[c].launch, number |-> number, born |-> Cardinality(segments)] IN
  /\ child[c] # NoChild /\ Cardinality(segments) < MaxSegments
  /\ segments' = segments \cup {new} /\ stored' = stored \cup {new}
  /\ whole' = whole \cup child[c].open /\ child' = [child EXCEPT ![c].open = {new}]
  /\ UNCHANGED <<launches, sendVars, linkUp, faults>>

\* The clip ends, which finalizes the segment; or the pipeline is killed, by stop() for one, which does not.
PipelineEnds(c) ==
  /\ child[c] # NoChild /\ child' = [child EXCEPT ![c] = NoChild]
  /\ \/ whole' = whole \cup child[c].open /\ UNCHANGED faults
     \/ faults < MaxFaults /\ faults' = faults + 1 /\ UNCHANGED whole
  /\ UNCHANGED <<launches, segments, stored, sendVars, linkUp>>

LinkTurns ==
  /\ faults < MaxFaults /\ faults' = faults + 1 /\ linkUp' = ~linkUp
  /\ UNCHANGED <<childVars, stored, sendVars>>

-----------------------------------------------------------------------------
\* pending: by name, which is by launch and then by number, across cameras; the open ones too.
Before(s, t) == s.launch < t.launch \/ (s.launch = t.launch /\ s.number < t.number)
First(list) == CHOOSE s \in list : \A t \in list \ {s} : Before(s, t)

DrainBegins ==
  /\ uploader.at = "asleep" /\ stored # {}
  /\ uploader' = [at |-> "send", todo |-> stored, sent |-> 0]
  /\ UNCHANGED <<childVars, stored, inCloud, linkUp, faults>>

\* As a bug: the pass skips what fails.
AfterFailureSkip == [uploader EXCEPT !.todo = @ \ {First(uploader.todo)},
                                     !.at = IF Cardinality(uploader.todo) = 1 THEN "asleep" ELSE "send"]
\* drain and upload: to be acknowledged, the file must be readable and the cloud must answer; a link that
\* fails half way leaves something behind and no acknowledgement. The first failure ends the pass.
AfterFailure == Asleep
Send ==
  LET s == First(uploader.todo) IN
  /\ uploader.at = "send"
  /\ \/ /\ linkUp /\ s \in whole
        /\ inCloud' = inCloud \cup {s} /\ uploader' = [uploader EXCEPT !.at = "acknowledged"]
     \/ /\ ~linkUp \/ s \notin whole
        /\ uploader' = AfterFailure
        /\ inCloud' \in {inCloud, inCloud \cup ({s} \cap whole)}
  /\ UNCHANGED <<childVars, stored, linkUp, faults>>

RemoveSent ==
  LET s == First(uploader.todo)  left == uploader.todo \ {s}  sent == uploader.sent + 1 IN
  /\ uploader.at = "acknowledged" /\ stored' = stored \ {s}
  /\ uploader' = IF left = {} \/ sent = Budget THEN Asleep ELSE [at |-> "send", todo |-> left, sent |-> sent]
  /\ UNCHANGED <<childVars, inCloud, linkUp, faults>>

KillUploader ==
  /\ uploader # Asleep /\ faults < MaxFaults /\ faults' = faults + 1 /\ uploader' = Asleep
  /\ UNCHANGED <<childVars, stored, inCloud, linkUp>>

SpoolNext == \/ \E c \in Channels : Launch(c) \/ NextSegment(c) \/ PipelineEnds(c)
             \/ LinkTurns \/ DrainBegins \/ Send \/ RemoveSent \/ KillUploader

-----------------------------------------------------------------------------
SpoolTypeOK ==
  /\ \A c \in Channels : child[c].launch \in 0..launches /\ child[c].open \subseteq stored
  /\ stored \cup whole \cup inCloud \cup uploader.todo \subseteq segments
  /\ uploader.at \in {"asleep", "send", "acknowledged"} /\ uploader.sent < Budget

Sent == segments \ stored

(* "A contiguous archive with a gap at the end" (М9 04-podman-quadlet-and-the-spool.md:273): what has  *)
(* left the spool is in the cloud, and so is all the same camera recorded before it, through restarts  *)
(* of the pipeline, kills of the uploader and a link that comes and goes (drain, pending).             *)
ArchiveIsContiguous ==
  \A t \in Sent : t \in inCloud /\ \A s \in segments : s.camera = t.camera /\ s.born < t.born => s \in Sent
=============================================================================
