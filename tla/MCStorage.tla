----------------------------- MODULE MCStorage -----------------------------
(***************************************************************************)
(* What is kept on a disk: the configuration store and the loop that       *)
(* writes its rows, the archive and the event buckets of a server, and the *)
(* Node with its own index and retention. They share no state, so TLC is   *)
(* given one at a time: sub is chosen once, from Subs, and the others stay *)
(* as they begin.                                                          *)
(***************************************************************************)
EXTENDS FileVariables, RowWrite, Archive, EventStore, NodeHost
CONSTANTS Subs, p1, p2, a, b, v, t1, t2, u1, u2, s1, s2, b1, w1, c1
VARIABLE sub
storeVars == <<fileVars, vars>>
serverVars == <<archiveVars, eventVars>>
storageVars == <<storeVars, serverVars, nodeVars, sub>>

\* An access list that keeps p2 off one of the two paths.
AllowedMC == [p \in {p1, p2} |-> IF p = p1 THEN {a, b} ELSE {a}]

\* A worker's assignment row, <sub>/workers/<worker>, written by two controllers: assign_add and
\* assign_remove, which decline when there is nothing to change. Unlike an epoch, the row can come back
\* to a value it had: only the index tells the two apart.
Listings == {{}, {u1}, {u2}, {u1, u2}}
AddRemove ==
  UNION {{[l \in Listings |-> IF u \in l THEN NoWrite ELSE l \cup {u}],
          [l \in Listings |-> IF u \in l THEN l \ {u} ELSE NoWrite]} : u \in {u1, u2}}

HomeMC == [bucket \in {b1} |-> 1]

\* Of a part that is not looked at, one initial state is enough.
StorageInit ==
  /\ sub \in Subs
  /\ FileInit /\ Init /\ ArchiveInit /\ EventsInit /\ NodeInit
  /\ sub = "files" \/ \A p \in Procs : req[p].path = a
  /\ sub = "rows" \/ (val = {} /\ \A t \in Threads : fn[t] = CHOOSE m \in Mutators : TRUE)
  /\ sub = "archive" \/ sameFs

StorageNext ==
  /\ UNCHANGED sub
  /\ \/ sub = "files" /\ FileNext /\ UNCHANGED <<vars, serverVars, nodeVars>>
     \/ sub = "rows" /\ Next /\ UNCHANGED <<fileVars, serverVars, nodeVars>>
     \/ sub = "archive" /\ ArchiveNext /\ UNCHANGED <<storeVars, eventVars, nodeVars>>
     \/ sub = "events" /\ EventsNext /\ UNCHANGED <<storeVars, archiveVars, nodeVars>>
     \/ sub = "node" /\ NodeNext /\ UNCHANGED <<storeVars, serverVars>>

StorageSpec ==
  /\ StorageInit /\ [][StorageNext]_storageVars
  /\ \/ sub = "files" /\ FileFairness
     \/ sub = "rows"
     \/ sub = "archive" /\ ArchiveFairness
     \/ sub = "events" /\ EventsFairness
     \/ sub = "node" /\ NodeFairness

\* The types of all parts.
StorageTypeOK == FileTypeOK /\ TypeOK /\ ArchiveTypeOK /\ EventsTypeOK /\ NodeTypeOK
=============================================================================
