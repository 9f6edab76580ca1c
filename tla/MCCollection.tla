------------------------------ MODULE MCCollection ------------------------------
(***************************************************************************)
(* Small instances of what collects and keeps data: the queue of the         *)
(* application log (LogQueue), its database side (LogStore), the live        *)
(* console (LiveLog), the counters of the traffic (Traffic) and the archives *)
(* of the database (Backups).  They share no variable, so each is explored   *)
(* with the others left in their initial state: part says which one moves.   *)
(***************************************************************************)
EXTENDS LogStore, LogQueue, LiveLog, Traffic, Backups, TLC

VARIABLE part

collectionVars == <<part, vars, queueVars, liveVars, trafficVars, backupVars>>

CollectionInit ==
  /\ part \in {"store", "queue", "live", "traffic", "backups"}
  /\ Init /\ QueueInit /\ LiveInit /\ TrafficInit /\ BackupsInit

CollectionNext ==
  \/ /\ part = "store" /\ Next
     /\ UNCHANGED <<part, queueVars, liveVars, trafficVars, backupVars>>
  \/ /\ part = "queue" /\ QueueNext
     /\ UNCHANGED <<part, vars, liveVars, trafficVars, backupVars>>
  \/ /\ part = "live" /\ LiveNext
     /\ UNCHANGED <<part, vars, queueVars, trafficVars, backupVars>>
  \/ /\ part = "traffic" /\ TrafficNext
     /\ UNCHANGED <<part, vars, queueVars, liveVars, backupVars>>
  \/ /\ part = "backups" /\ BackupsNext
     /\ UNCHANGED <<part, vars, queueVars, liveVars, trafficVars>>

CollectionSpec == CollectionInit /\ [][CollectionNext]_collectionVars

Alike == Permutations(Writers) \cup Permutations(Visits)
=============================================================================
