------------------------------ MODULE MCMovedFiles ------------------------------
(***************************************************************************)
(* Small instances of what moves files and what removes them later: the tabs *)
(* that receive (TransferReceive), the page that sends (SendClient), the     *)
(* widget of the Releases page (ReleaseUploads) and the pass that prunes the *)
(* tables and the staging directory (ResourcePrune).  They share no          *)
(* variable, so each is explored with the others left in one initial state:  *)
(* part says which one moves.                                               *)
(***************************************************************************)
EXTENDS MCTransferReceive, SendClient, ReleaseUploads, ResourcePrune

VARIABLE part

movedVars == <<part, vars, clientVars, uploadVars, pruneVars>>

MovedInit ==
  /\ part \in {"receive", "send", "release", "prune"}
  /\ Init /\ ClientInit /\ UploadInit
  /\ PruneInit
  /\ part # "prune" =>
       /\ tables["events"].recent = 2 /\ sent = [t \in Pieces |-> Absent]
       /\ chunked = [t \in Pieces |-> "none"] /\ staged = <<>>

MovedNext ==
  \/ part = "receive" /\ Next /\ UNCHANGED <<part, clientVars, uploadVars, pruneVars>>
  \/ part = "send" /\ ClientNext /\ UNCHANGED <<part, vars, uploadVars, pruneVars>>
  \/ part = "release" /\ UploadNext /\ UNCHANGED <<part, vars, clientVars, pruneVars>>
  \/ part = "prune" /\ PruneNext /\ UNCHANGED <<part, vars, clientVars, uploadVars>>

MovedSpec == MovedInit /\ [][MovedNext]_movedVars
=============================================================================
