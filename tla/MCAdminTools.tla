------------------------------ MODULE MCAdminTools ------------------------------
(***************************************************************************)
(* Small instances of the administrator's tools: packages (PackageImport),   *)
(* directories (ServerFiles) and the rows of the Admin Center (AdminCenter). *)
(* They share no variable, so each is explored with the others left in one   *)
(* initial state: part says which one moves.                                *)
(***************************************************************************)
EXTENDS PackageImport, ServerFiles, AdminCenter, TLC

VARIABLE part

toolVars == <<part, packageVars, filesVars, centerVars>>

ToolsInit ==
  /\ part \in {"package", "files", "center"}
  /\ PackageInit
  /\ part # "package" => refs = {} /\ original = Counted({1}) /\ existing = {}
  /\ FilesInit
  /\ part # "files" => entries = [p \in Places |-> Nothing]
  /\ CenterInit
  /\ part # "center" => rows = Objects

ToolsNext ==
  \/ part = "package" /\ PackageNext /\ UNCHANGED <<part, filesVars, centerVars>>
  \/ part = "files" /\ FilesNext /\ UNCHANGED <<part, packageVars, centerVars>>
  \/ part = "center" /\ CenterNext /\ UNCHANGED <<part, packageVars, filesVars>>

ToolsSpec == ToolsInit /\ [][ToolsNext]_toolVars

Alike == Permutations(Ops) \cup Permutations(Places) \cup Permutations(Tabs) \cup Permutations(Objects)
=============================================================================
