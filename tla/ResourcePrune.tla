------------------------------ MODULE ResourcePrune ------------------------------
(***************************************************************************)
(* paxalia_resource_prune: one bounded pass over every retained table and   *)
(* over the private staging directory of the Transfer Center, while         *)
(* transfers are created, written, finished and retried.                    *)
(*                                                                         *)
(* A table nothing of the pass is told apart in is a number of rows past    *)
(* the retention (old), of rows within it (recent) and of rows that the     *)
(* retention leaves (held: protected log events, ongoing incidents).  The   *)
(* transfers, their FileUpload rows and their staged files keep identity.   *)
(* The command lists the transfers it will delete and the files it will     *)
(* unlink before it does either, without a lock.                            *)
(*                                                                         *)
(* paxalia_server_files_prune is a command of its own, with its own budget, *)
(* for the history of Server Files ("operations": recent rows are those of  *)
(* its low-value operations, held rows those of the others).               *)
(***************************************************************************)
EXTENDS Naturals, FiniteSets

CONSTANTS Pieces,        \* transfers
          Budget,        \* LOG_CLEANUP_BATCH_SIZE, or --batch-size
          MaxRecords,    \* the count cap of every table
          MaxMoves       \* bound: what transfers do and time brings during a pass

ASSUME PruneAssumption == /\ IsFiniteSet(Pieces) /\ Budget \in Nat \ {0}
                          /\ MaxRecords \in Nat /\ MaxMoves \in Nat

Tables == {"events", "groups", "checks", "incidents", "metrics", "operations"}

VARIABLES tables,    \* table -> its rows: old, recent, held
          sent,      \* transfers: "none", "active", "ended"; past the retention or not
          chunked,   \* their FileUpload rows: "none", "recent", "old"
          staged,    \* the staging directory: path -> older than the TTL?
          pass,      \* the invocation
          gone,      \* history: rows and files this invocation has removed
          moves

pruneVars == <<tables, sent, chunked, staged, pass, gone, moves>>

Temp(t) == <<"upload", t>>      \* .upload-<id>, where chunks are appended
Final(t) == <<"final", t>>      \* staging_path, where the upload is moved
Paths == {Temp(t) : t \in Pieces} \cup {Final(t) : t \in Pieces}

Absent == [status |-> "none", old |-> FALSE]

\* The order of handle().
Order == <<"retention", "records", "storage", "groups", "maintain", "checks",
           "incidents", "metrics", "history", "uploads", "orphans", "scan",
           "unlink", "capChecks", "capIncidents", "capMetrics", "capHistory",
           "done">>
NoPass == [step |-> "done", dry |-> FALSE, left |-> 0, ids |-> {}, paths |-> {}]

PruneTypeOK ==
  /\ tables \in [Tables -> [old : Nat, recent : Nat, held : Nat]]
  /\ sent \in [Pieces -> [status : {"none", "active", "ended"}, old : BOOLEAN]]
  /\ chunked \in [Pieces -> {"none", "recent", "old"}]
  /\ DOMAIN staged \subseteq Paths /\ \A p \in DOMAIN staged : staged[p] \in BOOLEAN
  /\ pass.step \in {Order[i] : i \in 1 .. 18} \cup {"expired", "lowValue"}
  /\ pass.left \in 0 .. Budget /\ pass.ids \subseteq Pieces /\ pass.paths \subseteq Paths
  /\ gone \in Nat /\ moves \in 0 .. MaxMoves

\* A transfer that was created has bytes only while it or its upload row is
\* there; what an earlier pass left of a deleted transfer may lie about.
PruneInit ==
  /\ \E crowded \in Tables :
       tables = [k \in Tables |-> IF k = crowded THEN [old |-> 2, recent |-> 2, held |-> 1]
                                  ELSE [old |-> 1, recent |-> 0, held |-> 1]]
  /\ sent \in [Pieces -> {Absent, [status |-> "active", old |-> FALSE],
                          [status |-> "ended", old |-> FALSE],
                          [status |-> "ended", old |-> TRUE]}]
  /\ chunked \in [Pieces -> {"none", "recent", "old"}]
  /\ \A t \in Pieces : sent[t].status = "active" => chunked[t] # "none"
  /\ \E S \in SUBSET Paths, late \in SUBSET Paths :
       /\ late \subseteq S /\ \A t \in Pieces : {Temp(t), Final(t)} \cap S # {Temp(t), Final(t)}
       /\ staged = [p \in S |-> p \in late]
  /\ pass = NoPass /\ gone = 0 /\ moves = 0

-----------------------------------------------------------------------------
(* The pass. *)

Least(a, b) == IF a < b THEN a ELSE b
NextStep == Order[1 + CHOOSE i \in 1 .. 17 : Order[i] = pass.step]
At(step) == pass.step = step /\ pass.left > 0

\* An exhausted budget ends the pass: every later part is skipped.
Spent ==
  /\ pass.step # "done" /\ pass.left = 0
  /\ pass' = NoPass
  /\ UNCHANGED <<tables, sent, chunked, staged, gone, moves>>

BeginPass(dry) ==
  /\ pass.step = "done"
  /\ pass' = [NoPass EXCEPT !.step = "retention", !.dry = dry, !.left = Budget]
  /\ gone' = 0
  /\ UNCHANGED <<tables, sent, chunked, staged, moves>>

\* consume(): n was processed, and the pass goes on with the next part.
Consume(n) == pass' = [pass EXCEPT !.step = NextStep, !.left = @ - Least(n, @),
                                   !.ids = {}, !.paths = {}]
CountOf(n) == gone' = IF pass.dry THEN gone ELSE gone + n

\* n rows of table k go, the oldest first.
TakeRows(k, n) ==
  tables' = IF pass.dry THEN tables
            ELSE [tables EXCEPT ![k].old = @ - Least(n, @),
                    ![k].recent = @ - (n - Least(n, tables[k].old))]

TableOf == [retention |-> "events", groups |-> "groups", checks |-> "checks",
            incidents |-> "incidents", metrics |-> "metrics"]

Batch(n) == Least(n, pass.left)

\* The retention of one table; for the log, of its five severities in turn.
Retention ==
  /\ At(pass.step) /\ pass.step \in DOMAIN TableOf
  /\ LET k == TableOf[pass.step]
         n == Batch(tables[k].old)
     IN  TakeRows(k, n) /\ Consume(n) /\ CountOf(n)
  /\ UNCHANGED <<sent, chunked, staged, moves>>

\* LOG_MAX_RECORDS counts every event, and takes none of the protected ones.
PrunedLogs ==
  /\ At("records")
  /\ LET e == tables["events"]
         all == e.old + e.recent + e.held
         n == IF all > MaxRecords
                THEN Least(Batch(all - MaxRecords), e.old + e.recent) ELSE 0
     IN  TakeRows("events", n) /\ Consume(n) /\ CountOf(n)
  /\ UNCHANGED <<sent, chunked, staged, moves>>

\* LOG_MAX_STORAGE_MB: whatever is left of the budget, if the table is too big.
LogStorage ==
  /\ At("storage")
  /\ \E tooBig \in BOOLEAN :
       LET n == IF tooBig THEN Batch(tables["events"].old + tables["events"].recent) ELSE 0
       IN  TakeRows("events", n) /\ Consume(n) /\ CountOf(n)
  /\ UNCHANGED <<sent, chunked, staged, moves>>

\* A transfer ends; its bytes are removed unless the process dies first or a
\* retry may still want them.
EndedStatuses(T) == [t \in Pieces |-> IF t \in T THEN [status |-> "ended", old |-> FALSE]
                              ELSE sent[t]]
BytesOf(T) == {Temp(t) : t \in T} \cup {Final(t) : t \in T}
Keep(P) == [p \in DOMAIN staged \cap P |-> staged[p]]

\* transfer_maintenance(): some active transfers are expired or verified.
Maintain ==
  /\ At("maintain")
  /\ \E T \in SUBSET {t \in Pieces : sent[t].status = "active"} :
       /\ Cardinality(T) <= pass.left
       /\ IF pass.dry THEN UNCHANGED <<sent, staged>>
          ELSE sent' = EndedStatuses(T) /\ staged' = Keep(Paths \ BytesOf(T))
       /\ Consume(Cardinality(T))
  /\ UNCHANGED <<tables, chunked, gone, moves>>

-----------------------------------------------------------------------------
(* Transfer rows, and the FileUpload rows without one.  The ids are read,   *)
(* then the rows are deleted by id.                                         *)

OldTransfers == {t \in Pieces : sent[t].status = "ended" /\ sent[t].old}
OldUploads == {t \in OldTransfers : chunked[t] = "old"}
OrphanUploads == {t \in Pieces : sent[t].status = "none" /\ chunked[t] = "old"}
Overdue == CASE pass.step = "history" -> OldTransfers
             [] pass.step = "uploads" -> OldUploads
             [] pass.step = "orphans" -> OrphanUploads

ListRows ==
  /\ At(pass.step) /\ pass.step \in {"history", "uploads", "orphans"}
  /\ pass.ids = {} /\ Overdue # {} /\ ~pass.dry
  /\ \E T \in SUBSET Overdue :
       /\ Cardinality(T) = Batch(Cardinality(Overdue))
       /\ pass' = [pass EXCEPT !.ids = T]
  /\ UNCHANGED <<tables, sent, chunked, staged, gone, moves>>

DeleteRows ==
  /\ pass.step \in {"history", "uploads", "orphans"} /\ pass.ids # {}
  /\ IF pass.step = "history"
       THEN /\ sent' = [t \in Pieces |-> IF t \in pass.ids THEN Absent ELSE sent[t]]
            /\ UNCHANGED chunked
       ELSE /\ chunked' = [t \in Pieces |-> IF t \in pass.ids THEN "none" ELSE chunked[t]]
            /\ UNCHANGED sent
  /\ Consume(Cardinality(pass.ids)) /\ CountOf(Cardinality(pass.ids))
  /\ UNCHANGED <<tables, staged, moves>>

\* Nothing overdue, or a dry run, which only counts.
CountRows ==
  /\ At(pass.step) /\ pass.step \in {"history", "uploads", "orphans"}
  /\ pass.ids = {} /\ (pass.dry \/ Overdue = {})
  /\ Consume(Batch(Cardinality(Overdue)))
  /\ UNCHANGED <<tables, sent, chunked, staged, gone, moves>>

-----------------------------------------------------------------------------
(* The staging directory. *)

\* Variant of Referenced: only staging_path is looked up.
ReferencedByRow(p) == \E t \in Pieces : p = Final(t) /\ sent[t].status # "none"

\* A final path by its transfer's row, a temporary one by its upload's.
Referenced(p) ==
  \E t \in Pieces : \/ p = Final(t) /\ sent[t].status # "none"
                    \/ p = Temp(t) /\ chunked[t] # "none"

\* The directories are listed: at most as many stale unreferenced files as the
\* budget has left, among the first staging_scan_limit entries.
Scan ==
  /\ At("scan")
  /\ \E seen \in SUBSET DOMAIN staged :
       /\ Cardinality(seen) = Batch(Cardinality(DOMAIN staged))
       /\ LET stale == {p \in seen : staged[p] /\ ~Referenced(p)}
          IN  pass' = [pass EXCEPT !.step = "unlink", !.paths = stale]
  /\ UNCHANGED <<tables, sent, chunked, staged, gone, moves>>

Unlink ==
  /\ At("unlink")
  /\ staged' = IF pass.dry THEN staged ELSE Keep(Paths \ pass.paths)
  /\ Consume(Cardinality(pass.paths)) /\ CountOf(Cardinality(pass.paths))
  /\ UNCHANGED <<tables, sent, chunked, moves>>

-----------------------------------------------------------------------------
(* Count caps.  A table above its cap loses as many of its oldest rows as     *)
(* the budget has left; the dry run reports no more than the excess.        *)

CapTableOf == [capChecks |-> "checks", capIncidents |-> "incidents", capMetrics |-> "metrics"]

\* What a cap takes of n rows.
Capped(n) == IF n <= MaxRecords THEN 0
             ELSE IF pass.dry THEN Batch(n - MaxRecords) ELSE Batch(n)

CapTable ==
  /\ At(pass.step) /\ pass.step \in DOMAIN CapTableOf
  /\ LET k == CapTableOf[pass.step]
         n == Capped(tables[k].old + tables[k].recent)
     IN  TakeRows(k, n) /\ Consume(n) /\ CountOf(n)
  /\ UNCHANGED <<sent, chunked, staged, moves>>

EndedTransfers == {t \in Pieces : sent[t].status = "ended"}

ListCapped ==
  /\ At("capHistory") /\ pass.ids = {}
  /\ ~pass.dry /\ Capped(Cardinality(EndedTransfers)) > 0
  /\ \E T \in SUBSET EndedTransfers :
       /\ Cardinality(T) = Capped(Cardinality(EndedTransfers))
       /\ pass' = [pass EXCEPT !.ids = T]
  /\ UNCHANGED <<tables, sent, chunked, staged, gone, moves>>

\* Its upload rows first, then the transfers, then the bytes of both.
DeleteCapped ==
  /\ pass.step = "capHistory" /\ pass.ids # {}
  /\ chunked' = [t \in Pieces |-> IF t \in pass.ids THEN "none" ELSE chunked[t]]
  /\ sent' = [t \in Pieces |-> IF t \in pass.ids THEN Absent ELSE sent[t]]
  /\ staged' = Keep(Paths \ ({Final(t) : t \in pass.ids} \cup
                             {Temp(t) : t \in {u \in pass.ids : chunked[u] # "none"}}))
  /\ Consume(Cardinality(pass.ids)) /\ CountOf(Cardinality(pass.ids))
  /\ UNCHANGED <<tables, moves>>

CountCapped ==
  /\ At("capHistory") /\ pass.ids = {}
  /\ pass.dry \/ Capped(Cardinality(EndedTransfers)) = 0
  /\ Consume(Capped(Cardinality(EndedTransfers)))
  /\ UNCHANGED <<tables, sent, chunked, staged, gone, moves>>

-----------------------------------------------------------------------------
(* paxalia_server_files_prune. *)

BeginOperations(dry) ==
  /\ pass.step = "done"
  /\ pass' = [NoPass EXCEPT !.step = "expired", !.dry = dry, !.left = Budget]
  /\ gone' = 0
  /\ UNCHANGED <<tables, sent, chunked, staged, moves>>

\* Rows past the retention, of whatever operation.
ExpiredOperations ==
  /\ At("expired")
  /\ LET n == Batch(tables["operations"].old)
     IN  /\ TakeRows("operations", n) /\ CountOf(n)
         /\ pass' = [pass EXCEPT !.step = "lowValue", !.left = @ - n]
  /\ UNCHANGED <<sent, chunked, staged, moves>>

\* Then what exceeds the count, but low-value rows only; a dry run leaves out
\* the expired rows it has counted.
LowValueOperations ==
  /\ At("lowValue")
  /\ LET o == tables["operations"]
         all == o.recent + o.held + IF pass.dry THEN 0 ELSE o.old
         excess == IF all > MaxRecords THEN all - MaxRecords ELSE 0
         n == Least(Batch(excess), o.recent)
     IN  TakeRows("operations", n) /\ CountOf(n)
  /\ pass' = NoPass
  /\ UNCHANGED <<sent, chunked, staged, moves>>

-----------------------------------------------------------------------------
(* Meanwhile: the transfers, and time. *)

Meanwhile == pass.step # "done" /\ moves < MaxMoves /\ moves' = moves + 1

CreateTransfer(t) ==
  /\ Meanwhile /\ sent[t].status = "none" /\ chunked[t] = "none"
  /\ {Temp(t), Final(t)} \cap DOMAIN staged = {}
  /\ sent' = [sent EXCEPT ![t].status = "active"]
  /\ chunked' = [chunked EXCEPT ![t] = "recent"]
  /\ UNCHANGED <<tables, staged, pass, gone>>

WriteChunk(t) ==
  /\ Meanwhile /\ sent[t].status = "active" /\ chunked[t] # "none"
  /\ Final(t) \notin DOMAIN staged
  /\ staged' = [p \in DOMAIN staged \cup {Temp(t)} |-> IF p = Temp(t) THEN FALSE ELSE staged[p]]
  /\ UNCHANGED <<tables, sent, chunked, pass, gone>>

\* The last chunk: the temporary file becomes the final one, mtime and all.
MoveUpload(t) ==
  /\ Meanwhile /\ sent[t].status = "active" /\ Temp(t) \in DOMAIN staged
  /\ staged' = [p \in (DOMAIN staged \ {Temp(t)}) \cup {Final(t)} |->
                  IF p = Final(t) THEN staged[Temp(t)] ELSE staged[p]]
  /\ UNCHANGED <<tables, sent, chunked, pass, gone>>

EndTransfer(t) ==
  /\ Meanwhile /\ sent[t].status = "active"
  /\ sent' = EndedStatuses({t})
  /\ \E lost \in {{}, BytesOf({t})} : staged' = Keep(Paths \ lost)
  /\ UNCHANGED <<tables, chunked, pass, gone>>

RetryTransfer(t) ==
  /\ Meanwhile /\ sent[t].status = "ended" /\ chunked[t] # "none"
  /\ sent' = [sent EXCEPT ![t] = [status |-> "active", old |-> FALSE]]
  /\ UNCHANGED <<tables, chunked, staged, pass, gone>>

TimePasses ==
  /\ Meanwhile
  /\ staged' = [p \in DOMAIN staged |-> TRUE]
  /\ UNCHANGED <<tables, sent, chunked, pass, gone>>

PruneNext ==
  \/ Spent \/ (\E dry \in BOOLEAN : BeginPass(dry))
  \/ Retention \/ PrunedLogs \/ LogStorage \/ Maintain
  \/ ListRows \/ DeleteRows \/ CountRows \/ Scan \/ Unlink
  \/ CapTable \/ ListCapped \/ DeleteCapped \/ CountCapped
  \/ (\E dry \in BOOLEAN : BeginOperations(dry)) \/ ExpiredOperations \/ LowValueOperations
  \/ \E t \in Pieces : CreateTransfer(t) \/ WriteChunk(t) \/ MoveUpload(t)
                         \/ EndTransfer(t) \/ RetryTransfer(t)
  \/ TimePasses

PruneSpec == PruneInit /\ [][PruneNext]_pruneVars

-----------------------------------------------------------------------------
\* "one maintenance invocation, shared bounded budget": whatever the parts find,
\* one invocation removes no more rows and files than its budget, the upload
\* rows and bytes that go with a capped transfer aside.
BudgetIsShared == gone <= Budget

\* "a file is not an orphan merely because it is old": what the scan chose is
\* unlinked some time later, and no transfer and no upload that has been created,
\* moved or retried meanwhile refers to it then.
StagedIsKept ==
  \A t \in Pieces : /\ Final(t) \in pass.paths => sent[t].status = "none"
                    /\ Temp(t) \in pass.paths => chunked[t] = "none"

\* Not kept: a transfer that runs is not deleted.  One that is listed for deletion
\* and retried before the deletion is.
RunningIsKept ==
  [][\A t \in Pieces : sent[t].status = "active" => sent'[t].status # "none"]_pruneVars

\* What a dry run reports is what the command would process: the count cap takes
\* more than the excess.
CapTakesExcess ==
  [][CapTable => \A k \in Tables :
       tables[k].old + tables[k].recent >= MaxRecords
         => tables'[k].old + tables'[k].recent >= MaxRecords]_pruneVars
=============================================================================
