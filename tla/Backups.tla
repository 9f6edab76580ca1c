------------------------------- MODULE Backups -------------------------------
(***************************************************************************)
(* Backup management: views/backup.py and the create_backup command.       *)
(* A run is the daemon thread of the dashboard's trigger, which works on   *)
(* the row the view inserted, or the command of a scheduler, which has no  *)
(* row until its archive is finished.  The archive is written to a         *)
(* temporary file and renamed; the row is completed after it; then the     *)
(* rows beyond the retention count go, file first.  An administrator       *)
(* deletes a backup in the same two steps, from the row he read.           *)
(*                                                                         *)
(* The i-th run works on row i and writes file i; created is the order in  *)
(* which rows were inserted, so a scheduler's row counts from the moment   *)
(* its archive is finished.  A row keeps the path it was inserted with,    *)
(* which no file has (the view names it to the second, the command to the  *)
(* microsecond), until its run completes it.                               *)
(***************************************************************************)
EXTENDS Naturals, FiniteSets

CONSTANTS Runs,        \* threads and commands that may run at a time
          RetentionCount,
          MaxBackups,  \* bound: rows ever inserted
          MaxRemovals, \* bound: deletions of the administrator
          MaxDeaths    \* bound: processes that die and removals that fail

ASSUME BackupsAssumption == RetentionCount \in Nat \ {0}
ASSUME BackupsCapped == MaxBackups \in Nat /\ MaxRemovals \in Nat /\ MaxDeaths \in Nat

VARIABLES backups,     \* the BackupArchive rows: row -> its status and file
          archives,    \* the archives in the storage directory
          partial,     \* the temporary files in it
          runs,        \* the runs
          removal,     \* the administrator's deletion: the row as he read it
          enabled,     \* the configuration allows backups
          started, created,   \* runs begun and rows inserted so far
          removals, deaths,   \* the bounded counters
          unsettled    \* history: completed rows whose run has not finished its
                       \* retention, or died before it had

backupVars == <<backups, archives, partial, runs, removal, enabled, started,
                created, removals, deaths, unsettled>>

NoRow == 0
Row(status, file, at) == [status |-> status, file |-> file, at |-> at]
Idle == [step |-> "idle", row |-> NoRow, file |-> NoRow, old |-> <<>>]

BackupsTypeOK ==
  /\ DOMAIN backups \subseteq 1 .. started
  /\ \A b \in DOMAIN backups :
       /\ backups[b].status \in {"pending", "creating", "completed", "failed"}
       /\ backups[b].file \in {NoRow, b}
  /\ archives \subseteq 1 .. started /\ partial \subseteq Runs \X (1 .. started)
  /\ \A r \in Runs : runs[r].step \in {"idle", "begin", "write", "publish",
                                       "complete", "list", "retain"}
  /\ enabled \in BOOLEAN
  /\ started \in 0 .. MaxBackups /\ created \in Nat /\ removals \in 0 .. MaxRemovals
  /\ deaths \in 0 .. MaxDeaths /\ unsettled \subseteq 1 .. started

BackupsInit ==
  /\ backups = <<>> /\ archives = {} /\ partial = {}
  /\ runs = [r \in Runs |-> Idle] /\ removal = <<>> /\ enabled = TRUE
  /\ started = 0 /\ created = 0 /\ removals = 0 /\ deaths = 0 /\ unsettled = {}

-----------------------------------------------------------------------------
WithRow(b, row) == [x \in DOMAIN backups \cup {b} |->
                  IF x = b THEN row ELSE backups[x]]
Without(b) == [x \in DOMAIN backups \ {b} |-> backups[x]]
To(r, step) == [runs EXCEPT ![r].step = step]

\* POST /backups/trigger/: the row first, then the thread.
Trigger(r) ==
  /\ runs[r] = Idle /\ enabled /\ started < MaxBackups
  /\ started' = started + 1 /\ created' = created + 1
  /\ backups' = WithRow(started + 1, Row("pending", NoRow, created + 1))
  /\ runs' = [runs EXCEPT ![r] = [Idle EXCEPT !.step = "begin",
                                   !.row = started + 1, !.file = started + 1]]
  /\ UNCHANGED <<archives, partial, removal, enabled, removals, deaths,
                 unsettled>>

\* The scheduler's call of the command.
Schedule(r) ==
  /\ runs[r] = Idle /\ started < MaxBackups
  /\ started' = started + 1
  /\ runs' = [runs EXCEPT ![r] = [Idle EXCEPT !.step = "begin",
                                              !.file = started + 1]]
  /\ UNCHANGED <<backups, archives, partial, removal, enabled, created,
                 removals, deaths, unsettled>>

\* Switched off meanwhile: the command returns and leaves the row as it is.
NotEnabled(r) ==
  /\ runs[r].step = "begin" /\ ~enabled
  /\ runs' = [runs EXCEPT ![r] = Idle]
  /\ UNCHANGED <<backups, archives, partial, removal, enabled, started,
                 created, removals, deaths, unsettled>>

\* The row is taken if it is still there; the temporary file is made.
Take(r) ==
  LET b == runs[r].row IN
    /\ runs[r].step = "begin" /\ enabled
    /\ IF b \in DOMAIN backups
         THEN /\ backups' = [backups EXCEPT ![b].status = "creating"]
              /\ runs' = To(r, "write")
         ELSE /\ runs' = [runs EXCEPT ![r].step = "write", ![r].row = NoRow]
              /\ UNCHANGED backups
    /\ partial' = partial \cup {<<r, runs[r].file>>}
    /\ UNCHANGED <<archives, removal, enabled, started, created, removals,
                   deaths, unsettled>>

\* The row of the run is updated, if it has one.  When the row was deleted
\* the UPDATE matches nothing, save(update_fields) raises, and the except of
\* the view's thread saves the whole object: the row is back, as failed.
SaveFailed(r) ==
  LET b == runs[r].row IN
    IF b \in DOMAIN backups
      THEN /\ backups' = [backups EXCEPT ![b].status = "failed"]
           /\ UNCHANGED created
      ELSE /\ backups' = WithRow(b, Row("failed", NoRow, created + 1))
           /\ created' = created + 1

\* The temporary file is closed and renamed to the final path.
Publish(r) ==
  /\ runs[r].step = "write"
  /\ partial' = partial \ {<<r, runs[r].file>>}
  /\ archives' = archives \cup {runs[r].file}
  /\ runs' = To(r, "complete")
  /\ UNCHANGED <<backups, removal, enabled, started, created, removals,
                 deaths, unsettled>>

\* A path cannot be read or the disk is full: the temporary file is removed.
FailArchive(r) ==
  /\ runs[r].step = "write" /\ deaths < MaxDeaths
  /\ deaths' = deaths + 1
  /\ partial' = partial \ {<<r, runs[r].file>>}
  /\ IF runs[r].row = NoRow THEN UNCHANGED <<backups, created>> ELSE SaveFailed(r)
  /\ runs' = [runs EXCEPT ![r] = Idle]
  /\ UNCHANGED <<archives, removal, enabled, started, removals, unsettled>>

\* The row is completed; a run without a row inserts it now.
Complete(r) ==
  LET b == runs[r].row
      f == runs[r].file
  IN  /\ runs[r].step = "complete"
      /\ IF b # NoRow /\ b \notin DOMAIN backups
           THEN /\ SaveFailed(r)
                /\ runs' = [runs EXCEPT ![r] = Idle] /\ UNCHANGED unsettled
           ELSE /\ created' = IF b = NoRow THEN created + 1 ELSE created
                /\ backups' = WithRow(f, Row("completed", f, IF b = NoRow
                                      THEN created' ELSE backups[b].at))
                /\ runs' = [runs EXCEPT ![r].step = "list", ![r].row = f]
                /\ unsettled' = unsettled \cup {f}
      /\ UNCHANGED <<archives, partial, removal, enabled, started, removals,
                     deaths>>

\* The rows beyond the retention count: this row counts for one, and of the
\* others those with at least RetentionCount - 1 later ones are too many.
Later(b, S) == {x \in S : backups[x].at > backups[b].at}
Surplus(own, kept) ==
  LET others == DOMAIN backups \ {own}
  IN  {b \in others : Cardinality(Later(b, others)) >= kept}
\* Slip of NoMoreThanKept: the new archive is not counted.
TooManyButOne(own) == Surplus(own, RetentionCount)
TooMany(own) == Surplus(own, RetentionCount - 1)

ListOld(r) ==
  /\ runs[r].step = "list"
  /\ runs' = [runs EXCEPT ![r].step = "retain",
                ![r].old = [b \in TooMany(runs[r].row) |-> backups[b].file]]
  /\ UNCHANGED <<backups, archives, partial, removal, enabled, started,
                 created, removals, deaths, unsettled>>

\* One row of the list goes: the file of the path that was read, then the row,
\* also when the file could not be removed.
Retire(r, b) ==
  /\ runs[r].step = "retain" /\ b \in DOMAIN runs[r].old
  /\ b \in DOMAIN backups =>
       \A x \in DOMAIN runs[r].old \cap DOMAIN backups : x \notin Later(b, DOMAIN backups)
  /\ \/ archives' = archives \ {runs[r].old[b]} /\ UNCHANGED deaths
     \/ /\ runs[r].old[b] \in archives /\ deaths < MaxDeaths
        /\ deaths' = deaths + 1 /\ UNCHANGED archives
  /\ backups' = Without(b)
  /\ runs' = [runs EXCEPT ![r].old =
                [x \in DOMAIN runs[r].old \ {b} |-> runs[r].old[x]]]
  /\ UNCHANGED <<partial, removal, enabled, started, created, removals,
                 unsettled>>

\* The process ends between the file and the row.
RetireDies(r, b) ==
  /\ runs[r].step = "retain" /\ b \in DOMAIN runs[r].old
  /\ deaths < MaxDeaths
  /\ deaths' = deaths + 1
  /\ archives' = archives \ {runs[r].old[b]}
  /\ runs' = [runs EXCEPT ![r] = Idle]
  /\ UNCHANGED <<backups, partial, removal, enabled, started, created,
                 removals, unsettled>>

Retired(r) ==
  /\ runs[r].step = "retain" /\ runs[r].old = <<>>
  /\ runs' = [runs EXCEPT ![r] = Idle]
  /\ unsettled' = unsettled \ {runs[r].row}
  /\ UNCHANGED <<backups, archives, partial, removal, enabled, started,
                 created, removals, deaths>>

\* The server is restarted or killed: daemon threads end where they are.
RunDies(r) ==
  /\ runs[r].step \notin {"idle"} /\ deaths < MaxDeaths
  /\ deaths' = deaths + 1
  /\ runs' = [runs EXCEPT ![r] = Idle]
  /\ UNCHANGED <<backups, archives, partial, removal, enabled, started,
                 created, removals, unsettled>>

\* POST /backups/delete/<id>/: the row is read, the file of its path removed,
\* the row deleted.
RemoveRead(b) ==
  /\ removal = <<>> /\ b \in DOMAIN backups /\ removals < MaxRemovals
  /\ removals' = removals + 1
  /\ removal' = [row |-> b, file |-> backups[b].file]
  /\ UNCHANGED <<backups, archives, partial, runs, enabled, started, created,
                 deaths, unsettled>>

RemoveDone ==
  /\ removal # <<>>
  /\ archives' = archives \ {removal.file}
  /\ backups' = Without(removal.row)
  /\ removal' = <<>>
  /\ UNCHANGED <<partial, runs, enabled, started, created, removals, deaths,
                 unsettled>>

\* The configuration is saved with backups switched on or off.
SaveConfig ==
  /\ \E r \in Runs : runs[r].step = "begin"
  /\ enabled' = ~enabled
  /\ UNCHANGED <<backups, archives, partial, runs, removal, started, created,
                 removals, deaths, unsettled>>

BackupsNext ==
  \/ \E r \in Runs :
       \/ Trigger(r) \/ Schedule(r) \/ NotEnabled(r) \/ Take(r) \/ Publish(r)
       \/ FailArchive(r) \/ Complete(r) \/ ListOld(r) \/ Retired(r) \/ RunDies(r)
       \/ \E b \in 1 .. MaxBackups : Retire(r, b) \/ RetireDies(r, b)
  \/ \E b \in 1 .. MaxBackups : RemoveRead(b)
  \/ RemoveDone \/ SaveConfig

BackupsSpec == BackupsInit /\ [][BackupsNext]_backupVars

-----------------------------------------------------------------------------
Completed == {b \in DOMAIN backups : backups[b].status = "completed"}

\* Two runs that finish together each apply the retention to what they see:
\* whatever the order of their steps, the completed backups whose runs have
\* finished are never more than the configuration keeps.
NoMoreThanKept == Cardinality(Completed \ unsettled) <= RetentionCount

\* "Number of most recent backups to keep": the retention of a run leaves the
\* most recent completed backups, as many as the configuration says.
MostRecentKept ==
  [][\A r \in Runs, b \in 1 .. MaxBackups :
       Retire(r, b) /\ b \in Completed
         => Cardinality(Later(b, Completed)) >= RetentionCount]_backupVars

\* Not kept: an archive that no run writes has a row, or it is never deleted.  The
\* command may die between the rename of its archive and the row.
EveryArchiveHasRow ==
  \A f \in archives :
    \/ \E b \in DOMAIN backups : backups[b].file = f
    \/ \E r \in Runs : runs[r].step = "complete" /\ runs[r].file = f
=============================================================================
