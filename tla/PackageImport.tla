---------------------------- MODULE PackageImport ----------------------------
(***************************************************************************)
(* Paxalia packages: what an export puts in one, how the import center      *)
(* checks, previews and imports it, in one transaction or record by record, *)
(* and the retry package of what failed (packages/engine.py,                *)
(* packages/format.py, admin_center/package_views.py).                      *)
(*                                                                         *)
(* One administrator imports; meanwhile another deletes objects.  Records   *)
(* are the positions of the rows.  A reference is a foreign key, a          *)
(* many-to-many entry, or an alias: a foreign key whose JSON differs from   *)
(* the record's identity although the field types make them equal.          *)
(***************************************************************************)
EXTENDS Naturals, FiniteSets

CONSTANTS N,             \* records of the exported selection's database
          MaxReferences, \* references between them
          MaxImports,    \* imports the administrator starts
          MaxTroubles,   \* steps that fail for a reason of their own, and objects
                         \* another administrator deletes
          MaxErrors      \* errors a result keeps (250)

ASSUME PackageBounds ==
  /\ N \in Nat /\ MaxReferences \in Nat /\ MaxImports \in Nat
  /\ MaxTroubles \in Nat /\ MaxErrors \in Nat \ {0}

Records == 1..N
Labels == {"even", "odd"}
Label(r) == IF r % 2 = 0 THEN "even" ELSE "odd"

Reference == [from: Records, to: Records, kind: {"fk", "m2m", "alias"}]

\* A package: its records and the counters of its metadata.
Package == [records: SUBSET Records, count: 0..N, relations: 0..MaxReferences,
            models: [Labels -> 0..N]]

NoPackage == [records |-> {}, count |-> 0, relations |-> 0,
              models |-> [l \in Labels |-> 0]]

Result == [created: 0..N, updated: 0..N, skipped: 0..N, failed: 0..N]
NoResult == [created |-> 0, updated |-> 0, skipped |-> 0, failed |-> 0]

VARIABLES refs,       \* references of the exported objects
          original,   \* the exported package
          existing,   \* records whose identity exists in this database
          at,         \* where the import center is
          package,    \* the pending package
          preview,    \* what the preview of it said
          retry,      \* the retry package offered by the last import
          conflict,   \* the strategy chosen, for the preview and again for the import
          remaining, completed, failed,   \* of the import: indices of rows
          refused,    \* history: failed rows that were blocked, never tried
          broken,     \* failed_objects: existing objects of failed records
          ready,      \* rows still to do of the current list of ready ones
          result, errors,                 \* counters and indices reported
          last,       \* how the last import ended
          imports, troubles,              \* bounds
          steady      \* history: nothing changed since the preview

packageVars == <<refs, original, existing, at, package, preview, retry, conflict,
                 remaining, completed, failed, refused, broken, ready, result, errors,
                 last, imports, troubles, steady>>

work == <<remaining, completed, failed, refused, broken, ready, result, errors>>
bounds == <<imports, troubles, steady>>
input == <<refs, original>>

PackageTypeOK ==
  /\ refs \subseteq Reference /\ original \in Package
  /\ existing \subseteq Records
  /\ at \in {"center", "reviewed", "head", "ready", "cycle", "finish"}
  /\ package \in Package /\ retry \in Package
  /\ preview \in Result /\ result \in Result
  /\ conflict \in {"update", "skip"}
  /\ remaining \subseteq Records /\ completed \subseteq Records /\ failed \subseteq Records
  /\ refused \subseteq failed /\ broken \subseteq Records /\ ready \subseteq remaining /\ errors \subseteq Records
  /\ last \in {"none", "imported", "unresolved", "fault", "no retry"}
  /\ imports \in 0..MaxImports /\ troubles \in 0..MaxTroubles /\ steady \in BOOLEAN

-----------------------------------------------------------------------------
(* The package.                                                            *)

Outgoing(S) == {e \in refs : e.from \in S}

\* export_models: counters of the rows it serialized.
Counted(S) ==
  [records |-> S, count |-> Cardinality(S), relations |-> Cardinality(Outgoing(S)),
   models |-> [l \in Labels |-> Cardinality({r \in S : Label(r) = l})]]

\* inspect_package: every counter agrees with the rows.
Accepted(p) == p = Counted(p.records)

\* The slip of a retry package that keeps the source's counters.
RetryStale(p, indexes) == [p EXCEPT !.records = @ \cap indexes]

\* build_retry_package_from_payload: the failed rows with counters of their own
\* (the container recomputes them only when it is not encrypted).
RetryOf(p, indexes) == Counted(p.records \cap indexes)

\* preview_package.
PreviewOf(p, c) ==
  LET old == Cardinality(p.records \cap existing)
  IN [created |-> Cardinality(p.records) - old,
      updated |-> IF c = "update" THEN old ELSE 0,
      skipped |-> IF c = "skip" THEN old ELSE 0,
      failed |-> 0]

-----------------------------------------------------------------------------
(* One record.                                                             *)

Targets(r, kinds) == {e.to : e \in {x \in refs : x.from = r /\ x.kind \in kinds}}

Skipped(r, c) == c = "skip" /\ r \in existing

\* _prepare_record and _apply_record_relations of a row, where the objects of
\* earlier rows (before) and finally those of all rows (together) are cached:
\* foreign keys must resolve before the first save, the others afterwards.
Resolves(r, c, before, together) ==
  \/ Skipped(r, c)
  \/ /\ Targets(r, {"fk", "alias"}) \subseteq existing \cup before
     /\ Targets(r, {"m2m"}) \subseteq existing \cup together

\* Rows handled together, in row order.
AllResolve(S, c) == \A r \in S : Resolves(r, c, {x \in S : x < r}, S)

\* The slip that counts what is skipped as updated.
CountsUpdated(S, c) ==
  [result EXCEPT !.created = @ + Cardinality(S \ existing),
                 !.updated = @ + Cardinality(S \cap existing)]

Counts(S, c) ==
  LET old == Cardinality(S \cap existing) IN
  [result EXCEPT !.created = @ + Cardinality(S) - old,
                 !.updated = @ + IF c = "update" THEN old ELSE 0,
                 !.skipped = @ + IF c = "skip" THEN old ELSE 0]

\* _append_import_error for each row of S, in order: the list of errors is capped.
Kept(S) == {r \in S : Cardinality(errors) + Cardinality({x \in S : x < r}) < MaxErrors}

Fails(S) ==
  /\ failed' = failed \cup S
  /\ errors' = errors \cup Kept(S)
  /\ result' = [result EXCEPT !.failed = @ + Cardinality(S)]

\* _dependency_indices: rows of this package a row refers to by their own identity.
Dependencies(r) == (Targets(r, {"fk", "m2m"}) \cap package.records) \ {r}

DependsOnFailed(r) == Targets(r, {"fk", "m2m"}) \cap failed # {}

\* The slip of a partial import that only looks at the references themselves.
Unblocked(r) == FALSE

\* Blocked rows: a dependency failed, or any reference resolves to an object
\* whose record failed.
Blocked(r) ==
  \/ DependsOnFailed(r)
  \/ Targets(r, {"fk", "m2m", "alias"}) \cap broken \cap existing # {}

-----------------------------------------------------------------------------
(* The import center.                                                      *)

\* The files of a session: a new one takes the place of the one before it, and an
\* import reads the pending one, if it is still there.
KeepsPending(p) == package' = p
KeepsRetry(p) == retry' = p
PendingFile == package # NoPackage

\* A model, a selection or what a filter shows is exported.
Exported(S) == original = Counted(S)

PackageInit ==
  /\ \E S \in SUBSET Records \ {{}} : \E pairs \in SUBSET (S \X Records) :
       /\ Cardinality(pairs) <= MaxReferences
       /\ \E kind \in [pairs -> {"fk", "m2m", "alias"}] :
            refs = {[from |-> x[1], to |-> x[2], kind |-> kind[x]] : x \in pairs}
       /\ Exported(S)
  /\ existing \in SUBSET Records
  /\ at = "center" /\ package = NoPackage /\ retry = NoPackage
  /\ preview = NoResult /\ result = NoResult /\ conflict = "update"
  /\ remaining = {} /\ completed = {} /\ failed = {} /\ refused = {} /\ broken = {}
  /\ ready = {} /\ errors = {}
  /\ last = "none" /\ imports = 0 /\ troubles = 0 /\ steady = TRUE

NoWork ==
  /\ remaining' = {} /\ completed' = {} /\ failed' = {} /\ refused' = {} /\ broken' = {}
  /\ ready' = {} /\ errors' = {} /\ result' = NoResult

\* A package is uploaded, checked, previewed and kept as the pending one.
Upload(p, c) ==
  /\ at \in {"center", "reviewed"} /\ imports < MaxImports
  /\ p # NoPackage /\ Accepted(p)
  /\ KeepsPending(p) /\ conflict' = c
  /\ preview' = PreviewOf(p, c)
  /\ at' = "reviewed" /\ steady' = TRUE /\ last' = "none"
  /\ NoWork
  /\ UNCHANGED <<input, existing, retry, imports, troubles>>

\* The pending package is gone, and what was said of it.
NothingPending ==
  /\ at' = "center" /\ package' = NoPackage
  /\ preview' = NoResult /\ conflict' = "update"

\* The pending package is tried without a change and dropped.
DryRun ==
  /\ at = "reviewed"
  /\ NothingPending
  /\ UNCHANGED <<input, existing, retry, work, last, bounds>>

\* The pending file (or the retry package) is removed after a day by whoever
\* uploads next; an import of it is then refused.
PendingExpires ==
  /\ at = "reviewed"
  /\ NothingPending
  /\ UNCHANGED <<input, existing, retry, work, last, bounds>>

RetryExpires ==
  /\ at = "center" /\ retry # NoPackage
  /\ retry' = NoPackage /\ last' = "none"
  /\ UNCHANGED <<input, existing, at, package, preview, conflict, work, bounds>>

\* The import form is sent, with a strategy of its own.
Commits(c) ==
  /\ at = "reviewed" /\ PendingFile /\ imports < MaxImports
  /\ imports' = imports + 1 /\ conflict' = c

\* The atomic import: rows in order, then their relations, in one transaction.
AtomicImport(c) ==
  /\ Commits(c)
  /\ steady' = (steady /\ c = conflict)
  /\ IF AllResolve(package.records, c)
     THEN /\ completed' = package.records
          /\ existing' = existing \cup package.records
          /\ result' = Counts(package.records, c)
          /\ at' = "finish" /\ UNCHANGED last
     ELSE /\ last' = "unresolved"
          /\ UNCHANGED <<completed, existing, result, at>>
  /\ UNCHANGED <<input, package, preview, retry, remaining, failed, refused,
                 broken, ready, errors, troubles>>

\* A row fails for a reason of its own: everything is rolled back.
AtomicFails(c) ==
  /\ Commits(c) /\ troubles < MaxTroubles
  /\ troubles' = troubles + 1
  /\ last' = "fault" /\ steady' = FALSE
  /\ UNCHANGED <<input, existing, at, package, preview, retry, work>>

PartialImport(c) ==
  /\ Commits(c)
  /\ steady' = (steady /\ c = conflict)
  /\ at' = "head" /\ remaining' = package.records
  /\ UNCHANGED <<input, existing, package, preview, retry, completed, failed,
                 refused, broken, ready, result, errors, last, troubles>>

\* The head of the loop: blocked rows fail, the ready ones are listed.
ChooseReady ==
  LET blocked == {r \in remaining : Blocked(r)}
      left == remaining \ blocked
      next == {r \in left : Dependencies(r) \subseteq completed}
  IN /\ at = "head"
     /\ Fails(blocked) /\ refused' = refused \cup blocked
     /\ remaining' = left /\ ready' = next
     /\ at' = IF left = {} THEN "finish" ELSE IF next = {} THEN "cycle" ELSE "ready"
     /\ UNCHANGED <<input, existing, package, preview, retry, conflict, completed, broken,
                    last, bounds>>

Imported(S) ==
  /\ completed' = completed \cup S
  /\ existing' = existing \cup S
  /\ result' = Counts(S, conflict)
  /\ UNCHANGED <<failed, broken, errors>>

\* Rows whose transaction failed; the ones that exist are remembered by their object.
NotImported(S) ==
  /\ Fails(S)
  /\ broken' = broken \cup (S \cap existing)
  /\ UNCHANGED <<completed, existing>>

\* The next row of the list, in a transaction of its own.
ImportRecord(r, fault) ==
  /\ at = "ready" /\ r \in ready /\ \A x \in ready : r <= x
  /\ fault => troubles < MaxTroubles
  /\ IF ~DependsOnFailed(r) /\ Resolves(r, conflict, {}, {r}) /\ ~fault
     THEN Imported({r}) ELSE NotImported({r})
  /\ remaining' = remaining \ {r} /\ ready' = ready \ {r}
  /\ at' = IF ready = {r} THEN IF remaining = {r} THEN "finish" ELSE "head" ELSE "ready"
  /\ troubles' = troubles + IF fault THEN 1 ELSE 0
  /\ steady' = (steady /\ ~fault)
  /\ UNCHANGED <<input, package, preview, retry, conflict, refused, last, imports>>

\* Nothing is ready: the rest is a cycle, imported together.
ImportCycle(fault) ==
  /\ at = "cycle"
  /\ fault => troubles < MaxTroubles
  /\ IF AllResolve(remaining, conflict) /\ ~fault THEN Imported(remaining) ELSE NotImported(remaining)
  /\ remaining' = {} /\ UNCHANGED ready
  /\ at' = "finish"
  /\ troubles' = troubles + IF fault THEN 1 ELSE 0
  /\ steady' = (steady /\ ~fault)
  /\ UNCHANGED <<input, package, preview, retry, conflict, refused, last, imports>>

\* The result page: a retry package for what failed, the pending one is dropped.
ShowResult ==
  /\ at = "finish"
  /\ IF result.failed > 0 /\ errors # {} THEN KeepsRetry(RetryOf(package, errors))
     ELSE UNCHANGED retry
  /\ at' = "center" /\ package' = NoPackage /\ last' = "imported"
  /\ UNCHANGED <<input, existing, preview, conflict, work, bounds>>

\* The retry package cannot be built or written: an error is shown, and the
\* pending package stays although its rows were imported.
ShowResultFails ==
  /\ at = "finish" /\ result.failed > 0 /\ troubles < MaxTroubles
  /\ troubles' = troubles + 1
  /\ at' = "reviewed" /\ last' = "no retry" /\ steady' = FALSE
  /\ NoWork
  /\ UNCHANGED <<input, existing, package, preview, retry, conflict, imports>>

\* Another administrator deletes an object.
Deleted(r) ==
  /\ r \in existing /\ troubles < MaxTroubles
  /\ at \in {"reviewed", "head", "ready", "cycle"}
  /\ existing' = existing \ {r}
  /\ troubles' = troubles + 1 /\ steady' = FALSE
  /\ UNCHANGED <<input, at, package, preview, retry, conflict, work, last, imports>>

\* The import center; model_import is the same for packages of one model.
PackageNext ==
  \/ \E p \in {original, retry}, c \in {"update", "skip"} : Upload(p, c)
  \/ DryRun \/ PendingExpires \/ RetryExpires
  \/ \E c \in {"update", "skip"} : AtomicImport(c) \/ AtomicFails(c) \/ PartialImport(c)
  \/ ChooseReady
  \/ \E r \in Records, fault \in BOOLEAN : ImportRecord(r, fault)
  \/ \E fault \in BOOLEAN : ImportCycle(fault)
  \/ ShowResult \/ ShowResultFails
  \/ \E r \in Records : Deleted(r)

PackageSpec == PackageInit /\ [][PackageNext]_packageVars

-----------------------------------------------------------------------------
(* Properties.                                                             *)

\* "A relationship-dependent operation should not be called a successful partial
\* import when the dependency graph makes the resulting data invalid": no record
\* that was imported refers to a record of the package that failed.
ImportedHasDeps ==
  \A e \in refs : e.kind # "alias" /\ e.from \in completed => e.to \notin failed

\* What does hold: a row that was tried and failed takes the rows that refer to
\* it along, whatever the order, the cycles and the objects that exist already.
FailureBlocks ==
  \A e \in refs : e.kind # "alias" /\ e.from \in completed => e.to \notin failed \ refused

\* The retry package of a partial import is one the import center accepts, has only
\* rows that failed, and lacks one of them only when it has as many as a result
\* keeps errors, whichever rows fail, blocked in one go or one by one.
RetryIsExact ==
  last = "imported" /\ result.failed > 0 =>
    /\ Accepted(retry) /\ retry.records \subseteq failed
    /\ retry.records = failed \/ Cardinality(retry.records) >= MaxErrors

\* "Retry failed subsets without reconstructing them manually": the imported rows
\* and the retry package make up the whole package.
RetryIsComplete ==
  last = "imported" /\ result.failed > 0 => retry.records = failed

\* The result accounts for every row once, and an import in which nothing failed
\* and nothing changed since the preview did what the preview of the package announced.
PreviewHolds ==
  last = "imported" =>
    /\ result.created + result.updated + result.skipped = Cardinality(completed)
    /\ result.failed = Cardinality(failed)
    /\ steady /\ failed = {} => result = preview

\* "Relationship restoration is identity-aware and does not depend on archive row
\* order": an atomic import is refused only when a reference has no target at all
\* or the records refer to each other in a circle.
Circular == \E e, f \in refs : e.to = f.from /\ f.to = e.from

OrderDoesNotMatter ==
  last = "unresolved" /\ ~Circular =>
    \E e \in Outgoing(package.records) : e.to \notin package.records \cup existing

=============================================================================
