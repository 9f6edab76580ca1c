----------------------------- MODULE AdminTools_proofs -----------------------------
(***************************************************************************)
(* What holds of the import of a Paxalia package (PackageImport) for any     *)
(* number of records, references, imports and failures, of Server Files      *)
(* (ServerFiles) for any number of requests, places, writes and failures,     *)
(* and of the Admin Center (AdminCenter) for any rows, tabs and edits.        *)
(***************************************************************************)
EXTENDS PackageImport, ServerFiles, AdminCenter, Integers, FiniteSetTheorems,
        WellFoundedInduction, TLAPS

-----------------------------------------------------------------------------
(* A partial import. *)

Importing == at \in {"head", "ready", "cycle"}

\* Before an import there is no work.
NoWorkYet ==
  at = "reviewed" => completed = {} /\ failed = {} /\ refused = {}

\* Every row of the package is still to do, imported or failed, and only one of these.
Divided ==
  /\ completed \cap failed = {} /\ refused \subseteq failed
  /\ Importing => /\ package.records = remaining \cup completed \cup failed
                  /\ remaining \cap completed = {} /\ remaining \cap failed = {}

\* An imported row waited for the rows it refers to, unless they were blocked.
DependenciesFirst ==
  /\ Importing => \A r \in completed : Dependencies(r) \subseteq completed \cup refused
  /\ at = "ready" => \A r \in ready : r \in remaining /\ Dependencies(r) \subseteq completed
  /\ at = "cycle" =>
       \A r \in remaining : Dependencies(r) \subseteq remaining \cup completed \cup refused

ImportInv == NoWorkYet /\ Divided /\ DependenciesFirst /\ FailureBlocks

\* What Dependencies says of one reference.
LEMMA DependencyOf ==
  ASSUME NEW e \in refs, e.kind # "alias", e.kind \in {"fk", "m2m", "alias"},
         e.to \in package.records, e.to # e.from
  PROVE  e.to \in Dependencies(e.from)
<1>1. e.to \in Targets(e.from, {"fk", "m2m"})
  BY SMT DEF Targets
<1>. QED  BY <1>1, SMT DEF Dependencies

\* The kinds of the references, which no step changes.
ReferenceKinds == \A e \in refs : e.kind \in {"fk", "m2m", "alias"}

\* A step of the import keeps the references and the package.
LEMMA StepBlocks ==
  ASSUME ReferenceKinds, UNCHANGED <<input, package>>, Divided',
         \A r \in completed' : Dependencies(r) \subseteq completed' \cup refused',
         failed' \subseteq package.records
  PROVE  FailureBlocks'
<1>1. refs' = refs
  BY Zenon DEF input
<1>. SUFFICES ASSUME NEW e \in refs, e.kind # "alias", e.from \in completed',
                     e.to \in failed', e.to \notin refused'
              PROVE  FALSE
  BY <1>1, Zenon DEF FailureBlocks
<1>2. e.to # e.from /\ e.to \in package.records
  BY Zenon DEF Divided
<1>3. e.to \in Dependencies(e.from)
  BY <1>2, DependencyOf, Zenon DEF ReferenceKinds
<1>. QED  BY <1>3, Zenon DEF Divided

LEMMA SameDependencies ==
  ASSUME UNCHANGED <<input, package>>, NEW r
  PROVE  Dependencies(r)' = Dependencies(r)
BY Zenon DEF input, Dependencies, Targets

LEMMA ChooseReadySafe ==
  ASSUME ImportInv, ReferenceKinds, ChooseReady
  PROVE  ImportInv'
<1>. DEFINE blocked == {r \in remaining : Blocked(r)}
            left == remaining \ blocked
            next == {r \in left : Dependencies(r) \subseteq completed}
<1>1. /\ at = "head" /\ UNCHANGED <<input, package, completed>>
      /\ failed' = failed \cup blocked /\ refused' = refused \cup blocked
      /\ remaining' = left /\ ready' = next
      /\ at' = IF left = {} THEN "finish" ELSE IF next = {} THEN "cycle" ELSE "ready"
  BY Zenon DEF ChooseReady, Fails
<1>2. /\ package.records = remaining \cup completed \cup failed
      /\ remaining \cap completed = {} /\ remaining \cap failed = {}
      /\ completed \cap failed = {} /\ refused \subseteq failed
      /\ \A r \in completed : Dependencies(r) \subseteq completed \cup refused
  BY <1>1, Zenon DEF ImportInv, Divided, DependenciesFirst, Importing
<1>3. blocked \subseteq remaining /\ left \subseteq remaining /\ next \subseteq left
      /\ left \cup blocked = remaining /\ left \cap blocked = {}
  BY SMT
<1>4. \A r \in left : Dependencies(r) \cap failed = {}
  BY SMT DEF Blocked, DependsOnFailed, Dependencies
<1>5. \A r \in remaining : Dependencies(r) \subseteq package.records
  BY SMT DEF Dependencies
<1>6. \A r \in next : Dependencies(r) \subseteq completed
  OBVIOUS
<1>. HIDE DEF blocked, left, next
<1>7. Divided'
  BY <1>1, <1>2, <1>3, SMT DEF Divided
<1>8. \A r : Dependencies(r)' = Dependencies(r)
  BY <1>1, SameDependencies
<1>9. DependenciesFirst'
  <2>1. \A r \in completed' : Dependencies(r) \subseteq completed' \cup refused'
    BY <1>1, <1>2, SMT
  <2>2. \A r \in ready' : r \in remaining' /\ Dependencies(r) \subseteq completed'
    BY <1>1, <1>3, <1>6, SMT
  <2>3. \A r \in remaining' : Dependencies(r) \subseteq remaining' \cup completed' \cup refused'
    BY <1>1, <1>2, <1>3, <1>4, <1>5, SMT
  <2>. QED  BY <1>8, <2>1, <2>2, <2>3, Zenon DEF DependenciesFirst
<1>10. FailureBlocks'
  BY <1>1, <1>2, <1>3, <1>7, StepBlocks, SMT
<1>11. NoWorkYet'
  BY <1>1, SMT DEF NoWorkYet
<1>. QED  BY <1>7, <1>9, <1>10, <1>11 DEF ImportInv

\* The next row of the list, imported or not.
LEMMA RecordSafe ==
  ASSUME ImportInv, ReferenceKinds, NEW r \in Records, NEW fault \in BOOLEAN, ImportRecord(r, fault)
  PROVE  ImportInv'
<1>1. /\ at = "ready" /\ r \in ready /\ UNCHANGED <<input, package, refused>>
      /\ remaining' = remaining \ {r} /\ ready' = ready \ {r}
      /\ \/ completed' = completed \cup {r} /\ failed' = failed
         \/ completed' = completed /\ failed' = failed \cup {r}
  BY Zenon DEF ImportRecord, Imported, NotImported, Fails
<1>2. /\ package.records = remaining \cup completed \cup failed
      /\ remaining \cap completed = {} /\ remaining \cap failed = {}
      /\ completed \cap failed = {} /\ refused \subseteq failed
      /\ \A x \in completed : Dependencies(x) \subseteq completed \cup refused
      /\ \A x \in ready : x \in remaining /\ Dependencies(x) \subseteq completed
  BY <1>1, Zenon DEF ImportInv, Divided, DependenciesFirst, Importing
<1>3. at' \in {"finish", "head", "ready"}
  BY SMT DEF ImportRecord
<1>4. Divided'
  BY <1>1, <1>2, SMT DEF Divided
<1>5. \A x : Dependencies(x)' = Dependencies(x)
  BY <1>1, SameDependencies
<1>6. \A x \in completed' : Dependencies(x) \subseteq completed' \cup refused'
  BY <1>1, <1>2, SMT
<1>7. \A x \in ready' : x \in remaining' /\ Dependencies(x) \subseteq completed'
  BY <1>1, <1>2, SMT
<1>8. DependenciesFirst'
  <2>1. at' # "cycle"
    BY <1>3
  <2>. QED  BY <1>5, <1>6, <1>7, <2>1, Zenon DEF DependenciesFirst
<1>9. FailureBlocks'
  BY <1>1, <1>2, <1>4, <1>6, StepBlocks, SMT
<1>10. NoWorkYet'
  BY <1>3 DEF NoWorkYet
<1>. QED  BY <1>4, <1>8, <1>9, <1>10 DEF ImportInv

\* What is left is a cycle: all of it is imported, or none.
LEMMA CycleSafe ==
  ASSUME ImportInv, ReferenceKinds, NEW fault \in BOOLEAN, ImportCycle(fault)
  PROVE  ImportInv'
<1>1. /\ at = "cycle" /\ at' = "finish" /\ UNCHANGED <<input, package, refused>>
      /\ remaining' = {}
      /\ \/ completed' = completed \cup remaining /\ failed' = failed
         \/ completed' = completed /\ failed' = failed \cup remaining
  BY Zenon DEF ImportCycle, Imported, NotImported, Fails
<1>2. /\ package.records = remaining \cup completed \cup failed
      /\ remaining \cap completed = {} /\ remaining \cap failed = {}
      /\ completed \cap failed = {} /\ refused \subseteq failed
      /\ \A x \in completed : Dependencies(x) \subseteq completed \cup refused
      /\ \A x \in remaining : Dependencies(x) \subseteq remaining \cup completed \cup refused
  BY <1>1, Zenon DEF ImportInv, Divided, DependenciesFirst, Importing
<1>3. Divided'
  BY <1>1, <1>2, SMT DEF Divided, Importing
<1>4. \A x \in completed' : Dependencies(x) \subseteq completed' \cup refused'
  BY <1>1, <1>2, SMT
<1>5. DependenciesFirst' /\ NoWorkYet'
  BY <1>1, SMT DEF DependenciesFirst, NoWorkYet, Importing
<1>6. FailureBlocks'
  BY <1>1, <1>2, <1>3, <1>4, StepBlocks, SMT
<1>. QED  BY <1>3, <1>5, <1>6 DEF ImportInv

\* The import begins, record by record or in one transaction.
LEMMA BeginSafe ==
  ASSUME ImportInv, ReferenceKinds, NEW c \in {"update", "skip"},
         AtomicImport(c) \/ AtomicFails(c) \/ PartialImport(c)
  PROVE  ImportInv'
<1>1. /\ at = "reviewed" /\ completed = {} /\ failed = {} /\ refused = {}
      /\ UNCHANGED <<input, package, failed, refused, ready>>
  BY SMT DEF AtomicImport, AtomicFails, PartialImport, Commits, work, ImportInv, NoWorkYet
<1>2. FailureBlocks'
  BY <1>1, Zenon DEF FailureBlocks, input
<1>3. CASE PartialImport(c)
  <2>1. at' = "head" /\ remaining' = package.records /\ completed' = {}
    BY <1>1, <1>3, Zenon DEF PartialImport
  <2>2. Divided' /\ DependenciesFirst' /\ NoWorkYet'
    BY <1>1, <2>1, SMT DEF Divided, DependenciesFirst, NoWorkYet, Importing
  <2>. QED  BY <1>2, <2>2 DEF ImportInv
<1>4. CASE AtomicImport(c) \/ AtomicFails(c)
  <2>1. (at' = "finish" /\ completed' = package.records) \/ (at' = "reviewed" /\ completed' = {})
    BY <1>1, <1>4, Zenon DEF AtomicImport, AtomicFails, work
  <2>2. Divided' /\ DependenciesFirst' /\ NoWorkYet'
    BY <1>1, <2>1, SMT DEF Divided, DependenciesFirst, NoWorkYet, Importing
  <2>. QED  BY <1>2, <2>2 DEF ImportInv
<1>. QED  BY <1>3, <1>4

\* The pages around the import, and the deletions of another administrator.
LEMMA PagesSafe ==
  ASSUME ImportInv,
         \/ \E p \in {original, retry}, c \in {"update", "skip"} : Upload(p, c)
         \/ DryRun \/ PendingExpires \/ RetryExpires \/ ShowResult \/ ShowResultFails
         \/ \E r \in Records : Deleted(r)
         \/ UNCHANGED packageVars
  PROVE  ImportInv'
<1>1. CASE /\ \/ \E p \in {original, retry}, c \in {"update", "skip"} : Upload(p, c)
              \/ ShowResultFails
  <2>1. at' = "reviewed" /\ completed' = {} /\ failed' = {} /\ refused' = {}
    BY <1>1, Zenon DEF Upload, ShowResultFails, NoWork
  <2>. QED  BY <2>1, SMT DEF ImportInv, NoWorkYet, Divided, DependenciesFirst, FailureBlocks, Importing
<1>2. CASE DryRun \/ PendingExpires \/ RetryExpires \/ ShowResult
  <2>1. at' = "center" /\ UNCHANGED <<input, completed, failed, refused>>
    BY <1>2, SMT DEF DryRun, PendingExpires, RetryExpires, ShowResult, NothingPending, work
  <2>2. NoWorkYet' /\ Divided' /\ DependenciesFirst'
    BY <2>1, SMT DEF ImportInv, NoWorkYet, Divided, DependenciesFirst, Importing
  <2>3. FailureBlocks'
    BY <2>1, Zenon DEF ImportInv, FailureBlocks, input
  <2>. QED  BY <2>2, <2>3 DEF ImportInv
<1>3. CASE \/ \E r \in Records : Deleted(r)
           \/ UNCHANGED packageVars
  <2>1. UNCHANGED <<input, at, package, remaining, completed, failed, refused, ready>>
    BY <1>3, Zenon DEF Deleted, packageVars, input, work
  <2>2. \A x : Dependencies(x)' = Dependencies(x)
    BY <2>1, SameDependencies
  <2>3. NoWorkYet' /\ Divided'
    BY <2>1, Zenon DEF ImportInv, NoWorkYet, Divided, Importing
  <2>4. DependenciesFirst'
    BY <2>1, <2>2, Zenon DEF ImportInv, DependenciesFirst, Importing
  <2>5. FailureBlocks'
    BY <2>1, Zenon DEF ImportInv, FailureBlocks, input
  <2>. QED  BY <2>3, <2>4, <2>5 DEF ImportInv
<1>. QED  BY <1>1, <1>2, <1>3

LEMMA KindsKept ==
  ASSUME ReferenceKinds, [PackageNext]_packageVars
  PROVE  ReferenceKinds'
<1>1. refs' = refs
  BY Zenon DEF PackageNext, Upload, DryRun, PendingExpires, RetryExpires, AtomicImport,
     AtomicFails, PartialImport, ChooseReady, ImportRecord, ImportCycle, ShowResult,
     ShowResultFails, Deleted, packageVars, input
<1>. QED  BY <1>1, Zenon DEF ReferenceKinds

LEMMA InitImport == PackageInit => ImportInv /\ ReferenceKinds
<1>. SUFFICES ASSUME PackageInit PROVE ImportInv /\ ReferenceKinds
  OBVIOUS
<1>1. at = "center" /\ completed = {} /\ failed = {} /\ refused = {}
  BY Zenon DEF PackageInit
<1>2. ImportInv
  BY <1>1, SMT DEF ImportInv, NoWorkYet, Divided, DependenciesFirst, FailureBlocks, Importing
<1>3. ReferenceKinds
  <2>1. PICK S \in SUBSET Records \ {{}} : \E pairs \in SUBSET (S \X Records) :
           \E kind \in [pairs -> {"fk", "m2m", "alias"}] :
             refs = {[from |-> x[1], to |-> x[2], kind |-> kind[x]] : x \in pairs}
    BY Zenon DEF PackageInit
  <2>2. PICK pairs \in SUBSET (S \X Records) : \E kind \in [pairs -> {"fk", "m2m", "alias"}] :
             refs = {[from |-> x[1], to |-> x[2], kind |-> kind[x]] : x \in pairs}
    BY <2>1
  <2>3. PICK kind \in [pairs -> {"fk", "m2m", "alias"}] :
             refs = {[from |-> x[1], to |-> x[2], kind |-> kind[x]] : x \in pairs}
    BY <2>2
  <2>. QED  BY <2>3, SMT DEF ReferenceKinds
<1>. QED  BY <1>2, <1>3

LEMMA ImportInvariant == PackageSpec => []ImportInv
<1>1. ImportInv /\ ReferenceKinds /\ [PackageNext]_packageVars => (ImportInv /\ ReferenceKinds)'
  BY KindsKept, ChooseReadySafe, RecordSafe, CycleSafe, BeginSafe, PagesSafe,
     Zenon DEF PackageNext
<1>. QED  BY <1>1, InitImport, PTL DEF PackageSpec

\* Whatever the references, the objects that exist, the deletions and the failures:
\* a row that was tried and failed is never referred to by a row that was imported.
THEOREM FailedRowsBlock == PackageSpec => []FailureBlocks
<1>1. ImportInv => FailureBlocks
  BY DEF ImportInv
<1>. QED  BY <1>1, ImportInvariant, PTL

-----------------------------------------------------------------------------
(* The result of an import, and its retry package. *)

\* Counters of whole numbers.
Counter == [created : Nat, updated : Nat, skipped : Nat, failed : Nat]

ImportTypes ==
  /\ package.records \subseteq Records /\ Accepted(package)
  /\ Accepted(original) /\ Accepted(retry)
  /\ original.records \subseteq Records /\ retry.records \subseteq Records
  /\ existing \subseteq Records /\ remaining \subseteq Records
  /\ completed \subseteq Records /\ failed \subseteq Records
  /\ result \in Counter /\ preview \in Counter
  /\ conflict \in {"update", "skip"}

\* The counters of the result are those of the rows, and every failed row has its
\* error as long as the list has room.
Accounted ==
  /\ result.created + result.updated + result.skipped = Cardinality(completed)
  /\ result.failed = Cardinality(failed)
  /\ errors \subseteq failed
  /\ errors = failed \/ Cardinality(errors) >= MaxErrors

\* Nothing of a package is left to do when its result is shown, and nothing was
\* done before it is imported.
Bounded ==
  /\ at # "center" => failed \subseteq package.records
  /\ at = "reviewed" => result = NoResult /\ completed = {} /\ failed = {} /\ errors = {}
  /\ at = "reviewed" => remaining = {}
  /\ at = "ready" => ready \subseteq remaining
  /\ at = "finish" => remaining = {}

\* What is still to do of the package.
ToDo == IF at = "reviewed" THEN package.records ELSE remaining

\* What the counters will be if the rest is done as announced.
Ahead(sofar, S, found, c) ==
  [created |-> sofar.created + Cardinality(S \ found),
   updated |-> sofar.updated + IF c = "update" THEN Cardinality(S \cap found) ELSE 0,
   skipped |-> sofar.skipped + IF c = "skip" THEN Cardinality(S \cap found) ELSE 0,
   failed |-> 0]

AsAnnounced ==
  at # "center" /\ steady /\ failed = {} => preview = Ahead(result, ToDo, existing, conflict)

\* The page of the result comes after the import.
ShownAtEnd ==
  last = "imported" =>
    /\ at = "center"
    /\ steady /\ failed = {} => result = preview
    /\ result.failed > 0 => retry.records = errors

ResultInv == ImportTypes /\ Accounted /\ Bounded /\ AsAnnounced /\ ShownAtEnd

-----------------------------------------------------------------------------
(* Counting rows. *)

LEMMA FewRecords ==
  ASSUME NEW S, S \subseteq Records
  PROVE  IsFiniteSet(S) /\ Cardinality(S) \in Nat
<1>1. IsFiniteSet(Records)
  BY FS_Interval, PackageBounds, SMT DEF Records
<1>2. IsFiniteSet(S)
  BY <1>1, FS_Subset, Zenon
<1>. QED  BY <1>2, FS_CardinalityType, Zenon

LEMMA Apart ==
  ASSUME NEW S, S \subseteq Records, NEW T, T \subseteq Records, S \cap T = {}
  PROVE  Cardinality(S \cup T) = Cardinality(S) + Cardinality(T)
<1>1. IsFiniteSet(S) /\ IsFiniteSet(T) /\ Cardinality(S) \in Nat /\ Cardinality(T) \in Nat
  BY FewRecords, Zenon
<1>2. Cardinality(S \cup T) = Cardinality(S) + Cardinality(T) - Cardinality(S \cap T)
  BY <1>1, FS_Union, Zenon
<1>3. Cardinality(S \cap T) = 0
  BY FS_EmptySet, Zenon
<1>. QED  BY <1>1, <1>2, <1>3, SMT

LEMMA InTwo ==
  ASSUME NEW S, S \subseteq Records, NEW T
  PROVE  Cardinality(S) = Cardinality(S \ T) + Cardinality(S \cap T)
<1>1. /\ S \ T \subseteq Records /\ S \cap T \subseteq Records
      /\ (S \ T) \cap (S \cap T) = {} /\ (S \ T) \cup (S \cap T) = S
  OBVIOUS
<1>2. Cardinality((S \ T) \cup (S \cap T)) = Cardinality(S \ T) + Cardinality(S \cap T)
  BY <1>1, Apart, Zenon
<1>. QED  BY <1>1, <1>2, Zenon

\* The rows of S before one of them are fewer than S.
LEMMA Before ==
  ASSUME NEW S, S \subseteq Records, NEW r \in S
  PROVE  /\ Cardinality({x \in S : x < r}) \in Nat
         /\ Cardinality({x \in S : x < r}) < Cardinality(S)
<1>. DEFINE T == {x \in S : x < r}
<1>1. \A x \in S : x \in Nat /\ ~(x < x)
  BY PackageBounds, SMT DEF Records
<1>2. T \subseteq S /\ T \subseteq S \ {r} /\ S \ {r} \subseteq Records /\ T \subseteq Records
  BY <1>1, Zenon
<1>3. /\ IsFiniteSet(S) /\ IsFiniteSet(S \ {r}) /\ Cardinality(S) \in Nat
      /\ Cardinality(T) \in Nat
  BY <1>2, FewRecords, Zenon
<1>. HIDE DEF T
<1>4. Cardinality(S \ {r}) = Cardinality(S) - 1
  BY <1>3, FS_RemoveElement, Zenon
<1>5. Cardinality(T) <= Cardinality(S \ {r})
  BY <1>2, <1>3, FS_Subset, Zenon
<1>6. Cardinality(T) \in Nat /\ Cardinality(T) < Cardinality(S)
  BY <1>3, <1>4, <1>5, SMT
<1>. QED  BY <1>6 DEF T

\* Every set of rows that is not empty has a first one.
LEMMA FirstRow ==
  ASSUME NEW T \in SUBSET Records, T # {}
  PROVE  \E m \in T : \A x \in T : ~ (x < m)
<1> DEFINE Less == {p \in Nat \X Nat : p[1] < p[2]}
<1>1. IsWellFoundedOn(Less, Nat)
  BY NatLessThanWellFounded DEF OpToRel
<1>2. T \subseteq Nat
  BY PackageBounds, SMT DEF Records
<1> HIDE DEF Less
<1>3. PICK m \in T : \A x \in T : ~ (<<x, m>> \in Less)
  BY <1>1, <1>2, WFMin, Zenon
<1>4. \A x \in T : x < m => <<x, m>> \in Less
  BY <1>2, SMT DEF Less
<1>. QED  BY <1>3, <1>4, Zenon

\* Errors are left out only when the list is full.
LEMMA ErrorsFill ==
  ASSUME NEW S, S \subseteq Records, errors \subseteq Records, errors \cap S = {}
  PROVE  Kept(S) = S \/ Cardinality(errors \cup Kept(S)) >= MaxErrors
<1>. SUFFICES ASSUME S \ Kept(S) # {} PROVE Cardinality(errors \cup Kept(S)) >= MaxErrors
  BY Zenon DEF Kept
<1>1. Kept(S) \subseteq S /\ S \ Kept(S) \in SUBSET Records
  BY Zenon DEF Kept
<1>2. PICK m \in S \ Kept(S) : \A x \in S \ Kept(S) : ~ (x < m)
  BY <1>1, FirstRow, Zenon
<1> DEFINE B == {x \in S : x < m}
<1>3. B \subseteq Kept(S) /\ B \subseteq Records /\ errors \cap B = {}
  BY <1>2, Zenon
<1>4. ~ (Cardinality(errors) + Cardinality(B) < MaxErrors)
  BY <1>2, Zenon DEF Kept
<1> HIDE DEF B
<1>5. Cardinality(errors \cup B) = Cardinality(errors) + Cardinality(B)
  BY <1>3, Apart, Zenon
<1>6. /\ errors \cup Kept(S) \subseteq Records /\ errors \cup B \subseteq errors \cup Kept(S)
  BY <1>1, <1>3, Zenon
<1>7. IsFiniteSet(errors \cup Kept(S)) /\ Cardinality(errors \cup Kept(S)) \in Nat
  BY <1>6, FewRecords, Zenon
<1>8. Cardinality(errors \cup B) <= Cardinality(errors \cup Kept(S))
  BY <1>6, <1>7, FS_Subset, Zenon
<1>9. Cardinality(errors) \in Nat /\ Cardinality(B) \in Nat
  BY <1>3, FewRecords, Zenon
<1>. QED  BY <1>4, <1>5, <1>7, <1>8, <1>9, PackageBounds, SMT

\* Packages the import center may hold.
LEMMA CountedIsAccepted ==
  ASSUME NEW S
  PROVE  Counted(S).records = S /\ Accepted(Counted(S))
BY Zenon DEF Counted, Accepted

-----------------------------------------------------------------------------

\* Rows that fail.
LEMMA FailuresAccounted ==
  ASSUME ImportTypes, Accounted, NEW S, S \subseteq Records, S \cap failed = {}, Fails(S),
         completed' = completed
  PROVE  Accounted' /\ result' \in Counter /\ failed' \subseteq Records
<1>1. /\ failed' = failed \cup S /\ errors' = errors \cup Kept(S)
      /\ result' = [result EXCEPT !.failed = @ + Cardinality(S)]
  BY Zenon DEF Fails
<1>2. /\ Cardinality(S) \in Nat /\ Cardinality(failed) \in Nat
      /\ Cardinality(failed') = Cardinality(failed) + Cardinality(S)
      /\ failed' \subseteq Records
  BY <1>1, FewRecords, Apart, Zenon DEF ImportTypes
<1>3. /\ result' \in Counter /\ result'.failed = result.failed + Cardinality(S)
      /\ result'.created = result.created /\ result'.updated = result.updated
      /\ result'.skipped = result.skipped
  BY <1>1, <1>2, SMT DEF ImportTypes, Counter
<1>4. Kept(S) \subseteq S
  BY SMT DEF Kept
<1>5. errors' = failed' \/ Cardinality(errors') >= MaxErrors
  <2>1. errors \subseteq Records /\ errors \cap S = {}
    BY Zenon DEF Accounted, ImportTypes
  <2>2. CASE errors = failed
    BY <1>1, <2>1, <2>2, ErrorsFill, Zenon
  <2>3. CASE Cardinality(errors) >= MaxErrors
    <3>1. errors \subseteq errors' /\ errors' \subseteq Records
      BY <1>1, <1>4, <2>1, Zenon
    <3>2. IsFiniteSet(errors') /\ Cardinality(errors') \in Nat /\ Cardinality(errors) \in Nat
      BY <2>1, <3>1, FewRecords, Zenon
    <3>3. Cardinality(errors) <= Cardinality(errors')
      BY <3>1, <3>2, FS_Subset, Zenon
    <3>. QED  BY <2>3, <3>2, <3>3, PackageBounds, SMT
  <2>. QED  BY <2>2, <2>3, Zenon DEF Accounted
<1>6. errors' \subseteq failed'
  BY <1>1, <1>4, Zenon DEF Accounted
<1>7. result'.created + result'.updated + result'.skipped = Cardinality(completed')
      /\ result'.failed = Cardinality(failed')
  BY <1>2, <1>3, SMT DEF Accounted
<1>. QED  BY <1>2, <1>3, <1>5, <1>6, <1>7, Zenon DEF Accounted

\* Rows that are imported.
LEMMA ImportsAccounted ==
  ASSUME ImportTypes, Accounted, NEW S, S \subseteq Records, S \cap completed = {},
         NEW c \in {"update", "skip"}, result' = Counts(S, c),
         completed' = completed \cup S, UNCHANGED <<failed, errors>>
  PROVE  /\ Accounted' /\ result' \in Counter /\ completed' \subseteq Records
         /\ result'.created = result.created + Cardinality(S \ existing)
         /\ result'.updated = result.updated + IF c = "update" THEN Cardinality(S \cap existing) ELSE 0
         /\ result'.skipped = result.skipped + IF c = "skip" THEN Cardinality(S \cap existing) ELSE 0
         /\ result'.failed = result.failed
<1>. DEFINE old == Cardinality(S \cap existing)
<1>1. /\ Cardinality(S) \in Nat /\ old \in Nat /\ Cardinality(S \ existing) \in Nat
      /\ Cardinality(completed) \in Nat
  <2>1. S \cap existing \subseteq Records /\ S \ existing \subseteq Records /\ completed \subseteq Records
    BY Zenon DEF ImportTypes
  <2>. QED  BY <2>1, FewRecords, Zenon
<1>2. Cardinality(S) = Cardinality(S \ existing) + old
  BY InTwo, Zenon
<1>3. Cardinality(completed') = Cardinality(completed) + Cardinality(S)
  BY Apart, Zenon DEF ImportTypes
<1>4. result' = [result EXCEPT !.created = @ + Cardinality(S) - old,
                               !.updated = @ + IF c = "update" THEN old ELSE 0,
                               !.skipped = @ + IF c = "skip" THEN old ELSE 0]
  BY Zenon DEF Counts
<1>. HIDE DEF old
<1>. DEFINE u == IF c = "update" THEN old ELSE 0
            s == IF c = "skip" THEN old ELSE 0
<1>5. /\ result.created \in Nat /\ result.updated \in Nat /\ result.skipped \in Nat
      /\ result.failed \in Nat
      /\ result = [created |-> result.created, updated |-> result.updated,
                   skipped |-> result.skipped, failed |-> result.failed]
  BY SMT DEF ImportTypes, Counter
<1>6. /\ result'.created = result.created + Cardinality(S) - old
      /\ result'.updated = result.updated + IF c = "update" THEN old ELSE 0
      /\ result'.skipped = result.skipped + IF c = "skip" THEN old ELSE 0
      /\ result'.failed = result.failed
      /\ result' = [created |-> result'.created, updated |-> result'.updated,
                     skipped |-> result'.skipped, failed |-> result'.failed]
  <2>1. result' = [created |-> result.created + Cardinality(S) - old, updated |-> result.updated + u,
                   skipped |-> result.skipped + s, failed |-> result.failed]
    BY <1>4, <1>5, Zenon
  <2>. QED  BY <2>1, SMT
<1>7. result'.created = result.created + Cardinality(S \ existing)
  BY <1>1, <1>2, <1>5, <1>6, SMT
<1>8. /\ result'.created \in Nat /\ result'.updated \in Nat /\ result'.skipped \in Nat
      /\ result'.failed \in Nat
  BY <1>1, <1>5, <1>6, <1>7, SMT
<1>9. result' \in Counter
  BY <1>6, <1>8, SMT DEF Counter
<1>10. result'.created + result'.updated + result'.skipped = Cardinality(completed')
  BY <1>1, <1>2, <1>3, <1>5, <1>6, SMT DEF Accounted
<1>11. Accounted'
  BY <1>6, <1>10, Zenon DEF Accounted
<1>12. completed' \subseteq Records
  BY Zenon DEF ImportTypes
<1>. QED  BY <1>6, <1>7, <1>9, <1>11, <1>12, Zenon DEF old

\* What a step does to ToDo, to the rows that exist and to the result keeps their sum.
SumKept(T, S, E) ==
  /\ Cardinality(T \ E) = Cardinality(S \ E) + Cardinality((T \ S) \ (E \cup S))
  /\ Cardinality(T \cap E) = Cardinality(S \cap E) + Cardinality((T \ S) \cap (E \cup S))
  /\ Cardinality(S \ E) \in Nat /\ Cardinality((T \ S) \ (E \cup S)) \in Nat
  /\ Cardinality(S \cap E) \in Nat /\ Cardinality((T \ S) \cap (E \cup S)) \in Nat

LEMMA SameSum ==
  ASSUME NEW T, T \subseteq Records, NEW S, S \subseteq T, NEW E, E \subseteq Records
  PROVE  SumKept(T, S, E)
<1>. DEFINE A == S \ E
            B == (T \ S) \ (E \cup S)
            C == S \cap E
            D == (T \ S) \cap (E \cup S)
<1>1. A \subseteq Records /\ B \subseteq Records /\ A \cap B = {} /\ A \cup B = T \ E
  OBVIOUS
<1>2. C \subseteq Records /\ D \subseteq Records /\ C \cap D = {} /\ C \cup D = T \cap E
  OBVIOUS
<1>. HIDE DEF A, B, C, D
<1>3. Cardinality(T \ E) = Cardinality(A) + Cardinality(B)
  BY <1>1, Apart, Zenon
<1>4. Cardinality(T \cap E) = Cardinality(C) + Cardinality(D)
  BY <1>2, Apart, Zenon
<1>5. /\ Cardinality(A) \in Nat /\ Cardinality(B) \in Nat
      /\ Cardinality(C) \in Nat /\ Cardinality(D) \in Nat
  BY <1>1, <1>2, FewRecords, Zenon
<1>. QED  BY <1>3, <1>4, <1>5, Zenon DEF A, B, C, D, SumKept

LEMMA SameContents ==
  ASSUME refs' = refs, NEW p
  PROVE  Accepted(p)' <=> Accepted(p)
BY Zenon DEF Accepted, Counted, Outgoing

\* Some of the rows that are left are imported.
LEMMA ImportedSafe ==
  ASSUME ResultInv, NEW S, S \subseteq ToDo, S \cap completed = {}, NEW c \in {"update", "skip"},
         result' = Counts(S, c), completed' = completed \cup S, existing' = existing \cup S,
         UNCHANGED <<failed, errors, refs, original, package, preview, retry>>,
         conflict' = c, steady' => steady /\ c = conflict,
         ToDo' = ToDo \ S, remaining' \subseteq Records,
         at # "center", last' # "imported", Bounded'
  PROVE  ResultInv'
<1>1. ToDo \subseteq Records /\ existing \subseteq Records
  BY Zenon DEF ResultInv, ImportTypes, ToDo
<1>2. /\ Accounted' /\ result' \in Counter /\ completed' \subseteq Records
      /\ result'.created = result.created + Cardinality(S \ existing)
      /\ result'.updated = result.updated + IF c = "update" THEN Cardinality(S \cap existing) ELSE 0
      /\ result'.skipped = result.skipped + IF c = "skip" THEN Cardinality(S \cap existing) ELSE 0
      /\ result'.failed = result.failed
  BY <1>1, ImportsAccounted, Zenon DEF ResultInv
<1>3. ImportTypes'
  <2>1. Accepted(package)' /\ Accepted(original)' /\ Accepted(retry)'
    BY SameContents, Zenon DEF ResultInv, ImportTypes
  <2>2. existing' \subseteq Records
    BY <1>1, Zenon
  <2>. QED  BY <1>2, <2>1, <2>2, Zenon DEF ResultInv, ImportTypes
<1>4. AsAnnounced'
  <2>. SUFFICES ASSUME steady', failed' = {} PROVE preview = Ahead(result, ToDo, existing, conflict)'
    BY Zenon DEF AsAnnounced
  <2>1. preview = Ahead(result, ToDo, existing, c)
    BY Zenon DEF ResultInv, AsAnnounced
  <2>2. /\ Cardinality(ToDo \ existing) = Cardinality(S \ existing) + Cardinality(ToDo' \ existing')
        /\ Cardinality(ToDo \cap existing) = Cardinality(S \cap existing) + Cardinality(ToDo' \cap existing')
        /\ Cardinality(S \ existing) \in Nat /\ Cardinality(ToDo' \ existing') \in Nat
        /\ Cardinality(S \cap existing) \in Nat /\ Cardinality(ToDo' \cap existing') \in Nat
    <3>1. SumKept(ToDo, S, existing)
      BY <1>1, SameSum, Zenon
    <3>. QED  BY <3>1, Zenon DEF SumKept
  <2>3. /\ result.created \in Nat /\ result.updated \in Nat /\ result.skipped \in Nat
    BY SMT DEF ResultInv, ImportTypes, Counter
  <2>4. /\ result.created + Cardinality(ToDo \ existing) = result'.created + Cardinality(ToDo' \ existing')
        /\ result.updated + (IF c = "update" THEN Cardinality(ToDo \cap existing) ELSE 0)
             = result'.updated + IF c = "update" THEN Cardinality(ToDo' \cap existing') ELSE 0
        /\ result.skipped + (IF c = "skip" THEN Cardinality(ToDo \cap existing) ELSE 0)
             = result'.skipped + IF c = "skip" THEN Cardinality(ToDo' \cap existing') ELSE 0
    BY <1>2, <2>2, <2>3, SMT
  <2>. QED  BY <2>1, <2>4, Zenon DEF Ahead
<1>5. ShownAtEnd'
  BY DEF ShownAtEnd
<1>. QED  BY <1>2, <1>3, <1>4, <1>5, Zenon DEF ResultInv

\* Some of the rows that are left fail, or none.
LEMMA FailedSafe ==
  ASSUME ResultInv, NEW S, S \subseteq remaining, S \cap failed = {}, Fails(S),
         UNCHANGED <<completed, existing, refs, original, package, preview, retry, conflict>>,
         steady' => steady, remaining' = remaining \ S,
         at \in {"head", "ready", "cycle"}, at' \in {"head", "ready", "cycle", "finish"},
         last' # "imported", Bounded'
  PROVE  ResultInv'
<1>1. S \subseteq Records
  BY Zenon DEF ResultInv, ImportTypes
<1>2. Accounted' /\ result' \in Counter /\ failed' \subseteq Records
  BY <1>1, FailuresAccounted, Zenon DEF ResultInv
<1>3. ImportTypes'
  <2>1. Accepted(package)' /\ Accepted(original)' /\ Accepted(retry)'
    BY SameContents, Zenon DEF ResultInv, ImportTypes
  <2>. QED  BY <1>2, <2>1, Zenon DEF ResultInv, ImportTypes
<1>4. AsAnnounced'
  <2>. SUFFICES ASSUME steady', failed' = {} PROVE preview = Ahead(result, ToDo, existing, conflict)'
    BY Zenon DEF AsAnnounced
  <2>1. S = {} /\ failed = {}
    BY Zenon DEF Fails
  <2>2. ToDo = remaining /\ ToDo' = remaining' /\ remaining' = remaining
    BY <2>1, SMT DEF ToDo
  <2>3. /\ result'.created = result.created /\ result'.updated = result.updated
        /\ result'.skipped = result.skipped
    BY SMT DEF Fails, ResultInv, ImportTypes, Counter
  <2>4. preview = Ahead(result, ToDo, existing, conflict)
    BY <2>1, SMT DEF ResultInv, AsAnnounced
  <2>. QED  BY <2>2, <2>3, <2>4, Zenon DEF Ahead
<1>5. ShownAtEnd'
  BY DEF ShownAtEnd
<1>. QED  BY <1>2, <1>3, <1>4, <1>5, Zenon DEF ResultInv

-----------------------------------------------------------------------------
(* The steps. *)

LEMMA ChooseReadyTells ==
  ASSUME ResultInv, Divided, ChooseReady
  PROVE  ResultInv'
<1>. DEFINE blocked == {r \in remaining : Blocked(r)}
            left == remaining \ blocked
            next == {r \in left : Dependencies(r) \subseteq completed}
<1>1. /\ at = "head" /\ Fails(blocked) /\ remaining' = left /\ ready' = next
      /\ UNCHANGED <<completed, existing, refs, original, package, preview, retry, conflict, steady, last>>
      /\ at' = IF left = {} THEN "finish" ELSE IF next = {} THEN "cycle" ELSE "ready"
  BY Zenon DEF ChooseReady, input, bounds
<1>2. blocked \subseteq remaining /\ next \subseteq left /\ left = remaining \ blocked
  OBVIOUS
<1>. HIDE DEF blocked, left, next
<1>3. /\ remaining \subseteq package.records /\ remaining \cap failed = {}
      /\ failed \subseteq package.records /\ last # "imported"
  BY <1>1, Zenon DEF Divided, Importing, ResultInv, ShownAtEnd, Bounded
<1>4. failed' = failed \cup blocked
  BY <1>1, Zenon DEF Fails
<1>5. Bounded'
  BY <1>1, <1>2, <1>3, <1>4, SMT DEF Bounded
<1>6. at' \in {"head", "ready", "cycle", "finish"}
  BY <1>1, SMT
<1>7. blocked \cap failed = {} /\ last' # "imported"
  BY <1>1, <1>2, <1>3, Zenon
<1>. QED  BY <1>1, <1>2, <1>5, <1>6, <1>7, FailedSafe, Zenon

\* Rows of the list, or the cycle, in a transaction.
LEMMA TransactionTells ==
  ASSUME ResultInv, Divided, NEW S, S \subseteq remaining,
         Imported(S) \/ NotImported(S),
         at \in {"ready", "cycle"}, remaining' = remaining \ S,
         at' \in {"head", "ready", "finish"},
         at' = "ready" => ready' \subseteq remaining', at' = "finish" => remaining' = {},
         UNCHANGED <<refs, original, package, preview, retry, conflict, last>>, steady' => steady
  PROVE  ResultInv'
<1>1. /\ remaining \subseteq package.records /\ remaining \cap failed = {}
      /\ remaining \cap completed = {}
      /\ failed \subseteq package.records /\ last # "imported"
  BY Zenon DEF Divided, Importing, ResultInv, ShownAtEnd, Bounded
<1>2. failed' = failed \/ failed' = failed \cup S
  BY Zenon DEF Imported, NotImported, Fails
<1>3. Bounded'
  BY <1>1, <1>2, SMT DEF Bounded
<1>4. ToDo = remaining /\ ToDo' = ToDo \ S /\ remaining' \subseteq Records
  BY SMT DEF ToDo, ResultInv, ImportTypes
<1>5. S \cap failed = {} /\ S \cap completed = {} /\ last' # "imported"
  BY <1>1, Zenon
<1>6. CASE Imported(S)
  <2>1. conflict \in {"update", "skip"}
    BY Zenon DEF ResultInv, ImportTypes
  <2>2. /\ completed' = completed \cup S /\ existing' = existing \cup S
        /\ result' = Counts(S, conflict) /\ UNCHANGED <<failed, errors>>
    BY <1>6, Zenon DEF Imported
  <2>3. at # "center" /\ S \subseteq ToDo /\ conflict' = conflict
    BY <1>4, Zenon
  <2>. QED  BY <1>3, <1>4, <1>5, <2>1, <2>2, <2>3, ImportedSafe, Zenon
<1>7. CASE NotImported(S)
  <2>1. Fails(S) /\ UNCHANGED <<completed, existing>>
    BY <1>7, Zenon DEF NotImported
  <2>2. at \in {"head", "ready", "cycle"} /\ at' \in {"head", "ready", "cycle", "finish"}
    OBVIOUS
  <2>. QED  BY <1>3, <1>5, <2>1, <2>2, FailedSafe, Zenon
<1>. QED  BY <1>6, <1>7

LEMMA RecordTells ==
  ASSUME ResultInv, Divided, NEW r \in Records, NEW fault \in BOOLEAN, ImportRecord(r, fault)
  PROVE  ResultInv'
<1>1. /\ at = "ready" /\ r \in ready
      /\ Imported({r}) \/ NotImported({r})
      /\ remaining' = remaining \ {r} /\ ready' = ready \ {r}
      /\ at' = IF ready = {r} THEN IF remaining = {r} THEN "finish" ELSE "head" ELSE "ready"
      /\ UNCHANGED <<refs, original, package, preview, retry, conflict, last>>
      /\ steady' => steady
  BY Zenon DEF ImportRecord, input
<1>2. ready \subseteq remaining
  BY <1>1, Zenon DEF ResultInv, Bounded
<1>3. /\ {r} \subseteq remaining /\ at' \in {"head", "ready", "finish"}
      /\ at' = "ready" => ready' \subseteq remaining'
      /\ at' = "finish" => remaining' = {}
  BY <1>1, <1>2, SMT
<1>. QED  BY <1>1, <1>3, TransactionTells, Zenon

LEMMA CycleTells ==
  ASSUME ResultInv, Divided, NEW fault \in BOOLEAN, ImportCycle(fault)
  PROVE  ResultInv'
<1>1. /\ at = "cycle"
      /\ Imported(remaining) \/ NotImported(remaining)
      /\ remaining' = {} /\ at' = "finish"
      /\ UNCHANGED <<refs, original, package, preview, retry, conflict, last>>
      /\ steady' => steady
  BY Zenon DEF ImportCycle, input
<1>2. remaining' = remaining \ remaining
  BY <1>1
<1>. QED  BY <1>1, <1>2, TransactionTells, Zenon

\* An import begins: the counters start at zero and the preview is still that of
\* the rows there are.
LEMMA PreviewIsAhead ==
  ASSUME NEW p, p.records \subseteq Records, NEW c
  PROVE  PreviewOf(p, c) = Ahead(NoResult, p.records, existing, c)
<1>. DEFINE S == p.records
            E == existing
<1>1. /\ Cardinality(S) = Cardinality(S \ E) + Cardinality(S \cap E)
      /\ Cardinality(S \ E) \in Nat /\ Cardinality(S \cap E) \in Nat
  <2>1. S \ E \subseteq Records /\ S \cap E \subseteq Records
    OBVIOUS
  <2>. QED  BY <2>1, InTwo, FewRecords, Zenon
<1>2. PreviewOf(p, c) = [created |-> Cardinality(S) - Cardinality(S \cap E),
                         updated |-> IF c = "update" THEN Cardinality(S \cap E) ELSE 0,
                         skipped |-> IF c = "skip" THEN Cardinality(S \cap E) ELSE 0,
                         failed |-> 0]
  BY Zenon DEF PreviewOf
<1>3. Ahead(NoResult, S, E, c) = [created |-> 0 + Cardinality(S \ E),
                        updated |-> 0 + IF c = "update" THEN Cardinality(S \cap E) ELSE 0,
                        skipped |-> 0 + IF c = "skip" THEN Cardinality(S \cap E) ELSE 0,
                        failed |-> 0]
  BY SMT DEF Ahead, NoResult
<1>. HIDE DEF S, E
<1>4. PreviewOf(p, c) = Ahead(NoResult, S, E, c)
  BY <1>1, <1>2, <1>3, SMT
<1>. QED  BY <1>4, Zenon DEF S, E

LEMMA NothingCounted == NoResult \in Counter /\ Cardinality({}) = 0
BY FS_EmptySet, SMT DEF NoResult, Counter

LEMMA PreviewCounts ==
  ASSUME NEW p, p.records \subseteq Records, NEW c
  PROVE  PreviewOf(p, c) \in Counter
<1>. DEFINE S == p.records
            old == Cardinality(S \cap existing)
<1>1. Cardinality(S) = Cardinality(S \ existing) + old
      /\ Cardinality(S \ existing) \in Nat /\ old \in Nat
  <2>1. S \ existing \subseteq Records /\ S \cap existing \subseteq Records
    OBVIOUS
  <2>. QED  BY <2>1, InTwo, FewRecords, Zenon
<1>2. PreviewOf(p, c) = [created |-> Cardinality(S) - old,
                         updated |-> IF c = "update" THEN old ELSE 0,
                         skipped |-> IF c = "skip" THEN old ELSE 0,
                         failed |-> 0]
  BY Zenon DEF PreviewOf
<1>. HIDE DEF S, old
<1>. QED  BY <1>1, <1>2, SMT DEF Counter

LEMMA UploadTells ==
  ASSUME ResultInv, NEW p \in {original, retry}, NEW c \in {"update", "skip"}, Upload(p, c)
  PROVE  ResultInv'
<1>1. /\ package' = p /\ conflict' = c /\ preview' = PreviewOf(p, c)
      /\ at' = "reviewed" /\ last' = "none"
      /\ remaining' = {} /\ completed' = {} /\ failed' = {} /\ errors' = {} /\ ready' = {}
      /\ result' = NoResult
      /\ UNCHANGED <<refs, original, retry, existing>>
      /\ Accepted(p) /\ p.records \subseteq Records
  BY Zenon DEF Upload, NoWork, KeepsPending, input, ResultInv, ImportTypes
<1>2. ImportTypes'
  <2>1. Accepted(package)' /\ Accepted(original)' /\ Accepted(retry)'
    <3>1. Accepted(p)'
      BY <1>1, SameContents, Zenon
    <3>. QED  BY <1>1, <3>1, SameContents, Zenon DEF ResultInv, ImportTypes
  <2>2. result' \in Counter /\ preview' \in Counter
    BY <1>1, NothingCounted, PreviewCounts, Zenon
  <2>. QED  BY <1>1, <2>1, <2>2, Zenon DEF ResultInv, ImportTypes
<1>3. Accounted'
  <2>1. result'.created = 0 /\ result'.updated = 0 /\ result'.skipped = 0 /\ result'.failed = 0
    BY <1>1, Zenon DEF NoResult
  <2>. QED  BY <1>1, <2>1, NothingCounted, SMT DEF Accounted
<1>4. Bounded' /\ ShownAtEnd'
  BY <1>1, SMT DEF Bounded, ShownAtEnd
<1>5. AsAnnounced'
  <2>1. PreviewOf(p, c) = Ahead(NoResult, p.records, existing, c)
    BY <1>1, PreviewIsAhead, Zenon
  <2>2. ToDo' = p.records
    BY <1>1, Zenon DEF ToDo
  <2>. QED  BY <1>1, <2>1, <2>2, Zenon DEF AsAnnounced
<1>. QED  BY <1>2, <1>3, <1>4, <1>5, Zenon DEF ResultInv

\* A step around the import that counts nothing.
LEMMA QuietSafe ==
  ASSUME ResultInv, at # "center", at' # "center", last' # "imported",
         UNCHANGED <<refs, original, package, preview, retry, result, completed, failed, errors>>,
         existing' \subseteq Records, remaining' \subseteq Records, conflict' \in {"update", "skip"},
         steady' => steady /\ existing' = existing /\ ToDo' = ToDo /\ conflict' = conflict,
         Bounded'
  PROVE  ResultInv'
<1>1. ImportTypes'
  <2>1. Accepted(package)' /\ Accepted(original)' /\ Accepted(retry)'
    BY SameContents, Zenon DEF ResultInv, ImportTypes
  <2>. QED  BY <2>1, Zenon DEF ResultInv, ImportTypes
<1>2. Accounted'
  BY Zenon DEF ResultInv, Accounted
<1>3. AsAnnounced'
  BY Zenon DEF ResultInv, AsAnnounced
<1>4. ShownAtEnd'
  BY DEF ShownAtEnd
<1>. QED  BY <1>1, <1>2, <1>3, <1>4, Zenon DEF ResultInv

LEMMA CommitTells ==
  ASSUME ResultInv, NEW c \in {"update", "skip"},
         AtomicImport(c) \/ AtomicFails(c) \/ PartialImport(c)
  PROVE  ResultInv'
<1>1. /\ at = "reviewed" /\ conflict' = c
      /\ UNCHANGED <<refs, original, package, preview, retry, failed, errors>>
  BY Zenon DEF AtomicImport, AtomicFails, PartialImport, Commits, input, work
<1>2. /\ remaining = {} /\ completed = {} /\ failed = {} /\ last # "imported"
      /\ ToDo = package.records /\ package.records \subseteq Records
      /\ existing \subseteq Records
  BY <1>1, SMT DEF ResultInv, Bounded, ShownAtEnd, ToDo, ImportTypes
<1>3. CASE AtomicImport(c) /\ AllResolve(package.records, c)
  <2>1. /\ completed' = package.records /\ existing' = existing \cup package.records
        /\ result' = Counts(package.records, c) /\ at' = "finish"
        /\ UNCHANGED <<last, remaining>>
        /\ steady' => steady /\ c = conflict
    BY <1>3, Zenon DEF AtomicImport
  <2>2. Bounded' /\ ToDo' = ToDo \ package.records
    BY <1>1, <1>2, <2>1, SMT DEF Bounded, ToDo
  <2>3. /\ package.records \subseteq ToDo /\ package.records \cap completed = {}
        /\ UNCHANGED <<failed, errors, refs, original, package, preview, retry>>
        /\ remaining' \subseteq Records /\ at # "center" /\ last' # "imported"
        /\ steady' => steady /\ c = conflict
    BY <1>1, <1>2, <2>1, SMT
  <2>4. /\ completed' = completed \cup package.records
        /\ conflict' = c /\ ToDo' = ToDo \ package.records
    BY <1>1, <1>2, <2>1, <2>2, Zenon
  <2>. QED  BY <2>1, <2>2, <2>3, <2>4, ImportedSafe, Zenon
<1>4. CASE AtomicImport(c) /\ ~AllResolve(package.records, c)
  <2>1. /\ UNCHANGED <<completed, existing, result, at, remaining>> /\ last' = "unresolved"
        /\ (steady' => steady /\ c = conflict)
    BY <1>4, Zenon DEF AtomicImport
  <2>2. Bounded' /\ ToDo' = ToDo
    BY <1>1, <1>2, <2>1, SMT DEF ResultInv, Bounded, ToDo
  <2>3. /\ at # "center" /\ at' # "center" /\ last' # "imported"
        /\ UNCHANGED <<refs, original, package, preview, retry, result, completed, failed, errors>>
        /\ existing' \subseteq Records /\ remaining' \subseteq Records /\ conflict' \in {"update", "skip"}
        /\ steady' => steady /\ existing' = existing /\ ToDo' = ToDo /\ conflict' = conflict
    BY <1>1, <1>2, <2>1, <2>2, SMT
  <2>. QED  BY <2>2, <2>3, QuietSafe, Zenon
<1>5. CASE AtomicFails(c)
  <2>1. UNCHANGED <<completed, existing, result, at, remaining>> /\ last' = "fault" /\ steady' = FALSE
    BY <1>5, Zenon DEF AtomicFails, work
  <2>2. Bounded'
    BY <1>1, <1>2, <2>1, SMT DEF ResultInv, Bounded
  <2>3. /\ at # "center" /\ at' # "center" /\ last' # "imported"
        /\ UNCHANGED <<refs, original, package, preview, retry, result, completed, failed, errors>>
        /\ existing' \subseteq Records /\ remaining' \subseteq Records /\ conflict' \in {"update", "skip"}
        /\ steady' => steady /\ existing' = existing /\ ToDo' = ToDo /\ conflict' = conflict
    BY <1>1, <1>2, <2>1, <2>2, SMT
  <2>. QED  BY <2>2, <2>3, QuietSafe, Zenon
<1>6. CASE PartialImport(c)
  <2>1. /\ UNCHANGED <<completed, existing, result, last>> /\ at' = "head"
        /\ remaining' = package.records /\ (steady' => steady /\ c = conflict)
    BY <1>6, Zenon DEF PartialImport
  <2>2. Bounded' /\ ToDo' = ToDo
    BY <1>1, <1>2, <2>1, SMT DEF Bounded, ToDo
  <2>3. /\ at # "center" /\ at' # "center" /\ last' # "imported"
        /\ UNCHANGED <<refs, original, package, preview, retry, result, completed, failed, errors>>
        /\ existing' \subseteq Records /\ remaining' \subseteq Records /\ conflict' \in {"update", "skip"}
        /\ steady' => steady /\ existing' = existing /\ ToDo' = ToDo /\ conflict' = conflict
    BY <1>1, <1>2, <2>1, <2>2, SMT
  <2>. QED  BY <2>2, <2>3, QuietSafe, Zenon
<1>. QED  BY <1>3, <1>4, <1>5, <1>6

LEMMA DeletedTells ==
  ASSUME ResultInv, NEW r \in Records, Deleted(r)
  PROVE  ResultInv'
<1>1. /\ UNCHANGED <<at, refs, original, package, preview, retry, conflict, result, completed, failed,
                     errors, remaining, ready, last>>
      /\ existing' \subseteq existing /\ steady' = FALSE
      /\ at \in {"reviewed", "head", "ready", "cycle"}
  BY SMT DEF Deleted, input, work
<1>2. Bounded'
  BY <1>1, Zenon DEF ResultInv, Bounded
<1>3. last # "imported"
  BY <1>1, SMT DEF ResultInv, ShownAtEnd
<1>. QED  BY <1>1, <1>2, <1>3, QuietSafe, SMT DEF ResultInv, ImportTypes

-----------------------------------------------------------------------------

LEMMA NoPackageIsAccepted == Accepted(NoPackage) /\ NoPackage.records = {}
<1>1. Outgoing({}) = {}
  BY SMT DEF Outgoing
<1>2. \A l \in Labels : {r \in {} : Label(r) = l} = {}
  BY SMT
<1>3. [l \in Labels |-> Cardinality({r \in {} : Label(r) = l})] = [l \in Labels |-> 0]
  BY <1>2, NothingCounted, SMT
<1>4. Counted({}) = NoPackage
  BY <1>1, <1>3, NothingCounted, Zenon DEF Counted, NoPackage
<1>5. NoPackage.records = {}
  BY Zenon DEF NoPackage
<1>. QED  BY <1>4, <1>5, Zenon DEF Accepted

\* Back at the import center.
LEMMA CenterSafe ==
  ASSUME ResultInv, at' = "center",
         UNCHANGED <<refs, original, existing, remaining, completed, failed, errors, result>>,
         package' = package \/ package' = NoPackage,
         Accepted(retry)', retry'.records \subseteq Records,
         preview' = preview \/ preview' = NoResult, conflict' \in {"update", "skip"}, ShownAtEnd'
  PROVE  ResultInv'
<1>1. Accepted(original)'
  BY SameContents, Zenon DEF ResultInv, ImportTypes
<1>2. Accepted(package)' /\ package'.records \subseteq Records
  <2>1. CASE package' = package
    BY <2>1, SameContents, Zenon DEF ResultInv, ImportTypes
  <2>2. CASE package' = NoPackage
    BY <2>2, NoPackageIsAccepted, SameContents, Zenon
  <2>. QED  BY <2>1, <2>2
<1>3. preview' \in Counter
  BY NothingCounted, Zenon DEF ResultInv, ImportTypes
<1>4. ImportTypes'
  BY <1>1, <1>2, <1>3, Zenon DEF ResultInv, ImportTypes
<1>5. Accounted'
  BY Zenon DEF ResultInv, Accounted
<1>6. Bounded' /\ AsAnnounced'
  BY Zenon DEF Bounded, AsAnnounced
<1>. QED  BY <1>4, <1>5, <1>6, Zenon DEF ResultInv

LEMMA ShowResultTells ==
  ASSUME ResultInv, ShowResult
  PROVE  ResultInv'
<1>1. /\ at = "finish" /\ at' = "center" /\ package' = NoPackage /\ last' = "imported"
      /\ IF result.failed > 0 /\ errors # {} THEN retry' = Counted(package.records \cap errors)
         ELSE retry' = retry
      /\ UNCHANGED <<refs, original, existing, preview, conflict, remaining, completed, failed, errors,
                     result, steady>>
  BY Zenon DEF ShowResult, KeepsRetry, RetryOf, input, work, bounds
<1>2. Accepted(retry)' /\ retry'.records \subseteq Records
  <2>1. CASE retry' = retry
    BY <1>1, <2>1, SameContents, Zenon DEF ResultInv, ImportTypes
  <2>2. CASE retry' = Counted(package.records \cap errors)
    <3>1. /\ Accepted(Counted(package.records \cap errors))
          /\ Counted(package.records \cap errors).records = package.records \cap errors
      BY CountedIsAccepted, Zenon
    <3>2. Accepted(retry') 
      BY <2>2, <3>1, Zenon
    <3>3. Accepted(retry)' <=> Accepted(retry')
      BY <1>1, Zenon DEF Accepted, Counted, Outgoing
    <3>. QED  BY <2>2, <3>1, <3>2, <3>3, Zenon DEF ResultInv, ImportTypes
  <2>. QED  BY <1>1, <2>1, <2>2, Zenon
<1>3. steady' /\ failed' = {} => result' = preview'
  <2>. SUFFICES ASSUME steady, failed = {} PROVE result = preview
    BY <1>1, Zenon
  <2>1. remaining = {} /\ ToDo = {}
    BY <1>1, SMT DEF ResultInv, Bounded, ToDo
  <2>2. preview = Ahead(result, {}, existing, conflict)
    BY <1>1, <2>1, SMT DEF ResultInv, AsAnnounced
  <2>3. Cardinality({} \ existing) = 0 /\ Cardinality({} \cap existing) = 0
    <3>1. {} \ existing = {} /\ {} \cap existing = {}
      OBVIOUS
    <3>. QED  BY <3>1, NothingCounted, Zenon
  <2>4. result.failed = 0 /\ result \in Counter
    BY NothingCounted, Zenon DEF ResultInv, ImportTypes, Accounted
  <2>. QED  BY <2>2, <2>3, <2>4, SMT DEF Ahead, Counter
<1>4. result'.failed > 0 => retry'.records = errors'
  <2>. SUFFICES ASSUME result.failed > 0 PROVE retry'.records = errors
    BY <1>1, Zenon
  <2>1. errors \subseteq failed /\ failed \subseteq package.records
    BY <1>1, SMT DEF ResultInv, Accounted, Bounded
  <2>2. errors # {}
    <3>1. Cardinality(failed) > 0 /\ (errors = failed \/ Cardinality(errors) >= MaxErrors)
      BY Zenon DEF ResultInv, Accounted
    <3>. QED  BY <3>1, NothingCounted, PackageBounds, SMT
  <2>3. retry' = Counted(package.records \cap errors) /\ package.records \cap errors = errors
    BY <1>1, <2>1, <2>2, Zenon
  <2>. QED  BY <2>3, CountedIsAccepted, Zenon
<1>5. ShownAtEnd'
  BY <1>1, <1>3, <1>4, Zenon DEF ShownAtEnd
<1>6. conflict' \in {"update", "skip"}
  BY <1>1, Zenon DEF ResultInv, ImportTypes
<1>. QED  BY <1>1, <1>2, <1>5, <1>6, CenterSafe, Zenon

LEMMA PagesTell ==
  ASSUME ResultInv, DryRun \/ PendingExpires \/ RetryExpires
  PROVE  ResultInv'
<1>1. /\ at' = "center"
      /\ UNCHANGED <<refs, original, existing, remaining, completed, failed, errors, result>>
      /\ package' = package \/ package' = NoPackage
      /\ preview' = preview \/ preview' = NoResult
      /\ conflict' = conflict \/ conflict' = "update"
      /\ retry' = retry \/ retry' = NoPackage
  BY Zenon DEF DryRun, PendingExpires, RetryExpires, NothingPending, input, work
<1>2. last' # "imported"
  BY SMT DEF DryRun, PendingExpires, RetryExpires, ResultInv, ShownAtEnd
<1>3. Accepted(retry)' /\ retry'.records \subseteq Records
  <2>1. CASE retry' = retry
    BY <1>1, <2>1, SameContents, Zenon DEF ResultInv, ImportTypes
  <2>2. CASE retry' = NoPackage
    <3>1. Accepted(NoPackage)' <=> Accepted(NoPackage)
      BY <1>1, SameContents, Zenon
    <3>. QED  BY <2>2, <3>1, NoPackageIsAccepted, Zenon
  <2>. QED  BY <1>1, <2>1, <2>2, Zenon
<1>4. conflict' \in {"update", "skip"}
  BY <1>1, Zenon DEF ResultInv, ImportTypes
<1>5. ShownAtEnd'
  BY <1>2, Zenon DEF ShownAtEnd
<1>. QED  BY <1>1, <1>3, <1>4, <1>5, CenterSafe, Zenon

LEMMA NoRetryTells ==
  ASSUME ResultInv, ShowResultFails
  PROVE  ResultInv'
<1>1. /\ at' = "reviewed" /\ last' = "no retry" /\ steady' = FALSE
      /\ remaining' = {} /\ completed' = {} /\ failed' = {} /\ errors' = {} /\ result' = NoResult
      /\ UNCHANGED <<refs, original, existing, package, preview, retry, conflict>>
  BY Zenon DEF ShowResultFails, NoWork, input
<1>2. ImportTypes'
  <2>1. Accepted(package)' /\ Accepted(original)' /\ Accepted(retry)'
    BY <1>1, SameContents, Zenon DEF ResultInv, ImportTypes
  <2>. QED  BY <1>1, <2>1, NothingCounted, Zenon DEF ResultInv, ImportTypes
<1>3. Accounted'
  <2>1. result'.created = 0 /\ result'.updated = 0 /\ result'.skipped = 0 /\ result'.failed = 0
    BY <1>1, Zenon DEF NoResult
  <2>2. /\ result'.created + result'.updated + result'.skipped = Cardinality({})
        /\ result'.failed = Cardinality({})
    BY <2>1, NothingCounted, SMT
  <2>. QED  BY <1>1, <2>2, Zenon DEF Accounted
<1>4. ShownAtEnd' /\ AsAnnounced'
  BY <1>1, Zenon DEF ShownAtEnd, AsAnnounced
<1>5. Bounded'
  BY <1>1, Zenon DEF Bounded
<1>. QED  BY <1>2, <1>3, <1>4, <1>5, Zenon DEF ResultInv

LEMMA InitResult == PackageInit => ResultInv
<1>. SUFFICES ASSUME PackageInit PROVE ResultInv
  OBVIOUS
<1>1. /\ existing \subseteq Records /\ at = "center" /\ package = NoPackage /\ retry = NoPackage
      /\ preview = NoResult /\ result = NoResult /\ conflict = "update"
      /\ remaining = {} /\ completed = {} /\ failed = {} /\ errors = {} /\ last = "none"
  BY Zenon DEF PackageInit
<1>2. PICK S \in SUBSET Records : original = Counted(S)
  BY Zenon DEF PackageInit, Exported
<1>3. Accepted(original) /\ original.records \subseteq Records
  BY <1>2, CountedIsAccepted, Zenon
<1>4. ImportTypes
  BY <1>1, <1>3, NoPackageIsAccepted, NothingCounted, Zenon DEF ImportTypes
<1>5. Accounted
  <2>1. result.created = 0 /\ result.updated = 0 /\ result.skipped = 0 /\ result.failed = 0
    BY <1>1, Zenon DEF NoResult
  <2>. QED  BY <1>1, <2>1, NothingCounted, SMT DEF Accounted
<1>6. Bounded /\ ShownAtEnd /\ AsAnnounced
  BY <1>1, SMT DEF Bounded, ShownAtEnd, AsAnnounced
<1>. QED  BY <1>4, <1>5, <1>6, Zenon DEF ResultInv

LEMMA ResultStep ==
  ASSUME ResultInv, Divided, [PackageNext]_packageVars
  PROVE  ResultInv'
<1>1. CASE UNCHANGED packageVars
  <2>1. UNCHANGED <<refs, original, existing, at, package, preview, retry, conflict, remaining, completed,
                    failed, ready, result, errors, last, steady>>
    BY <1>1, Zenon DEF packageVars
  <2>2. ImportTypes' /\ Accounted' /\ Bounded'
    BY <2>1, SameContents, Zenon DEF ResultInv, ImportTypes, Accounted, Bounded
  <2>3. AsAnnounced' /\ ShownAtEnd'
    BY <2>1, Zenon DEF ResultInv, AsAnnounced, ShownAtEnd, ToDo
  <2>. QED  BY <2>2, <2>3, Zenon DEF ResultInv
<1>2. CASE \E p \in {original, retry}, c \in {"update", "skip"} : Upload(p, c)
  BY <1>2, UploadTells, Zenon
<1>3. CASE DryRun \/ PendingExpires \/ RetryExpires
  BY <1>3, PagesTell, Zenon
<1>4. CASE \E c \in {"update", "skip"} : AtomicImport(c) \/ AtomicFails(c) \/ PartialImport(c)
  BY <1>4, CommitTells, Zenon
<1>5. CASE ChooseReady
  BY <1>5, ChooseReadyTells, Zenon
<1>6. CASE \E r \in Records, fault \in BOOLEAN : ImportRecord(r, fault)
  BY <1>6, RecordTells, Zenon
<1>7. CASE \E fault \in BOOLEAN : ImportCycle(fault)
  BY <1>7, CycleTells, Zenon
<1>8. CASE ShowResult
  BY <1>8, ShowResultTells, Zenon
<1>9. CASE ShowResultFails
  BY <1>9, NoRetryTells, Zenon
<1>10. CASE \E r \in Records : Deleted(r)
  BY <1>10, DeletedTells, Zenon
<1>. QED  BY <1>1, <1>2, <1>3, <1>4, <1>5, <1>6, <1>7, <1>8, <1>9, <1>10, Zenon DEF PackageNext

LEMMA ResultInvariant == PackageSpec => []ResultInv
<1>1. ResultInv /\ ImportInv /\ [PackageNext]_packageVars => ResultInv'
  BY ResultStep DEF ImportInv
<1>. QED  BY <1>1, InitResult, ImportInvariant, PTL DEF PackageSpec

\* However many rows fail, in whatever order: the retry package is accepted, has
\* only failed rows, and lacks one only when it has as many as a result keeps errors.
THEOREM RetryHasTheFailed == PackageSpec => []RetryIsExact
<1>1. ResultInv => RetryIsExact
  BY Zenon DEF ResultInv, ShownAtEnd, ImportTypes, Accounted, RetryIsExact
<1>. QED  BY <1>1, ResultInvariant, PTL

\* Whatever the references, the objects that exist and the strategy: the result
\* counts every row once, and what it counts was announced.
THEOREM ResultIsAnnounced == PackageSpec => []PreviewHolds
<1>1. ResultInv => PreviewHolds
  BY Zenon DEF ResultInv, ShownAtEnd, Accounted, PreviewHolds
<1>. QED  BY <1>1, ResultInvariant, PTL

\* What of an import the counters of the result do not tell.
Rooms == {"center", "reviewed", "head", "ready", "cycle", "finish"}
Endings == {"none", "imported", "unresolved", "fault", "no retry"}

FewReferences ==
  refs \subseteq Reference /\ IsFiniteSet(refs) /\ Cardinality(refs) <= MaxReferences

PackageWithin ==
  /\ FewReferences /\ at \in Rooms /\ preview \in Result
  /\ refused \subseteq failed /\ broken \subseteq Records
  /\ ready \subseteq remaining /\ (at = "cycle" => ready = {})
  /\ last \in Endings /\ imports \in 0..MaxImports /\ troubles \in 0..MaxTroubles
  /\ steady \in BOOLEAN

LEMMA AtMostN ==
  ASSUME NEW S, S \subseteq Records
  PROVE  Cardinality(S) \in 0..N
<1>1. IsFiniteSet(Records) /\ Cardinality(Records) = N
  BY FS_Interval, PackageBounds, SMT DEF Records
<1>2. Cardinality(S) <= Cardinality(Records)
  BY <1>1, FS_Subset, Zenon
<1>3. Cardinality(S) \in Nat
  BY FewRecords
<1>. QED  BY <1>1, <1>2, <1>3, PackageBounds, SMT

LEMMA CountedTyped ==
  ASSUME FewReferences, NEW S, S \subseteq Records
  PROVE  Counted(S) \in Package
<1>1. Cardinality(Outgoing(S)) \in 0..MaxReferences
  <2>1. Outgoing(S) \subseteq refs
    BY Zenon DEF Outgoing
  <2>2. IsFiniteSet(Outgoing(S)) /\ Cardinality(Outgoing(S)) <= Cardinality(refs)
    BY <2>1, FS_Subset, Zenon DEF FewReferences
  <2>3. Cardinality(Outgoing(S)) \in Nat /\ Cardinality(refs) \in Nat
    BY <2>2, FS_CardinalityType, Zenon DEF FewReferences
  <2>. QED  BY <2>2, <2>3, PackageBounds, SMT DEF FewReferences
<1>2. Cardinality(S) \in 0..N
  BY AtMostN
<1>3. \A l \in Labels : Cardinality({r \in S : Label(r) = l}) \in 0..N
  <2>1. \A l \in Labels : {r \in S : Label(r) = l} \subseteq Records
    OBVIOUS
  <2>. QED  BY <2>1, AtMostN, Zenon
<1>4. [l \in Labels |-> Cardinality({r \in S : Label(r) = l})] \in [Labels -> 0..N]
  BY <1>3, Zenon
<1>. QED  BY <1>1, <1>2, <1>4, Zenon DEF Counted, Package

LEMMA PreviewTyped ==
  ASSUME NEW p, p.records \subseteq Records, NEW c \in {"update", "skip"}
  PROVE  PreviewOf(p, c) \in Result
<1>. DEFINE old == Cardinality(p.records \cap existing)
            new == Cardinality(p.records)
            fresh == new - old
            replaced == IF c = "update" THEN old ELSE 0
            passed == IF c = "skip" THEN old ELSE 0
<1>1. new \in 0..N /\ old \in 0..N /\ old <= new
  <2>1. p.records \cap existing \subseteq Records /\ p.records \cap existing \subseteq p.records
    OBVIOUS
  <2>2. IsFiniteSet(p.records)
    BY FewRecords
  <2>3. old <= new
    BY <2>1, <2>2, FS_Subset, Zenon
  <2>. QED  BY <2>1, <2>3, AtMostN, Zenon
<1>2. PreviewOf(p, c) = [created |-> fresh, updated |-> replaced, skipped |-> passed,
                         failed |-> 0]
  BY Zenon DEF PreviewOf
<1>. HIDE DEF old, new
<1>3. fresh \in 0..N /\ 0 \in 0..N
  BY <1>1, PackageBounds, SMT
<1>4. replaced \in 0..N /\ passed \in 0..N
  BY <1>1, <1>3, Zenon
<1>. HIDE DEF fresh, replaced, passed
<1>5. [created |-> fresh, updated |-> replaced, skipped |-> passed, failed |-> 0] \in Result
  BY <1>3, <1>4, Zenon DEF Result
<1>. QED  BY <1>2, <1>5, Zenon

LEMMA NoResultTyped == NoResult \in Result
BY PackageBounds, SMT DEF NoResult, Result

LEMMA OneMore ==
  /\ \A n \in 0..MaxImports : n < MaxImports => n + 1 \in 0..MaxImports
  /\ \A n \in 0..MaxTroubles : n + 0 = n /\ (n < MaxTroubles => n + 1 \in 0..MaxTroubles)
BY PackageBounds, SMT

\* The center and its pages: nothing is tried.
LEMMA PageWithin ==
  ASSUME ResultInv, PackageWithin,
         \/ \E p \in {original, retry}, c \in {"update", "skip"} : Upload(p, c)
         \/ DryRun \/ PendingExpires \/ RetryExpires \/ ShowResult \/ ShowResultFails
         \/ \E r \in Records : Deleted(r)
  PROVE  PackageWithin'
<1>1. {"center", "reviewed"} \subseteq Rooms /\ {"none", "imported", "no retry"} \subseteq Endings
  BY Zenon DEF Rooms, Endings
<1>2. refs' = refs /\ imports' = imports
  BY Zenon DEF Upload, DryRun, PendingExpires, RetryExpires, ShowResult, ShowResultFails,
     Deleted, input, bounds
<1>3. FewReferences' /\ imports' \in 0..MaxImports
  BY <1>2, Zenon DEF FewReferences, PackageWithin
<1>4. preview' \in Result
  <2>1. ASSUME NEW p \in {original, retry}, NEW c \in {"update", "skip"}, Upload(p, c)
        PROVE  preview' \in Result
    <3>1. p.records \subseteq Records
      BY Zenon DEF ResultInv, ImportTypes
    <3>2. preview' = PreviewOf(p, c)
      BY <2>1, Zenon DEF Upload
    <3>3. PreviewOf(p, c) \in Result
      BY <3>1, PreviewTyped
    <3>. QED  BY <3>2, <3>3
  <2>2. CASE DryRun \/ PendingExpires
    BY <2>2, NoResultTyped, Zenon DEF DryRun, PendingExpires, NothingPending
  <2>3. CASE RetryExpires \/ ShowResult \/ ShowResultFails \/ \E r \in Records : Deleted(r)
    BY <2>3, Zenon DEF RetryExpires, ShowResult, ShowResultFails, Deleted, PackageWithin
  <2>. QED  BY <2>1, <2>2, <2>3
<1>5. /\ refused' \subseteq failed' /\ broken' \subseteq Records /\ ready' \subseteq remaining'
      /\ at' \in Rooms /\ (at' = "cycle" => ready' = {})
  <2>1. CASE (\E p \in {original, retry}, c \in {"update", "skip"} : Upload(p, c)) \/ ShowResultFails
    BY <1>1, <2>1, Zenon DEF Upload, ShowResultFails, NoWork
  <2>2. CASE DryRun \/ PendingExpires \/ ShowResult
    <3>1. at' = "center" /\ "center" # "cycle" /\ UNCHANGED work
      BY <2>2, Zenon DEF DryRun, PendingExpires, ShowResult, NothingPending
    <3>. QED  BY <1>1, <3>1, Zenon DEF work, PackageWithin
  <2>3. CASE RetryExpires \/ \E r \in Records : Deleted(r)
    <3>1. at' = at /\ UNCHANGED work
      BY <2>3, Zenon DEF RetryExpires, Deleted
    <3>. QED  BY <3>1, Zenon DEF work, PackageWithin
  <2>. QED  BY <2>1, <2>2, <2>3
<1>6. last' \in Endings /\ troubles' \in 0..MaxTroubles /\ steady' \in BOOLEAN
  <2>1. last' = last \/ last' \in {"none", "imported", "no retry"}
    BY Zenon DEF Upload, DryRun, PendingExpires, RetryExpires, ShowResult, ShowResultFails, Deleted
  <2>2. troubles' = troubles \/ (troubles < MaxTroubles /\ troubles' = troubles + 1)
    BY Zenon DEF Upload, DryRun, PendingExpires, RetryExpires, ShowResult, ShowResultFails,
       Deleted, bounds
  <2>3. steady' = steady \/ steady' \in BOOLEAN
    BY Zenon DEF Upload, DryRun, PendingExpires, RetryExpires, ShowResult, ShowResultFails,
       Deleted, bounds
  <2>. QED  BY <1>1, <2>1, <2>2, <2>3, OneMore, Zenon DEF PackageWithin
<1>. QED  BY <1>3, <1>4, <1>5, <1>6, Zenon DEF PackageWithin

\* The import begins, in one transaction or record by record.
LEMMA CommitWithin ==
  ASSUME ResultInv, PackageWithin, NEW c \in {"update", "skip"},
         AtomicImport(c) \/ AtomicFails(c) \/ PartialImport(c)
  PROVE  PackageWithin'
<1>1. /\ {"head", "finish"} \subseteq Rooms /\ {"unresolved", "fault"} \subseteq Endings
      /\ "head" # "cycle" /\ "finish" # "cycle" /\ "reviewed" # "cycle"
  BY Zenon DEF Rooms, Endings
<1>2. /\ at = "reviewed" /\ refs' = refs /\ preview' = preview /\ failed' = failed
      /\ refused' = refused /\ broken' = broken /\ ready' = ready
      /\ imports < MaxImports /\ imports' = imports + 1
  BY Zenon DEF AtomicImport, AtomicFails, PartialImport, Commits, input, work
<1>3. ready = {}
  <2>1. remaining = {}
    BY <1>2, Zenon DEF ResultInv, Bounded
  <2>. QED  BY <2>1, Zenon DEF PackageWithin
<1>4. at' = "finish" \/ at' = "reviewed" \/ at' = "head"
  BY <1>2, Zenon DEF AtomicImport, AtomicFails, PartialImport
<1>5. at' \in Rooms /\ at' # "cycle"
  BY <1>1, <1>2, <1>4, Zenon DEF PackageWithin
<1>6. last' = last \/ last' = "unresolved" \/ last' = "fault"
  BY Zenon DEF AtomicImport, AtomicFails, PartialImport
<1>7. troubles' = troubles \/ (troubles < MaxTroubles /\ troubles' = troubles + 1)
  BY Zenon DEF AtomicImport, AtomicFails, PartialImport
<1>8. steady' \in BOOLEAN
  BY Zenon DEF AtomicImport, AtomicFails, PartialImport
<1>9. FewReferences'
  BY <1>2, Zenon DEF FewReferences, PackageWithin
<1>10. imports' \in 0..MaxImports /\ troubles' \in 0..MaxTroubles /\ last' \in Endings
  BY <1>1, <1>2, <1>6, <1>7, OneMore, Zenon DEF PackageWithin
<1>. QED  BY <1>2, <1>3, <1>5, <1>8, <1>9, <1>10, Zenon DEF PackageWithin

\* One row, or the rest together, is tried; or blocked rows fail untried.
LEMMA TryWithin ==
  ASSUME ResultInv, PackageWithin,
         \/ ChooseReady
         \/ \E r \in Records, fault \in BOOLEAN : ImportRecord(r, fault)
         \/ \E fault \in BOOLEAN : ImportCycle(fault)
  PROVE  PackageWithin'
<1>1. {"head", "ready", "cycle", "finish"} \subseteq Rooms
  BY Zenon DEF Rooms
<1>2. /\ refused \subseteq failed /\ broken \subseteq Records /\ ready \subseteq remaining
      /\ remaining \subseteq Records
  BY Zenon DEF PackageWithin, ResultInv, ImportTypes
<1>3. refs' = refs /\ preview' = preview /\ last' = last /\ imports' = imports
  BY Zenon DEF ChooseReady, ImportRecord, ImportCycle, input, bounds
<1>4. FewReferences'
  BY <1>3, Zenon DEF FewReferences, PackageWithin
<1>5. CASE ChooseReady
  <2>. DEFINE blocked == {r \in remaining : Blocked(r)}
              left == remaining \ blocked
              next == {r \in left : Dependencies(r) \subseteq completed}
  <2>1. /\ failed' = failed \cup blocked /\ refused' = refused \cup blocked
        /\ remaining' = left /\ ready' = next /\ broken' = broken
        /\ at' = IF left = {} THEN "finish" ELSE IF next = {} THEN "cycle" ELSE "ready"
        /\ troubles' = troubles /\ steady' = steady
    BY <1>5, Zenon DEF ChooseReady, Fails, bounds
  <2>2. next \subseteq left
    OBVIOUS
  <2>. HIDE DEF blocked, left, next
  <2>3. at' \in Rooms /\ (at' = "cycle" => ready' = {})
    BY <1>1, <2>1, Zenon
  <2>4. refused' \subseteq failed' /\ ready' \subseteq remaining' /\ broken' \subseteq Records
    BY <1>2, <2>1, <2>2, Zenon
  <2>. QED  BY <1>3, <1>4, <2>1, <2>3, <2>4, Zenon DEF PackageWithin
<1>6. ASSUME NEW fault \in BOOLEAN, fault => troubles < MaxTroubles,
             troubles' = troubles + IF fault THEN 1 ELSE 0, steady' = (steady /\ ~fault)
      PROVE  troubles' \in 0..MaxTroubles /\ steady' \in BOOLEAN
  <2>1. troubles \in 0..MaxTroubles
    BY Zenon DEF PackageWithin
  <2>2. CASE fault
    <3>1. troubles' = troubles + 1 /\ troubles < MaxTroubles
      BY <1>6, <2>2, Zenon
    <3>. QED  BY <1>6, <2>1, <3>1, OneMore, Zenon
  <2>3. CASE ~fault
    <3>1. troubles' = troubles + 0
      BY <1>6, <2>3, Zenon
    <3>. QED  BY <1>6, <2>1, <3>1, OneMore, Zenon
  <2>. QED  BY <2>2, <2>3
<1>7. ASSUME NEW S, S \subseteq Records, Imported(S) \/ NotImported(S)
      PROVE  failed \subseteq failed' /\ broken' \subseteq Records
  BY <1>2, <1>7, Zenon DEF Imported, NotImported, Fails
<1>8. ASSUME NEW r \in Records, NEW fault \in BOOLEAN, ImportRecord(r, fault)
      PROVE  PackageWithin'
  <2>1. /\ Imported({r}) \/ NotImported({r})
        /\ remaining' = remaining \ {r} /\ ready' = ready \ {r} /\ refused' = refused
        /\ at' = "finish" \/ at' = "head" \/ at' = "ready"
        /\ fault => troubles < MaxTroubles
        /\ troubles' = troubles + IF fault THEN 1 ELSE 0
        /\ steady' = (steady /\ ~fault)
    BY <1>8, Zenon DEF ImportRecord
  <2>2. failed \subseteq failed' /\ broken' \subseteq Records
    <3>1. {r} \subseteq Records
      OBVIOUS
    <3>. QED  BY <1>7, <2>1, <3>1, Zenon
  <2>3. troubles' \in 0..MaxTroubles /\ steady' \in BOOLEAN
    BY <1>6, <2>1, Zenon
  <2>4. at' \in Rooms /\ at' # "cycle"
    BY <1>1, <2>1
  <2>5. refused' \subseteq failed' /\ ready' \subseteq remaining'
    BY <1>2, <2>1, <2>2, Zenon
  <2>. QED  BY <1>3, <1>4, <2>2, <2>3, <2>4, <2>5, Zenon DEF PackageWithin
<1>9. ASSUME NEW fault \in BOOLEAN, ImportCycle(fault)
      PROVE  PackageWithin'
  <2>1. /\ Imported(remaining) \/ NotImported(remaining)
        /\ remaining' = {} /\ ready' = ready /\ refused' = refused /\ at = "cycle"
        /\ at' = "finish"
        /\ fault => troubles < MaxTroubles
        /\ troubles' = troubles + IF fault THEN 1 ELSE 0
        /\ steady' = (steady /\ ~fault)
    BY <1>9, Zenon DEF ImportCycle
  <2>2. failed \subseteq failed' /\ broken' \subseteq Records
    BY <1>2, <1>7, <2>1, Zenon
  <2>3. troubles' \in 0..MaxTroubles /\ steady' \in BOOLEAN
    BY <1>6, <2>1, Zenon
  <2>4. at' \in Rooms
    BY <1>1, <2>1, Zenon
  <2>5. refused' \subseteq failed' /\ ready' = {}
    BY <1>2, <2>1, <2>2, Zenon DEF PackageWithin
  <2>. QED  BY <1>3, <1>4, <2>2, <2>3, <2>4, <2>5, Zenon DEF PackageWithin
<1>. QED  BY <1>5, <1>8, <1>9, Zenon

\* The references of the exported objects are no more than the pairs they join.
LEMMA InitReferences == PackageInit => FewReferences
<1>. SUFFICES ASSUME PackageInit PROVE FewReferences
  OBVIOUS
<1>. DEFINE Joined(pairs) ==
              \E kind \in [pairs -> {"fk", "m2m", "alias"}] :
                refs = {[from |-> x[1], to |-> x[2], kind |-> kind[x]] : x \in pairs}
<1>1. \E S \in SUBSET Records \ {{}} : \E pairs \in SUBSET (S \X Records) :
        Cardinality(pairs) <= MaxReferences /\ Joined(pairs) /\ Exported(S)
  BY DEF PackageInit
<1>2. PICK S \in SUBSET Records : \E pairs \in SUBSET (S \X Records) :
        Cardinality(pairs) <= MaxReferences /\ Joined(pairs)
  <2>. HIDE DEF Joined
  <2>. QED  BY <1>1, Zenon
<1>3. PICK pairs \in SUBSET (S \X Records) :
         Cardinality(pairs) <= MaxReferences /\ Joined(pairs)
  BY <1>2
<1>4. PICK kind \in [pairs -> {"fk", "m2m", "alias"}] :
        refs = {[from |-> x[1], to |-> x[2], kind |-> kind[x]] : x \in pairs}
  BY <1>3
<1>5. \A x \in pairs : x[1] \in Records /\ x[2] \in Records
  BY SMT
<1>6. refs \subseteq Reference
  <2>. SUFFICES ASSUME NEW y \in refs PROVE y \in Reference
    OBVIOUS
  <2>1. PICK x \in pairs : y = [from |-> x[1], to |-> x[2], kind |-> kind[x]]
    BY <1>4, Zenon
  <2>2. x[1] \in Records /\ x[2] \in Records /\ kind[x] \in {"fk", "m2m", "alias"}
    BY <1>5, Zenon
  <2>. QED  BY <2>1, <2>2, Zenon DEF Reference
<1>7. IsFiniteSet(pairs) /\ Cardinality(pairs) \in Nat
  <2>1. IsFiniteSet(S) /\ IsFiniteSet(Records)
    BY FewRecords
  <2>2. IsFiniteSet(S \X Records)
    BY <2>1, FS_Product
  <2>3. IsFiniteSet(pairs)
    BY <2>2, FS_Subset
  <2>. QED  BY <2>3, FS_CardinalityType
<1>. DEFINE made == [x \in pairs |-> [from |-> x[1], to |-> x[2], kind |-> kind[x]]]
<1>8. made \in Surjection(pairs, refs)
  <2>1. \A x \in pairs : made[x] \in refs
    BY <1>4, Zenon
  <2>2. made \in [pairs -> refs]
    BY <2>1, Zenon
  <2>3. \A y \in refs : \E x \in pairs : made[x] = y
    BY <1>4, Zenon
  <2>. HIDE DEF made
  <2>. QED  BY <2>2, <2>3, Zenon DEF Surjection
<1>. HIDE DEF made
<1>9. IsFiniteSet(refs) /\ Cardinality(refs) <= Cardinality(pairs)
  BY <1>7, <1>8, FS_Surjection
<1>10. Cardinality(refs) \in Nat
  BY <1>9, FS_CardinalityType
<1>. QED  BY <1>3, <1>6, <1>7, <1>9, <1>10, PackageBounds, SMT DEF FewReferences

\* Whatever fails, is uploaded again or expires: the packages the center keeps count no
\* more rows and references than there are, every row of the result is a row of the
\* database, and a row is blocked or listed as ready only while it is failed or still
\* to be done.
THEOREM PackageTypeCorrect == PackageSpec => []PackageTypeOK
<1>1. PackageInit => PackageWithin
  <2>. SUFFICES ASSUME PackageInit PROVE PackageWithin
    OBVIOUS
  <2>1. at = "center" /\ last = "none" /\ "center" \in Rooms /\ "none" \in Endings /\ "center" # "cycle"
    BY Zenon DEF PackageInit, Rooms, Endings
  <2>2. imports \in 0..MaxImports /\ troubles \in 0..MaxTroubles
    BY PackageBounds, SMT DEF PackageInit
  <2>3. FewReferences /\ preview \in Result
    BY InitReferences, NoResultTyped, Zenon DEF PackageInit
  <2>. QED  BY <2>1, <2>2, <2>3, Zenon DEF PackageInit, PackageWithin
<1>2. ResultInv /\ PackageWithin /\ [PackageNext]_packageVars => PackageWithin'
  <2>. SUFFICES ASSUME ResultInv, PackageWithin, [PackageNext]_packageVars PROVE PackageWithin'
    OBVIOUS
  <2>1. CASE UNCHANGED packageVars
    BY <2>1, Zenon DEF packageVars, PackageWithin, FewReferences
  <2>2. CASE PackageNext
    BY <2>2, PageWithin, CommitWithin, TryWithin, Zenon DEF PackageNext
  <2>. QED  BY <2>1, <2>2
<1>3. ResultInv /\ PackageWithin => PackageTypeOK
  <2>. SUFFICES ASSUME ResultInv, PackageWithin PROVE PackageTypeOK
    OBVIOUS
  <2>1. original \in Package /\ package \in Package /\ retry \in Package
    <3>1. \A p \in {original, package, retry} : p.records \subseteq Records /\ p = Counted(p.records)
      BY Zenon DEF ResultInv, ImportTypes, Accepted
    <3>. QED  BY <3>1, CountedTyped, Zenon DEF PackageWithin
  <2>2. result \in Result
    <3>1. Cardinality(completed) \in 0..N /\ Cardinality(failed) \in 0..N
      BY AtMostN, Zenon DEF ResultInv, ImportTypes
    <3>2. /\ result \in Counter
          /\ result.created + result.updated + result.skipped = Cardinality(completed)
          /\ result.failed = Cardinality(failed)
      BY Zenon DEF ResultInv, ImportTypes, Accounted
    <3>3. /\ result.created \in Nat /\ result.updated \in Nat /\ result.skipped \in Nat
          /\ result.failed \in Nat
          /\ result = [created |-> result.created, updated |-> result.updated,
                       skipped |-> result.skipped, failed |-> result.failed]
      BY <3>2, SMT DEF Counter
    <3>4. /\ result.created \in 0..N /\ result.updated \in 0..N /\ result.skipped \in 0..N
          /\ result.failed \in 0..N
      BY <3>1, <3>2, <3>3, PackageBounds, SMT
    <3>. QED  BY <3>3, <3>4, Zenon DEF Result
  <2>3. errors \subseteq Records
    BY Zenon DEF ResultInv, ImportTypes, Accounted
  <2>. QED  BY <2>1, <2>2, <2>3, Zenon DEF ResultInv, ImportTypes, PackageWithin, FewReferences, Rooms, Endings,
               PackageTypeOK
<1>. QED  BY <1>1, <1>2, <1>3, ResultInvariant, PTL DEF PackageSpec

-----------------------------------------------------------------------------
(* The contents of files. *)

LEMMA LengthOfContent ==
  ASSUME NEW c \in Content
  PROVE  /\ Len(c) \in 0..2 /\ c \in Seq(Chunks)
         /\ \A i \in 1..Len(c) : c[i] \in Chunks
<1>1. CASE c = <<>>
  BY <1>1, SMT
<1>2. ASSUME NEW a \in Chunks, c = <<a>> PROVE Len(c) = 1 /\ c[1] = a /\ c \in Seq(Chunks)
  BY <1>2, SMT
<1>3. ASSUME NEW a \in Chunks, NEW b \in Chunks, c = <<a, b>>
      PROVE  Len(c) = 2 /\ c[1] = a /\ c[2] = b /\ c \in Seq(Chunks)
  BY <1>3, SMT
<1>. QED  BY <1>1, <1>2, <1>3, SMT DEF Content

LEMMA TwoChunks ==
  ASSUME NEW c \in Seq(Chunks), Len(c) = 2
  PROVE  c = <<c[1], c[2]>>
<1>1. c \in [1..2 -> Chunks] /\ <<c[1], c[2]>> \in [1..2 -> Chunks]
  BY SMT
<1>2. DOMAIN c = 1..2 /\ DOMAIN <<c[1], c[2]>> = 1..2
  BY <1>1, SMT
<1>. QED  BY <1>1, <1>2, SMT

LEMMA AppendToContent ==
  ASSUME NEW c \in Content, Len(c) < 2, NEW a \in Chunks
  PROVE  /\ Append(c, a) \in Content /\ Len(Append(c, a)) = Len(c) + 1
         /\ Append(c, a)[Len(c) + 1] = a
         /\ \A i \in 1..Len(c) : Append(c, a)[i] = c[i]
<1>1. Len(c) \in 0..2 /\ c \in Seq(Chunks)
  BY LengthOfContent, Zenon
<1>2. CASE c = <<>>
  <2>1. Append(c, a) = <<a>>
    BY <1>2, SMT
  <2>. QED  BY <1>1, <2>1, SMT DEF Content
<1>3. ASSUME NEW b \in Chunks, c = <<b>> PROVE Append(c, a) \in Content
  <2>1. Append(c, a) \in Seq(Chunks) /\ Len(Append(c, a)) = 2
    BY <1>1, <1>3, SMT
  <2>2. Append(c, a)[1] = b /\ Append(c, a)[2] = a
    BY <1>3, SMT
  <2>3. Append(c, a) = <<b, a>>
    BY <2>1, <2>2, TwoChunks, Zenon
  <2>. QED  BY <2>3, SMT DEF Content
<1>4. Append(c, a) \in Content
  <2>1. ASSUME NEW b \in Chunks, NEW d \in Chunks, c = <<b, d>> PROVE FALSE
    BY <2>1, SMT
  <2>. QED  BY <1>2, <1>3, <2>1, SMT DEF Content
<1>5. Len(Append(c, a)) = Len(c) + 1 /\ Append(c, a)[Len(c) + 1] = a
  BY <1>1, SMT
<1>6. ASSUME NEW i \in 1..Len(c) PROVE Append(c, a)[i] = c[i]
  BY <1>1, <1>6, SMT
<1>. QED  BY <1>4, <1>5, <1>6

\* The same, as the witness that a step of a request has written.
LEMMA AppendedContent ==
  ASSUME NEW b \in Content, Len(b) < 2, NEW e \in Chunks
  PROVE  \E d \in Content : /\ d = Append(b, e)
                            /\ Len(d) = Len(b) + 1 /\ d[Len(b) + 1] = e
                            /\ \A i \in 1..Len(b) : d[i] = b[i]
<1>1. /\ Append(b, e) \in Content /\ Len(Append(b, e)) = Len(b) + 1
      /\ Append(b, e)[Len(b) + 1] = e
      /\ \A i \in 1..Len(b) : Append(b, e)[i] = b[i]
  BY AppendToContent, Zenon
<1>. QED  BY <1>1, Zenon

LEMMA WriteToContent ==
  ASSUME NEW c \in Content, NEW i \in 1..2, NEW a \in Chunks
  PROVE  [c EXCEPT ![i] = a] \in Content
<1>1. CASE c = <<>>
  <2>1. [c EXCEPT ![i] = a] = c
    BY <1>1, SMT
  <2>. QED  BY <2>1, Zenon
<1>2. ASSUME NEW b \in Chunks, c = <<b>> PROVE [c EXCEPT ![i] = a] \in Content
  <2>1. [c EXCEPT ![i] = a] = IF i = 1 THEN <<a>> ELSE c
    BY <1>2, SMT
  <2>. QED  BY <2>1, SMT DEF Content
<1>3. ASSUME NEW b \in Chunks, NEW d \in Chunks, c = <<b, d>>
      PROVE  [c EXCEPT ![i] = a] \in Content
  <2>1. CASE i = 1
    <3>1. [c EXCEPT ![i] = a] = <<a, d>>
      BY <1>3, <2>1, SMT
    <3>. QED  BY <3>1, SMT DEF Content
  <2>2. CASE i = 2
    <3>1. [c EXCEPT ![i] = a] = <<b, a>>
      BY <1>3, <2>2, SMT
    <3>. QED  BY <3>1, SMT DEF Content
  <2>. QED  BY <2>1, <2>2
<1>. QED  BY <1>1, <1>2, <1>3, SMT DEF Content

LEMMA SameContent ==
  ASSUME NEW c \in Content, NEW d \in Content, Len(c) = Len(d),
         \A i \in 1..Len(d) : c[i] = d[i]
  PROVE  c = d
<1>1. c \in Seq(Chunks) /\ d \in Seq(Chunks) /\ Len(d) \in 0..2
  BY LengthOfContent, Zenon
<1>. QED  BY <1>1, SMT

-----------------------------------------------------------------------------
(* Requests for Server Files.                                              *)

Steps == {"idle", "start", "write", "check", "link", "sync", "act", "failed", "finish", "over"}

\* A request that may still make its thing has not shown it.
Making == {"idle", "start", "write", "check", "link"}
Reading(r) == r.kind = "copy" /\ r.at \in {"write", "check"}

Aimed(r) == r.at \notin {"idle", "over"} => r.from \in Places /\ r.to \in Places

ListInv ==
  /\ entries \in [Places -> Things \cup {Nothing}] /\ op \in [Ops -> Op]
  /\ \A o \in Ops : Aimed(op[o])
  /\ \A o \in Ops, p \in Places : op[o].at \in Making => entries[p] # o
  /\ NothingIsLost

\* What has been read of a source c that has not been written since.
Copied(r, c, m) ==
  /\ c \in m /\ Len(r.data) <= Len(c)
  /\ \A i \in 1..Len(r.data) : r.data[i] = c[i]
  /\ r.at = "check" => Len(r.data) = Len(c)

\* Request r, whose source has content c and stamp s, has met m since it began.
Whole(r, c, s, m) ==
  /\ r.at \in {"idle", "start"} => r.data = <<>>
  /\ r.kind = "upload" /\ r.at \in {"write", "check"}
       => /\ <<0, 0>> \in m /\ Len(r.data) <= r.body
          /\ \A i \in 1..Len(r.data) : r.data[i] = 0
  /\ Reading(r) => r.stamp <= s /\ (s = r.stamp => Copied(r, c, m))
  /\ r.kind \in {"upload", "copy"} /\ r.at \in {"link", "sync"} => r.data \in m

DataInv ==
  /\ content \in [Things -> Content] /\ stamp \in [Things -> 0..MaxWrites]
  /\ moments \in [Ops -> SUBSET Content] /\ writes \in 0..MaxWrites
  /\ \A x \in Things : stamp[x] <= writes
  /\ \A o \in Ops : Reading(op[o]) =>
       /\ op[o].thing \in Things
       /\ \A q \in Ops : q = op[o].thing => op[q].at \notin Making
  /\ \A o \in Ops : Whole(op[o], content[op[o].thing], stamp[op[o].thing], moments[o])

LEMMA RequestFields ==
  ASSUME NEW r \in Op
  PROVE  /\ r.kind \in Kinds /\ r.at \in Steps
         /\ r.from \in Places \cup {Nothing} /\ r.to \in Places \cup {Nothing}
         /\ r.thing \in Things \cup {Nothing} /\ r.stamp \in 0..MaxWrites
         /\ r.data \in Content /\ r.body \in 0..2
BY DEF Op, Steps

LEMMA NextStep ==
  ASSUME NEW r \in Op, NEW s \in Steps
  PROVE  /\ [r EXCEPT !.at = s] \in Op /\ [r EXCEPT !.at = s].at = s
         /\ [r EXCEPT !.at = s].kind = r.kind /\ [r EXCEPT !.at = s].from = r.from
         /\ [r EXCEPT !.at = s].to = r.to /\ [r EXCEPT !.at = s].thing = r.thing
         /\ [r EXCEPT !.at = s].stamp = r.stamp /\ [r EXCEPT !.at = s].data = r.data
         /\ [r EXCEPT !.at = s].body = r.body
BY SMT DEF Op, Steps

\* The same as the row that the step leaves.
LEMMA AtStep ==
  ASSUME NEW r \in Op, NEW s \in Steps
  PROVE  \E y \in Op : /\ y = [r EXCEPT !.at = s] /\ y.at = s
                       /\ y.kind = r.kind /\ y.from = r.from /\ y.to = r.to /\ y.thing = r.thing
                       /\ y.stamp = r.stamp /\ y.data = r.data /\ y.body = r.body
<1>. DEFINE y == [r EXCEPT !.at = s]
<1>1. /\ y \in Op /\ y.at = s /\ y.kind = r.kind /\ y.from = r.from /\ y.to = r.to
      /\ y.thing = r.thing /\ y.stamp = r.stamp /\ y.data = r.data /\ y.body = r.body
  BY NextStep
<1>2. y = [r EXCEPT !.at = s]
  OBVIOUS
<1>. HIDE DEF y
<1>. QED  BY <1>1, <1>2, Zenon

\* A step of one request that leaves what places show.
LEMMA ListKept ==
  ASSUME ListInv, NEW o \in Ops, NEW y \in Op, op' = [op EXCEPT ![o] = y],
         Aimed(y), y.at \in Making => op[o].at \in Making, UNCHANGED <<entries, kept>>
  PROVE  ListInv'
<1>1. op \in [Ops -> Op] /\ \A x \in Ops : Aimed(op[x])
  BY Zenon DEF ListInv
<1>2. op' \in [Ops -> Op] /\ op'[o] = y /\ \A x \in Ops : x # o => op'[x] = op[x]
  BY <1>1, Zenon
<1>3. \A x \in Ops : Aimed(op'[x])
  BY <1>1, <1>2, Zenon
<1>4. \A x \in Ops, p \in Places : op'[x].at \in Making => entries[p] # x
  BY <1>2, Zenon DEF ListInv
<1>5. NothingIsLost'
  BY ZenonT(40) DEF ListInv, NothingIsLost, Free
<1>6. entries' \in [Places -> Things \cup {Nothing}] /\ entries' = entries
  BY Zenon DEF ListInv
<1>. QED  BY <1>2, <1>3, <1>4, <1>5, <1>6, Zenon DEF ListInv

\* A step of one request, which writes at most the thing it makes.
LEMMA DataKept ==
  ASSUME ListInv, DataInv, NEW o \in Ops, NEW y \in Op, op' = [op EXCEPT ![o] = y],
         NEW d \in Content, content' = [content EXCEPT ![o] = d],
         op[o].at \in Making \/ d = content[o],
         NEW m \in SUBSET Content, moments' = [moments EXCEPT ![o] = m],
         UNCHANGED <<stamp, writes>>,
         y.at \in Making => op[o].at \in Making,
         Reading(y) => /\ op[o].at \in Making /\ y.thing \in Things
                       /\ \A q \in Ops : q = y.thing => op[q].at \notin Making,
         Whole(y, content[y.thing], stamp[y.thing], m)
  PROVE  DataInv'
<1>1. /\ op \in [Ops -> Op] /\ content \in [Things -> Content] /\ o \in Things
      /\ moments \in [Ops -> SUBSET Content]
  BY Zenon DEF ListInv, DataInv, Things
<1>2. op' \in [Ops -> Op] /\ op'[o] = y /\ \A x \in Ops : x # o => op'[x] = op[x]
  BY <1>1, Zenon
<1>3. /\ content' \in [Things -> Content]
      /\ \A f \in Things : f # o => content'[f] = content[f]
      /\ op[o].at \notin Making => content' = content
  <2>1. content' \in [Things -> Content] /\ \A f \in Things : f # o => content'[f] = content[f]
    BY <1>1, Zenon
  <2>2. ASSUME op[o].at \notin Making PROVE content' = content
    <3>1. d = content[o]
      BY <2>2
    <3>. QED  BY <1>1, <3>1, Zenon
  <2>. QED  BY <2>1, <2>2, Zenon
<1>4. /\ moments' \in [Ops -> SUBSET Content] /\ moments'[o] = m
      /\ \A x \in Ops : x # o => moments'[x] = moments[x]
  BY <1>1, Zenon
<1>5. ASSUME NEW x \in Ops, Reading(op'[x])
      PROVE  /\ op'[x].thing \in Things
             /\ \A q \in Ops : q = op'[x].thing => op'[q].at \notin Making
  <2>1. CASE x = o
    <3>1. y.thing \in Things /\ op[o].at \in Making
          /\ \A q \in Ops : q = y.thing => op[q].at \notin Making
      BY <1>2, <1>5, <2>1, Zenon
    <3>. QED  BY <1>2, <2>1, <3>1, Zenon
  <2>2. CASE x # o
    <3>1. op[x].thing \in Things /\ \A q \in Ops : q = op[x].thing => op[q].at \notin Making
      BY <1>2, <1>5, <2>2, Zenon DEF DataInv
    <3>. QED  BY <1>2, <2>2, <3>1, Zenon
  <2>. QED  BY <2>1, <2>2, Zenon
<1>6. ASSUME NEW x \in Ops
      PROVE  Whole(op'[x], content'[op'[x].thing], stamp[op'[x].thing], moments'[x])
  <2>1. CASE x = o /\ ~Reading(y)
    BY <1>2, <1>4, <2>1, Zenon DEF Whole
  <2>2. CASE x = o /\ Reading(y)
    <3>1. y.thing \in Things /\ y.thing # o
      BY <2>2, Zenon
    <3>. QED  BY <1>2, <1>3, <1>4, <2>2, <3>1, Zenon
  <2>3. CASE x # o /\ ~Reading(op[x])
    <3>1. Whole(op[x], content[op[x].thing], stamp[op[x].thing], moments[x])
      BY Zenon DEF DataInv
    <3>. QED  BY <1>2, <1>4, <2>3, <3>1, Zenon DEF Whole
  <2>4. CASE x # o /\ Reading(op[x])
    <3>1. Whole(op[x], content[op[x].thing], stamp[op[x].thing], moments[x])
      BY Zenon DEF DataInv
    <3>2. op[x].thing \in Things /\ \A q \in Ops : q = op[x].thing => op[q].at \notin Making
      BY <2>4, Zenon DEF DataInv
    <3>3. content'[op[x].thing] = content[op[x].thing]
      BY <1>3, <3>2, Zenon
    <3>. QED  BY <1>2, <1>4, <2>4, <3>1, <3>3, Zenon
  <2>. QED  BY <2>1, <2>2, <2>3, <2>4, Zenon
<1>7. stamp' = stamp /\ writes' = writes
  OBVIOUS
<1>8. /\ stamp' \in [Things -> 0..MaxWrites] /\ writes' \in 0..MaxWrites
      /\ \A x \in Things : stamp'[x] <= writes'
  BY <1>7, Zenon DEF DataInv
<1>9. \A x \in Ops : Reading(op'[x]) =>
        /\ op'[x].thing \in Things
        /\ \A q \in Ops : q = op'[x].thing => op'[q].at \notin Making
  BY <1>5, Zenon
<1>10. \A x \in Ops : Whole(op'[x], content'[op'[x].thing], stamp'[op'[x].thing], moments'[x])
  BY <1>6, <1>7, Zenon
<1>. QED  BY <1>3, <1>4, <1>8, <1>9, <1>10, Zenon DEF DataInv

\* The request goes on to step s, or fails, with nothing else of it changed.
LEMMA GoesOn ==
  ASSUME ListInv, DataInv, NEW o \in Ops, NEW s \in Steps, Goes(o, s),
         op[o].at \notin {"idle", "over"}, s \notin {"idle", "start", "over", "write"},
         s \in Making => op[o].at \in Making, UNCHANGED <<entries, kept, written>>,
         s \notin {"failed", "finish", "act"}
           => \A r \in Op : (/\ r.kind = op[o].kind /\ r.at = s /\ r.thing = op[o].thing
                             /\ r.stamp = op[o].stamp /\ r.data = op[o].data
                             /\ r.body = op[o].body)
                => ~Reading(r) /\ Whole(r, content[r.thing], stamp[r.thing], moments[o])
  PROVE  ListInv' /\ DataInv'
<1>1. PICK y \in Op : /\ y = [op[o] EXCEPT !.at = s]
                      /\ y.kind = op[o].kind /\ y.at = s /\ y.from = op[o].from
                      /\ y.to = op[o].to /\ y.thing = op[o].thing
                      /\ y.stamp = op[o].stamp /\ y.data = op[o].data
                      /\ y.body = op[o].body
  <2>1. op[o] \in Op
    BY Zenon DEF ListInv
  <2>. QED  BY <2>1, AtStep, SMT
<1>2. op' = [op EXCEPT ![o] = y]
  BY <1>1, Zenon DEF Goes
<1>3. Aimed(y)
  BY <1>1, Zenon DEF ListInv, Aimed
<1>4. ListInv'
  BY <1>1, <1>2, <1>3, ListKept, Zenon
<1>5. /\ content' = [content EXCEPT ![o] = content[o]] /\ content[o] \in Content
      /\ moments' = [moments EXCEPT ![o] = moments[o]] /\ moments[o] \in SUBSET Content
      /\ UNCHANGED <<stamp, writes>>
  BY Zenon DEF DataInv, Things, written, files
<1>6. ~Reading(y) /\ Whole(y, content[y.thing], stamp[y.thing], moments[o])
  <2>1. CASE s \in {"failed", "finish", "act"}
    BY <1>1, <2>1, Zenon DEF Reading, Whole
  <2>2. CASE s \notin {"failed", "finish", "act"}
    BY <1>1, <2>2, Zenon
  <2>. QED  BY <2>1, <2>2, Zenon
<1>7. (y.at \in Making => op[o].at \in Making) /\ content[o] = content[o]
  BY <1>1, Zenon
<1>8. DataInv'
  BY <1>2, <1>5, <1>6, <1>7, DataKept, Zenon
<1>. QED  BY <1>4, <1>8

LEMMA NoRequestIsOp ==
  ASSUME NEW y, y = [NoRequest EXCEPT !.at = "over"]
  PROVE  y \in Op /\ y.at = "over"
<1>1. NoRequest \in Op
  BY FilesBounds, SMT DEF NoRequest, Op, Kinds, Content
<1>2. "over" \in Steps
  BY DEF Steps
<1>. QED  BY <1>1, <1>2, NextStep, Zenon

\* The request ends.
LEMMA EndsSafe ==
  ASSUME ListInv, DataInv, NEW o \in Ops, Ends(o), UNCHANGED <<entries, kept, files>>
  PROVE  ListInv' /\ DataInv'
<1>1. PICK y \in Op : y.at = "over" /\ op' = [op EXCEPT ![o] = y]
  BY NoRequestIsOp, Zenon DEF Ends
<1>2. Aimed(y) /\ ~Reading(y) /\ y.at \notin Making
  <2>1. "over" \notin Making /\ "over" \notin {"write", "check"}
    BY DEF Making
  <2>. QED  BY <1>1, <2>1, Zenon DEF Aimed, Reading
<1>3. Whole(y, content[y.thing], stamp[y.thing], {})
  BY <1>1, <1>2, Zenon DEF Whole
<1>4. /\ content' = [content EXCEPT ![o] = content[o]] /\ content[o] \in Content
      /\ moments' = [moments EXCEPT ![o] = {}] /\ {} \in SUBSET Content
      /\ UNCHANGED <<stamp, writes>>
  BY Zenon DEF DataInv, Things, Ends, files
<1>5. ListInv'
  BY <1>1, <1>2, ListKept, Zenon
<1>6. DataInv'
  BY <1>1, <1>2, <1>3, <1>4, DataKept, Zenon
<1>. QED  BY <1>5, <1>6

LEMMA RequestFieldsSet ==
  ASSUME NEW r \in Op
  PROVE  /\ \A x \in Kinds : [r EXCEPT !.kind = x] \in Op /\ [r EXCEPT !.kind = x].data = r.data
         /\ \A x \in Places : /\ [r EXCEPT !.from = x] \in Op /\ [r EXCEPT !.from = x].from = x
                              /\ [r EXCEPT !.from = x].data = r.data
                              /\ [r EXCEPT !.from = x].at = r.at
         /\ \A x \in Places : /\ [r EXCEPT !.to = x] \in Op /\ [r EXCEPT !.to = x].to = x
                              /\ [r EXCEPT !.to = x].data = r.data /\ [r EXCEPT !.to = x].at = r.at
                              /\ [r EXCEPT !.to = x].from = r.from
         /\ \A x \in 0..2 : /\ [r EXCEPT !.body = x] \in Op
                            /\ [r EXCEPT !.body = x].data = r.data
                            /\ [r EXCEPT !.body = x].at = r.at
                            /\ [r EXCEPT !.body = x].from = r.from
                            /\ [r EXCEPT !.body = x].to = r.to
<1>1. \A x \in Kinds : [r EXCEPT !.kind = x] \in Op /\ [r EXCEPT !.kind = x].data = r.data
  BY SMT DEF Op
<1>2. \A x \in Places : /\ [r EXCEPT !.from = x] \in Op /\ [r EXCEPT !.from = x].from = x
                        /\ [r EXCEPT !.from = x].data = r.data /\ [r EXCEPT !.from = x].at = r.at
  BY SMT DEF Op
<1>3. \A x \in Places : /\ [r EXCEPT !.to = x] \in Op /\ [r EXCEPT !.to = x].to = x
                        /\ [r EXCEPT !.to = x].data = r.data /\ [r EXCEPT !.to = x].at = r.at
                        /\ [r EXCEPT !.to = x].from = r.from
  BY SMT DEF Op
<1>4. \A x \in 0..2 : /\ [r EXCEPT !.body = x] \in Op /\ [r EXCEPT !.body = x].data = r.data
                      /\ [r EXCEPT !.body = x].at = r.at /\ [r EXCEPT !.body = x].from = r.from
                      /\ [r EXCEPT !.body = x].to = r.to
  BY SMT DEF Op
<1>. QED  BY <1>1, <1>2, <1>3, <1>4, Zenon

LEMMA RequestSafe ==
  ASSUME ListInv, DataInv, NEW o \in Ops, NEW kind \in Kinds, NEW p \in Places, NEW q \in Places,
         NEW n \in 0..2, Request(o, kind, p, q, n)
  PROVE  ListInv' /\ DataInv'
<1>1. op[o] \in Op
  BY Zenon DEF ListInv
<1>2. PICK y \in Op : /\ y.at = "start" /\ y.from = p /\ y.to = q /\ y.data = op[o].data
                      /\ op' = [op EXCEPT ![o] = y]
  <2>1. PICK r1 \in Op : r1 = [op[o] EXCEPT !.kind = kind] /\ r1.data = op[o].data
    <3>1. [op[o] EXCEPT !.kind = kind] \in Op /\ [op[o] EXCEPT !.kind = kind].data = op[o].data
      BY <1>1, RequestFieldsSet, Zenon
    <3>. QED  BY <3>1, Zenon
  <2>2. PICK r2 \in Op : r2 = [r1 EXCEPT !.at = "start"] /\ r2.data = r1.data /\ r2.at = "start"
    <3>1. "start" \in Steps
      BY DEF Steps
    <3>. QED  BY <3>1, AtStep, SMT
  <2>3. PICK r3 \in Op : /\ r3 = [r2 EXCEPT !.from = p] /\ r3.data = r2.data /\ r3.at = r2.at
                         /\ r3.from = p
    BY RequestFieldsSet, ZenonT(40)
  <2>4. PICK r4 \in Op : /\ r4 = [r3 EXCEPT !.to = q] /\ r4.data = r3.data /\ r4.at = r3.at
                         /\ r4.from = r3.from /\ r4.to = q
    BY RequestFieldsSet, ZenonT(40)
  <2>5. PICK r5 \in Op : /\ r5 = [r4 EXCEPT !.body = n] /\ r5.data = r4.data /\ r5.at = r4.at
                         /\ r5.from = r4.from /\ r5.to = r4.to
    BY RequestFieldsSet, ZenonT(40)
  <2>6. r5 = [op[o] EXCEPT !.kind = kind, !.at = "start", !.from = p, !.to = q, !.body = n]
    BY <2>1, <2>2, <2>3, <2>4, <2>5, Zenon
  <2>7. op' = [op EXCEPT ![o] = r5]
    BY <2>6, Zenon DEF Request
  <2>. QED  BY <2>2, <2>3, <2>4, <2>5, <2>1, <2>7, Zenon
<1>3. op[o].at = "idle" /\ op[o].data = <<>>
  BY Zenon DEF Request, DataInv, Whole
<1>4. "start" \notin {"write", "check"} /\ "start" \notin {"link", "sync"}
  OBVIOUS
<1>5. Aimed(y) /\ ~Reading(y)
  BY <1>2, <1>4, Zenon DEF Aimed, Reading
<1>6. Whole(y, content[y.thing], stamp[y.thing], moments[o])
  BY <1>2, <1>3, <1>4, <1>5, Zenon DEF Whole
<1>7. /\ content' = [content EXCEPT ![o] = content[o]] /\ content[o] \in Content
      /\ moments' = [moments EXCEPT ![o] = moments[o]] /\ moments[o] \in SUBSET Content
      /\ UNCHANGED <<stamp, writes, entries, kept>>
  BY Zenon DEF DataInv, Things, written, files, Request, listing
<1>8. ListInv'
  BY <1>2, <1>3, <1>5, <1>7, ListKept, Zenon DEF Making
<1>9. DataInv'
  BY <1>2, <1>3, <1>5, <1>6, <1>7, DataKept, Zenon DEF Making
<1>. QED  BY <1>8, <1>9

LEMMA EndingSafe ==
  ASSUME ListInv, DataInv, NEW o \in Ops,
         \/ \E row \in {"none", "denied"} : Refuse(o, row)
         \/ \E status \in {"success", "failed", "denied"} : FinishOperation(o, status)
         \/ FinishUnsaved(o) \/ Dies(o)
  PROVE  ListInv' /\ DataInv'
BY EndsSafe, Zenon DEF Refuse, FinishOperation, FinishUnsaved, Dies, listing, files

LEMMA FailsSafe ==
  ASSUME ListInv, DataInv, NEW o \in Ops, Goes(o, "failed"), op[o].at \notin {"idle", "over"},
         UNCHANGED <<entries, kept, written>>
  PROVE  ListInv' /\ DataInv'
<1>1. "failed" \in Steps /\ "failed" \notin {"idle", "start", "over", "write"} /\ "failed" \notin Making
  BY DEF Steps, Making
<1>. QED  BY <1>1, GoesOn, Zenon

LEMMA FaultSafe ==
  ASSUME ListInv, DataInv, NEW o \in Ops, Fault(o)
  PROVE  ListInv' /\ DataInv'
<1>1. Goes(o, "failed") /\ op[o].at \notin {"idle", "over"} /\ UNCHANGED <<entries, kept, written>>
  BY Zenon DEF Fault, listing
<1>. QED  BY <1>1, FailsSafe, Zenon

LEMMA UploadStartSafe ==
  ASSUME ListInv, DataInv, NEW o \in Ops, UploadStart(o)
  PROVE  ListInv' /\ DataInv'
<1>1. /\ op[o] \in Op /\ op[o].kind = "upload" /\ op[o].at = "start" /\ Aimed(op[o])
      /\ op' = [op EXCEPT ![o].at = "write"] /\ op[o].data = <<>>
  BY Zenon DEF ListInv, UploadStart, At, Goes, DataInv, Whole
<1>2. PICK y \in Op : /\ op' = [op EXCEPT ![o] = y]
                      /\ y.kind = "upload" /\ y.at = "write" /\ y.from = op[o].from
                      /\ y.to = op[o].to /\ y.data = <<>> /\ y.body = op[o].body
  <2>1. "write" \in Steps
    BY DEF Steps
  <2>2. PICK y \in Op : /\ y = [op[o] EXCEPT !.at = "write"]
                        /\ y.kind = op[o].kind /\ y.at = "write" /\ y.from = op[o].from
                        /\ y.to = op[o].to /\ y.data = op[o].data /\ y.body = op[o].body
    BY <1>1, <2>1, AtStep, SMT
  <2>. QED  BY <1>1, <2>2, Zenon
<1>3. Aimed(y) /\ ~Reading(y)
  <2>1. "upload" # "copy" /\ "start" \notin {"idle", "over"}
    OBVIOUS
  <2>. QED  BY <1>1, <1>2, <2>1, Zenon DEF Aimed, Reading
<1>4. Whole(y, content[y.thing], stamp[y.thing], {<<0, 0>>})
  <2>1. Len(y.data) <= y.body /\ \A i \in 1..Len(y.data) : y.data[i] = 0
    <3>1. y.body \in 0..2 /\ Len(y.data) = 0
      BY <1>2, RequestFields, SMT
    <3>. QED  BY <3>1, SMT
  <2>2. y.at \notin {"idle", "start"} /\ y.at \notin {"link", "sync"}
    BY <1>2, Zenon
  <2>. QED  BY <1>3, <2>1, <2>2, Zenon DEF Whole
<1>5. /\ content' = [content EXCEPT ![o] = content[o]] /\ content[o] \in Content
      /\ moments' = [moments EXCEPT ![o] = {<<0, 0>>}]
      /\ UNCHANGED <<stamp, writes, entries, kept>>
  BY Zenon DEF DataInv, Things, UploadStart, listing
<1>6. {<<0, 0>>} \in SUBSET Content
  BY FilesBounds, SMT DEF Content, Chunks
<1>7. "start" \in Making
  BY DEF Making
<1>8. ListInv'
  BY <1>1, <1>2, <1>3, <1>5, <1>7, ListKept, Zenon
<1>9. DataInv'
  BY <1>1, <1>2, <1>3, <1>4, <1>5, <1>6, <1>7, DataKept, Zenon
<1>. QED  BY <1>8, <1>9

LEMMA DataSet ==
  ASSUME NEW r \in Op, NEW d \in Content
  PROVE  /\ [r EXCEPT !.data = d] \in Op /\ [r EXCEPT !.data = d].data = d /\ [r EXCEPT !.data = d].at = r.at
         /\ [r EXCEPT !.data = d].kind = r.kind /\ [r EXCEPT !.data = d].from = r.from
         /\ [r EXCEPT !.data = d].to = r.to /\ [r EXCEPT !.data = d].thing = r.thing
         /\ [r EXCEPT !.data = d].stamp = r.stamp /\ [r EXCEPT !.data = d].body = r.body
BY SMT DEF Op

\* A request that is writing its .part file has written d of it.
LEMMA ChunkSafe ==
  ASSUME ListInv, DataInv, NEW o \in Ops, op[o].at = "write", op[o].kind \in {"upload", "copy"},
         NEW s \in {"write", "check"}, NEW d \in Content,
         op' = [op EXCEPT ![o].at = s, ![o].data = d], UNCHANGED <<entries, kept, written>>,
         op[o].kind = "upload" => Len(d) <= op[o].body /\ \A i \in 1..Len(d) : d[i] = 0,
         op[o].kind = "copy" /\ stamp[op[o].thing] = op[o].stamp =>
           LET c == content[op[o].thing] IN
           /\ Len(d) <= Len(c) /\ \A i \in 1..Len(d) : d[i] = c[i]
           /\ s = "check" => Len(d) = Len(c)
  PROVE  ListInv' /\ DataInv'
<1>1. s \in Steps /\ s \in Making /\ "write" \in Making /\ s \notin {"idle", "start", "over"}
      /\ s \notin {"link", "sync"} /\ "write" \notin {"idle", "over"}
  BY DEF Steps, Making
<1>2. op \in [Ops -> Op] /\ Aimed(op[o]) /\ Whole(op[o], content[op[o].thing], stamp[op[o].thing], moments[o])
  BY Zenon DEF ListInv, DataInv
<1>. DEFINE x == [op[o] EXCEPT !.at = s]
            y == [x EXCEPT !.data = d]
<1>3. /\ x \in Op /\ x.at = s /\ x.kind = op[o].kind /\ x.from = op[o].from /\ x.to = op[o].to
      /\ x.thing = op[o].thing /\ x.stamp = op[o].stamp /\ x.body = op[o].body
  <2>1. op[o] \in Op
    BY <1>2, Zenon
  <2>. QED  BY <1>1, <2>1, NextStep
<1>4. op' = [op EXCEPT ![o] = y]
  OBVIOUS
<1>. HIDE DEF x
<1>5. /\ y \in Op /\ y.data = d /\ y.at = x.at /\ y.kind = x.kind /\ y.from = x.from /\ y.to = x.to
      /\ y.thing = x.thing /\ y.stamp = x.stamp /\ y.body = x.body
  BY <1>3, DataSet
<1>. HIDE DEF y
<1>6. /\ y \in Op /\ y.data = d /\ y.at = s /\ y.kind = op[o].kind /\ y.from = op[o].from
      /\ y.to = op[o].to /\ y.thing = op[o].thing /\ y.stamp = op[o].stamp /\ y.body = op[o].body
  BY <1>3, <1>5, Zenon
<1>7. Aimed(y)
  BY <1>1, <1>2, <1>6, Zenon DEF Aimed
<1>8. ListInv'
  BY <1>1, <1>7, <1>4, <1>6, ListKept, Zenon
<1>9. Reading(op[o]) <=> op[o].kind = "copy"
  BY Zenon DEF Reading
<1>10. Reading(y) => Reading(op[o])
  BY <1>6, Zenon DEF Reading
<1>11. ASSUME op[o].kind = "upload"
      PROVE  Whole(y, content[y.thing], stamp[y.thing], moments[o])
  <2>1. ~Reading(y)
    <3>1. "upload" # "copy"
      OBVIOUS
    <3>. QED  BY <1>11, <1>6, <3>1, Zenon DEF Reading
  <2>2. <<0, 0>> \in moments[o]
    BY <1>2, <1>11, Zenon DEF Whole
  <2>. QED  BY <1>1, <1>11, <1>6, <2>1, <2>2, Zenon DEF Whole
<1>12. ASSUME op[o].kind = "copy"
      PROVE  Whole(y, content[y.thing], stamp[y.thing], moments[o])
  <2>1. op[o].stamp <= stamp[op[o].thing]
    BY <1>2, <1>9, <1>12, Zenon DEF Whole
  <2>2. op[o].stamp = stamp[op[o].thing] => content[op[o].thing] \in moments[o]
    BY <1>2, <1>9, <1>12, Zenon DEF Whole, Copied
  <2>3. stamp[y.thing] = y.stamp => Copied(y, content[y.thing], moments[o])
    BY <1>12, <1>6, <2>2, Zenon DEF Copied
  <2>4. y.kind # "upload" /\ y.at \notin {"idle", "start"} /\ y.at \notin {"link", "sync"}
    <3>1. "copy" # "upload"
      OBVIOUS
    <3>. QED  BY <3>1, <1>1, <1>12, <1>6, Zenon
  <2>. QED  BY <1>6, <2>1, <2>3, <2>4, Zenon DEF Whole
<1>13. /\ content' = [content EXCEPT ![o] = content[o]] /\ content[o] \in Content
       /\ moments' = [moments EXCEPT ![o] = moments[o]] /\ moments[o] \in SUBSET Content
       /\ UNCHANGED <<stamp, writes>>
  BY Zenon DEF DataInv, Things, written, files
<1>14. Whole(y, content[y.thing], stamp[y.thing], moments[o])
  BY <1>11, <1>12, Zenon
<1>15. Reading(y) => /\ y.thing \in Things /\ op[o].at \in Making
                     /\ \A q \in Ops : q = y.thing => op[q].at \notin Making
  BY <1>1, <1>10, <1>6, Zenon DEF DataInv
<1>16. DataInv'
  BY <1>1, <1>13, <1>14, <1>15, <1>4, <1>6, DataKept, Zenon
<1>. QED  BY <1>8, <1>16

LEMMA UploadChunkSafe ==
  ASSUME ListInv, DataInv, NEW o \in Ops, UploadChunk(o)
  PROVE  ListInv' /\ DataInv'
<1>0. op[o] \in Op /\ "write" \in Steps /\ "check" \in Steps
  BY Zenon DEF ListInv, Steps
<1>1. /\ op \in [Ops -> Op] /\ op[o] \in Op /\ op[o].kind = "upload" /\ op[o].at = "write"
      /\ Whole(op[o], content[op[o].thing], stamp[op[o].thing], moments[o])
      /\ UNCHANGED <<entries, kept, written>>
  BY Zenon DEF ListInv, DataInv, UploadChunk, At, listing
<1>2. /\ op[o].data \in Content /\ op[o].body \in 0..2 /\ Len(op[o].data) <= op[o].body
      /\ \A i \in 1..Len(op[o].data) : op[o].data[i] = 0
  BY <1>1, RequestFields, Zenon DEF Whole
<1>3. "upload" # "copy" /\ "write" \in Steps /\ "check" \in Steps
  BY DEF Steps
<1>4. CASE Len(op[o].data) = op[o].body
  <2>1. op' = [op EXCEPT ![o].at = "check", ![o].data = op[o].data]
    BY <1>4, Zenon DEF UploadChunk
  <2>. QED  BY <1>1, <1>2, <1>3, <2>1, ChunkSafe, Zenon
<1>5. CASE Len(op[o].data) # op[o].body
  <2>1. PICK d \in Content : d = Append(op[o].data, 0) /\ Len(d) <= op[o].body
                             /\ \A i \in 1..Len(d) : d[i] = 0
    <3>1. Len(op[o].data) \in 0..2 /\ Len(op[o].data) < 2 /\ Len(op[o].data) + 1 <= op[o].body
      BY <1>2, <1>5, LengthOfContent, SMT
    <3>2. 0 \in Chunks
      BY FilesBounds, SMT DEF Chunks
    <3>3. PICK d \in Content : /\ d = Append(op[o].data, 0) /\ Len(d) = Len(op[o].data) + 1
                               /\ d[Len(op[o].data) + 1] = 0
                               /\ \A i \in 1..Len(op[o].data) : d[i] = op[o].data[i]
      BY <1>2, <3>1, <3>2, AppendedContent, ZenonT(40)
    <3>4. ASSUME NEW i \in 1..Len(d) PROVE d[i] = 0
      <4>1. i \in 1..Len(op[o].data) \/ i = Len(op[o].data) + 1
        BY <3>1, <3>3, SMT
      <4>. QED  BY <1>2, <3>3, <4>1, Zenon
    <3>. QED  BY <3>1, <3>3, <3>4, Zenon
  <2>2. op' = [op EXCEPT ![o].at = "write", ![o].data = d]
    BY <1>5, <2>1, Zenon DEF UploadChunk
  <2>. QED  BY <1>1, <1>3, <2>1, <2>2, ChunkSafe, Zenon
<1>. QED  BY <1>4, <1>5, Zenon

LEMMA CopyChunkSafe ==
  ASSUME ListInv, DataInv, NEW o \in Ops, CopyChunk(o)
  PROVE  ListInv' /\ DataInv'
<1>. DEFINE r == op[o]
            c == content[op[o].thing]
<1>0. op[o] \in Op /\ "write" \in Steps /\ "check" \in Steps
  BY Zenon DEF ListInv, Steps
<1>1. /\ op \in [Ops -> Op] /\ r \in Op /\ r.kind = "copy" /\ r.at = "write" /\ Reading(r)
      /\ UNCHANGED <<entries, kept, written>>
  BY Zenon DEF ListInv, CopyChunk, At, listing, Reading
<1>2. /\ r.data \in Content /\ c \in Content
      /\ stamp[r.thing] = r.stamp => Copied(r, c, moments[o])
  BY <1>1, RequestFields, Zenon DEF DataInv, Whole
<1>3. Len(r.data) \in 0..2 /\ Len(c) \in 0..2 /\ \A i \in 1..Len(c) : c[i] \in Chunks
  BY <1>2, LengthOfContent, Zenon
<1>4. "copy" # "upload" /\ "write" # "check" /\ "write" \in Steps /\ "check" \in Steps
  BY DEF Steps
<1>5. CASE Len(r.data) + 1 > Len(c)
  <2>1. op' = [op EXCEPT ![o].at = "check", ![o].data = op[o].data]
    BY <1>5, Zenon DEF CopyChunk
  <2>2. stamp[op[o].thing] = op[o].stamp =>
          /\ Len(op[o].data) <= Len(c) /\ \A i \in 1..Len(op[o].data) : op[o].data[i] = c[i]
    BY <1>2, Zenon DEF Copied
  <2>3. Len(op[o].data) <= Len(c) => Len(op[o].data) = Len(c)
    BY <1>3, <1>5, SMT
  <2>. QED  BY <1>1, <1>2, <1>4, <2>1, <2>2, <2>3, ChunkSafe, Zenon
<1>6. CASE ~(Len(r.data) + 1 > Len(c))
  <2>1. Len(r.data) < 2 /\ Len(r.data) + 1 \in 1..Len(c)
    BY <1>3, <1>6, SMTT(20)
  <2>2. PICK d \in Content : /\ d = Append(r.data, c[Len(r.data) + 1])
                             /\ Len(d) = Len(r.data) + 1 /\ d[Len(r.data) + 1] = c[Len(r.data) + 1]
                             /\ \A i \in 1..Len(r.data) : d[i] = r.data[i]
    <3>1. c[Len(r.data) + 1] \in Chunks
      BY <1>3, <2>1, Zenon
    <3>2. r.data \in Content
      BY <1>2, Zenon
    <3>. QED  BY <2>1, <3>1, <3>2, AppendedContent, Zenon
  <2>3. op' = [op EXCEPT ![o].at = "write", ![o].data = d]
    BY <1>6, <2>2, Zenon DEF CopyChunk
  <2>4. Len(d) <= Len(c) /\ Len(d) = Len(r.data) + 1 /\ Len(r.data) \in Nat
    <3>1. Len(d) = Len(r.data) + 1
      BY <2>2
    <3>. QED  BY <1>3, <2>1, <3>1, SMT
  <2>5. ASSUME stamp[op[o].thing] = op[o].stamp, NEW i \in 1..Len(d) PROVE d[i] = c[i]
    <3>1. i \in 1..Len(r.data) \/ i = Len(r.data) + 1
      BY <2>4, SMT
    <3>2. \A k \in 1..Len(r.data) : r.data[k] = c[k]
      BY <1>2, <2>5, Zenon DEF Copied
    <3>. QED  BY <2>2, <3>1, <3>2, Zenon
  <2>. QED  BY <1>1, <1>4, <2>3, <2>4, <2>5, ChunkSafe, Zenon
<1>. QED  BY <1>5, <1>6, Zenon

LEMMA CopyStartSafe ==
  ASSUME ListInv, DataInv, NEW o \in Ops, CopyStart(o)
  PROVE  ListInv' /\ DataInv'
<1>. DEFINE s == entries[op[o].from]
<1>0. op[o] \in Op /\ "write" \in Steps
  BY Zenon DEF ListInv, Steps
<1>1. /\ op[o].kind = "copy" /\ op[o].at = "start" /\ Aimed(op[o]) /\ op[o].data = <<>>
      /\ UNCHANGED <<entries, kept, files>>
  BY Zenon DEF ListInv, DataInv, Whole, CopyStart, At, listing, files
<1>2. op[o].from \in Places /\ op[o].to \in Places
  <2>1. "start" \notin {"idle", "over"}
    OBVIOUS
  <2>. QED  BY <1>1, <2>1, Zenon DEF Aimed
<1>3. CASE s = Nothing \/ s \in dirs
  <2>1. Goes(o, "failed") /\ UNCHANGED written
    BY <1>3, Zenon DEF CopyStart, written, files
  <2>2. op[o].at \notin {"idle", "over"}
    BY <1>1, Zenon
  <2>. QED  BY <1>1, <2>1, <2>2, FailsSafe, Zenon
<1>4. CASE ~(s = Nothing \/ s \in dirs)
  <2>1. s \in Things /\ \A q \in Ops : q = s => op[q].at \notin Making
    BY <1>2, <1>4, Zenon DEF ListInv
  <2>2. stamp[s] \in 0..MaxWrites /\ content[s] \in Content
    BY <2>1, Zenon DEF DataInv
  <2>3. PICK x \in Op : /\ x = [op[o] EXCEPT !.at = "write"] /\ x.at = "write"
                        /\ x.kind = op[o].kind /\ x.from = op[o].from /\ x.to = op[o].to
                        /\ x.data = op[o].data
    BY <1>0, AtStep, SMT
  <2>4. ASSUME NEW r \in Op
        PROVE  /\ [r EXCEPT !.thing = s] \in Op /\ [r EXCEPT !.thing = s].thing = s
               /\ [r EXCEPT !.thing = s].at = r.at /\ [r EXCEPT !.thing = s].kind = r.kind
               /\ [r EXCEPT !.thing = s].from = r.from /\ [r EXCEPT !.thing = s].to = r.to
               /\ [r EXCEPT !.thing = s].data = r.data
    <3>. HIDE DEF s
    <3>. QED  BY <2>1, SMT DEF Op
  <2>5. ASSUME NEW r \in Op, NEW n \in 0..MaxWrites
        PROVE  /\ [r EXCEPT !.stamp = n] \in Op /\ [r EXCEPT !.stamp = n].stamp = n
               /\ [r EXCEPT !.stamp = n].at = r.at /\ [r EXCEPT !.stamp = n].kind = r.kind
               /\ [r EXCEPT !.stamp = n].from = r.from /\ [r EXCEPT !.stamp = n].to = r.to
               /\ [r EXCEPT !.stamp = n].data = r.data /\ [r EXCEPT !.stamp = n].thing = r.thing
    BY SMT DEF Op
  <2>6. PICK z \in Op : /\ z = [x EXCEPT !.thing = s] /\ z.thing = s
                        /\ z.at = x.at /\ z.kind = x.kind /\ z.from = x.from /\ z.to = x.to
                        /\ z.data = x.data
    BY <2>4, Zenon
  <2>7. PICK y \in Op : /\ y = [z EXCEPT !.stamp = stamp[s]] /\ y.stamp = stamp[s]
                        /\ y.at = z.at /\ y.kind = z.kind /\ y.from = z.from /\ y.to = z.to
                        /\ y.data = z.data /\ y.thing = z.thing
    BY <2>2, <2>5, Zenon
  <2>8. op' = [op EXCEPT ![o] = y]
    <3>1. y = [op[o] EXCEPT !.at = "write", !.thing = s, !.stamp = stamp[s]]
      BY <2>3, <2>6, <2>7, Zenon
    <3>2. op' = [op EXCEPT ![o] = [op[o] EXCEPT !.at = "write", !.thing = s, !.stamp = stamp[s]]]
      BY <1>4, Zenon DEF CopyStart
    <3>. QED  BY <3>1, <3>2, Zenon
  <2>9. /\ y.kind = "copy" /\ y.at = "write" /\ y.from = op[o].from /\ y.to = op[o].to
        /\ y.data = <<>> /\ y.thing = s /\ y.stamp = stamp[s]
    <3>1. z.kind = "copy" /\ z.at = "write" /\ z.from = op[o].from /\ z.to = op[o].to /\ z.data = <<>>
      BY <1>1, <2>3, <2>6, Zenon
    <3>. QED  BY <2>6, <2>7, <3>1, Zenon
  <2>10. Aimed(y)
    BY <1>2, <2>9, Zenon DEF Aimed
  <2>11. Whole(y, content[y.thing], stamp[y.thing], {content[s]})
    <3>1. Len(y.data) = 0 /\ stamp[s] <= stamp[s] /\ Len(y.data) <= Len(content[s])
      BY <2>2, <2>9, LengthOfContent, SMT
    <3>2. 1..Len(y.data) = {}
      BY <3>1, SMT
    <3>3. "write" # "check" /\ "write" \notin {"idle", "start"} /\ "copy" # "upload"
          /\ "write" \notin {"link", "sync"}
      OBVIOUS
    <3>4. Copied(y, content[s], {content[s]})
      BY <2>9, <3>1, <3>2, <3>3, Zenon DEF Copied
    <3>. QED  BY <2>9, <3>1, <3>3, <3>4, Zenon DEF Whole
  <2>12. /\ content' = [content EXCEPT ![o] = content[o]] /\ content[o] \in Content
         /\ moments' = [moments EXCEPT ![o] = {content[s]}] /\ {content[s]} \in SUBSET Content
         /\ UNCHANGED <<stamp, writes>>
    BY <1>1, <1>4, <2>2, Zenon DEF DataInv, Things, files, CopyStart
  <2>13. "start" \in Making
    BY DEF Making
  <2>14. ListInv'
    BY <1>1, <2>8, <2>10, <2>13, ListKept, Zenon
  <2>15. DataInv'
    BY <1>1, <2>1, <2>8, <2>9, <2>11, <2>12, <2>13, DataKept, ZenonT(40)
  <2>. QED  BY <2>14, <2>15
<1>. QED  BY <1>3, <1>4, Zenon

LEMMA CheckSafe ==
  ASSUME ListInv, DataInv, NEW o \in Ops, Check(o)
  PROVE  ListInv' /\ DataInv'
<1>1. /\ op[o] \in Op /\ op[o].at = "check" /\ UNCHANGED <<entries, kept, written>>
      /\ Whole(op[o], content[op[o].thing], stamp[op[o].thing], moments[o])
  BY Zenon DEF ListInv, DataInv, Check, listing
<1>2. op[o].at \notin {"idle", "over"}
  BY <1>1, Zenon
<1>3. CASE WholeBody(o)
  <2>1. ASSUME op[o].kind = "upload" PROVE op[o].data \in moments[o]
    <3>1. /\ Len(op[o].data) = 2 /\ op[o].data \in Seq(Chunks)
          /\ \A i \in 1..Len(op[o].data) : op[o].data[i] = 0
          /\ <<0, 0>> \in moments[o]
      BY <1>1, <1>3, <2>1, RequestFields, LengthOfContent, Zenon DEF WholeBody, Whole
    <3>2. op[o].data = <<op[o].data[1], op[o].data[2]>>
      BY <3>1, TwoChunks, Zenon
    <3>3. 1 \in 1..2 /\ 2 \in 1..2
      BY SMT
    <3>. QED  BY <3>1, <3>2, <3>3, Zenon
  <2>2. ASSUME op[o].kind = "copy" PROVE op[o].data \in moments[o]
    <3>1. "copy" # "upload"
      OBVIOUS
    <3>2. stamp[op[o].thing] = op[o].stamp
      BY <1>3, <2>2, <3>1, Zenon DEF WholeBody
    <3>3. Reading(op[o])
      BY <1>1, <2>2, Zenon DEF Reading
    <3>4. Copied(op[o], content[op[o].thing], moments[o])
      BY <1>1, <3>2, <3>3, Zenon DEF Whole
    <3>5. content[op[o].thing] \in Content /\ op[o].data \in Content
      BY <1>1, <3>3, RequestFields, Zenon DEF DataInv
    <3>6. op[o].data = content[op[o].thing]
      BY <1>1, <3>4, <3>5, SameContent, Zenon DEF Copied
    <3>. QED  BY <3>4, <3>6, Zenon DEF Copied
  <2>3. Goes(o, "link")
    BY <1>3, Zenon DEF Check
  <2>4. /\ "link" \in Steps /\ "link" \notin {"idle", "start", "over", "write"}
        /\ "check" \in Making /\ "link" \notin {"write", "check"} /\ "link" \notin {"idle", "start"}
    BY DEF Steps, Making
  <2>5. ASSUME NEW r \in Op, r.kind = op[o].kind, r.at = "link", r.data = op[o].data
        PROVE  ~Reading(r) /\ Whole(r, content[r.thing], stamp[r.thing], moments[o])
    <3>1. ~Reading(r) /\ r.at \notin {"write", "check"} /\ r.at \notin {"idle", "start"}
      BY <2>4, <2>5, Zenon DEF Reading
    <3>2. r.kind \in {"upload", "copy"} => r.data \in moments[o]
      BY <2>1, <2>2, <2>5, Zenon
    <3>. QED  BY <3>1, <3>2, Zenon DEF Whole
  <2>. QED  BY <1>1, <1>2, <2>3, <2>4, <2>5, GoesOn, Zenon
<1>4. CASE ~WholeBody(o)
  <2>1. Goes(o, "failed")
    BY <1>4, Zenon DEF Check
  <2>. QED  BY <1>1, <1>2, <2>1, FailsSafe, Zenon
<1>. QED  BY <1>3, <1>4, Zenon

LEMMA SyncSafe ==
  ASSUME ListInv, DataInv, NEW o \in Ops, Sync(o)
  PROVE  ListInv' /\ DataInv'
<1>1. /\ "finish" \in Steps /\ "finish" \notin {"idle", "start", "over", "write"}
      /\ "finish" \notin Making
  BY DEF Steps, Making
<1>2. /\ Goes(o, "finish") /\ op[o].at \notin {"idle", "over"}
      /\ UNCHANGED <<entries, kept, written>>
  BY Zenon DEF Sync, listing
<1>. QED  BY <1>1, <1>2, GoesOn, Zenon

LEMMA LookSafe ==
  ASSUME ListInv, DataInv, NEW o \in Ops, Look(o)
  PROVE  ListInv' /\ DataInv'
<1>. DEFINE s == entries[op[o].from]
<1>0. op[o] \in Op /\ "act" \in Steps
  BY Zenon DEF ListInv, Steps
<1>1. /\ op[o].at = "start" /\ Aimed(op[o]) /\ UNCHANGED <<entries, kept, written>>
  BY Zenon DEF ListInv, Look, listing
<1>2. op[o].from \in Places /\ op[o].to \in Places
  <2>1. "start" \notin {"idle", "over"}
    OBVIOUS
  <2>. QED  BY <1>1, <2>1, Zenon DEF Aimed
<1>3. CASE Free(op[o].from)
  <2>1. Goes(o, "failed") /\ op[o].at \notin {"idle", "over"}
    BY <1>1, <1>3, Zenon DEF Look, Goes
  <2>. QED  BY <1>1, <2>1, FailsSafe, Zenon
<1>4. CASE ~Free(op[o].from)
  <2>1. s \in Things
    BY <1>2, <1>4, Zenon DEF ListInv, Free
  <2>2. PICK x \in Op : /\ x = [op[o] EXCEPT !.at = "act"] /\ x.at = "act"
                        /\ x.from = op[o].from /\ x.to = op[o].to
    BY <1>0, AtStep, SMT
  <2>3. ASSUME NEW r \in Op
        PROVE  /\ [r EXCEPT !.thing = s] \in Op /\ [r EXCEPT !.thing = s].at = r.at
               /\ [r EXCEPT !.thing = s].from = r.from /\ [r EXCEPT !.thing = s].to = r.to
    <3>. HIDE DEF s
    <3>. QED  BY <2>1, SMT DEF Op
  <2>4. PICK y \in Op : /\ y = [x EXCEPT !.thing = s]
                        /\ y.at = x.at /\ y.from = x.from /\ y.to = x.to
    BY <2>3, Zenon
  <2>5. op' = [op EXCEPT ![o] = y]
    <3>1. y = [op[o] EXCEPT !.at = "act", !.thing = s]
      BY <2>2, <2>4, Zenon
    <3>2. op' = [op EXCEPT ![o] = [op[o] EXCEPT !.at = "act", !.thing = s]]
      BY <1>4, Zenon DEF Look
    <3>. QED  BY <3>1, <3>2, Zenon
  <2>6. /\ "act" \notin {"write", "check"} /\ "act" \notin {"idle", "start"}
        /\ "act" \notin {"link", "sync"} /\ "act" \notin Making
    BY DEF Making
  <2>7. Aimed(y) /\ ~Reading(y) /\ y.at \notin Making
    BY <1>2, <2>2, <2>4, <2>6, Zenon DEF Aimed, Reading
  <2>8. Whole(y, content[y.thing], stamp[y.thing], moments[o])
    BY <2>2, <2>4, <2>6, <2>7, Zenon DEF Whole
  <2>9. /\ content' = [content EXCEPT ![o] = content[o]] /\ content[o] \in Content
        /\ moments' = [moments EXCEPT ![o] = moments[o]] /\ moments[o] \in SUBSET Content
        /\ UNCHANGED <<stamp, writes>>
    BY <1>1, Zenon DEF DataInv, Things, written, files
  <2>10. ListInv'
    BY <1>1, <2>5, <2>7, ListKept, Zenon
  <2>11. DataInv'
    BY <2>5, <2>7, <2>8, <2>9, DataKept, Zenon
  <2>. QED  BY <2>10, <2>11
<1>. QED  BY <1>3, <1>4, Zenon

-----------------------------------------------------------------------------
(* The steps that change what places show. *)

\* A request that has made its thing, or that makes none, syncs.
LEMMA Synced ==
  ASSUME ListInv, DataInv, NEW o \in Ops, Goes(o, "sync"), op[o].at \notin {"idle", "over"},
         op[o].kind \in {"upload", "copy"} => op[o].data \in moments[o],
         NEW d \in Content, content' = [content EXCEPT ![o] = d],
         op[o].at \in Making \/ d = content[o], UNCHANGED <<stamp, writes, moments>>
  PROVE  /\ DataInv' /\ op' \in [Ops -> Op] /\ op'[o].at \notin Making
         /\ \A x \in Ops : Aimed(op'[x])
         /\ \A x \in Ops : x # o => op'[x] = op[x]
<1>1. op[o] \in Op /\ "sync" \in Steps
  BY Zenon DEF ListInv, Steps
<1>2. PICK y \in Op : /\ y = [op[o] EXCEPT !.at = "sync"] /\ y.at = "sync"
                      /\ y.kind = op[o].kind /\ y.from = op[o].from /\ y.to = op[o].to
                      /\ y.data = op[o].data
  BY <1>1, AtStep, SMT
<1>3. op' = [op EXCEPT ![o] = y] /\ op \in [Ops -> Op] /\ \A x \in Ops : Aimed(op[x])
  BY <1>2, Zenon DEF Goes, ListInv
<1>4. "sync" \notin Making /\ "sync" \notin {"write", "check"} /\ "sync" \notin {"idle", "start"}
  BY DEF Making
<1>5. Aimed(y) /\ ~Reading(y) /\ y.at \notin Making
  BY <1>2, <1>3, <1>4, Zenon DEF Aimed, Reading
<1>6. Whole(y, content[y.thing], stamp[y.thing], moments[o])
  BY <1>2, <1>4, <1>5, Zenon DEF Whole
<1>7. moments' = [moments EXCEPT ![o] = moments[o]] /\ moments[o] \in SUBSET Content
  BY Zenon DEF DataInv
<1>8. DataInv'
  BY <1>3, <1>5, <1>6, <1>7, DataKept, Zenon
<1>. QED  BY <1>3, <1>5, <1>8, Zenon

\* A new thing is shown at a place that is free.
LEMMA Shown ==
  ASSUME ListInv, NEW o \in Ops, NEW p \in Places, Free(p), op[o].at \in Making,
         op' \in [Ops -> Op], op'[o].at \notin Making, \A x \in Ops : Aimed(op'[x]),
         \A x \in Ops : x # o => op'[x] = op[x],
         entries' = [entries EXCEPT ![p] = o], kept' = kept \cup {o}
  PROVE  ListInv'
<1>1. /\ entries \in [Places -> Things \cup {Nothing}] /\ o \in Things /\ o # Nothing
      /\ \A q \in Places : entries[q] # o
      /\ entries[p] = Nothing
  BY FilesBounds, Zenon DEF ListInv, Things, Free
<1>2. /\ entries' \in [Places -> Things \cup {Nothing}] /\ entries'[p] = o
      /\ \A q \in Places : q # p => entries'[q] = entries[q]
  BY <1>1, Zenon
<1>3. \A x \in Ops, q \in Places : op'[x].at \in Making => entries'[q] # x
  BY <1>2, Zenon DEF ListInv
<1>4. kept' = {entries'[q] : q \in Places} \ {Nothing}
  <2>1. kept = {entries[q] : q \in Places} \ {Nothing}
    BY Zenon DEF ListInv, NothingIsLost
  <2>2. ASSUME NEW x PROVE x \in kept' <=> x \in {entries'[q] : q \in Places} \ {Nothing}
    BY <1>1, <1>2, <2>1, SMT
  <2>. QED  BY <2>2, Zenon
<1>5. ASSUME NEW q \in Places, NEW r \in Places, entries'[q] = entries'[r], q # r
      PROVE  entries'[q] = Nothing
  BY <1>1, <1>2, <1>5, Zenon DEF ListInv, NothingIsLost, Free
<1>6. NothingIsLost'
  BY <1>4, <1>5, Zenon DEF NothingIsLost, Free
<1>. QED  BY <1>2, <1>3, <1>6, Zenon DEF ListInv

LEMMA LinkSafe ==
  ASSUME ListInv, DataInv, NEW o \in Ops, Link(o)
  PROVE  ListInv' /\ DataInv'
<1>1. /\ op[o] \in Op /\ op[o].at = "link" /\ Aimed(op[o])
      /\ Whole(op[o], content[op[o].thing], stamp[op[o].thing], moments[o])
      /\ UNCHANGED <<stamp, moments, writes>>
  BY Zenon DEF ListInv, DataInv, Link
<1>2. /\ op[o].at \in Making /\ op[o].at \notin {"idle", "over"} /\ op[o].to \in Places
      /\ op[o].data \in Content
      /\ op[o].kind \in {"upload", "copy"} => op[o].data \in moments[o]
  <2>1. "link" \in Making /\ "link" \notin {"idle", "over"} /\ "link" \in {"link", "sync"}
    BY DEF Making
  <2>. QED  BY <1>1, <2>1, RequestFields, Zenon DEF Aimed, Whole
<1>3. CASE Free(op[o].to)
  <2>1. /\ Goes(o, "sync") /\ entries' = [entries EXCEPT ![op[o].to] = o]
        /\ content' = [content EXCEPT ![o] = op[o].data] /\ kept' = kept \cup {o}
    BY <1>3, Zenon DEF Link
  <2>2. /\ DataInv' /\ op' \in [Ops -> Op] /\ op'[o].at \notin Making
        /\ \A x \in Ops : Aimed(op'[x])
        /\ \A x \in Ops : x # o => op'[x] = op[x]
    BY <1>1, <1>2, <2>1, Synced, Zenon
  <2>. QED  BY <1>2, <1>3, <2>1, <2>2, Shown, Zenon
<1>4. CASE ~Free(op[o].to)
  <2>1. Goes(o, "failed") /\ UNCHANGED <<entries, kept, written>>
    BY <1>1, <1>4, Zenon DEF Link, written, files
  <2>. QED  BY <1>2, <2>1, FailsSafe, Zenon
<1>. QED  BY <1>3, <1>4, Zenon

LEMMA MakeDirectorySafe ==
  ASSUME ListInv, DataInv, NEW o \in Ops, MakeDirectory(o)
  PROVE  ListInv' /\ DataInv'
<1>1. /\ op[o] \in Op /\ op[o].at = "start" /\ op[o].kind = "mkdir" /\ Aimed(op[o])
      /\ UNCHANGED written
  BY Zenon DEF ListInv, MakeDirectory, At
<1>2. /\ op[o].at \in Making /\ op[o].at \notin {"idle", "over"} /\ op[o].to \in Places
      /\ op[o].kind \notin {"upload", "copy"}
  <2>1. "start" \in Making /\ "start" \notin {"idle", "over"} /\ "mkdir" \notin {"upload", "copy"}
    BY DEF Making
  <2>. QED  BY <1>1, <2>1, Zenon DEF Aimed
<1>3. CASE Free(op[o].to)
  <2>1. /\ Goes(o, "sync") /\ entries' = [entries EXCEPT ![op[o].to] = o] /\ kept' = kept \cup {o}
    BY <1>3, Zenon DEF MakeDirectory
  <2>2. /\ content' = [content EXCEPT ![o] = content[o]] /\ content[o] \in Content
        /\ UNCHANGED <<stamp, writes, moments>>
    BY <1>1, Zenon DEF DataInv, Things, written, files
  <2>3. /\ DataInv' /\ op' \in [Ops -> Op] /\ op'[o].at \notin Making
        /\ \A x \in Ops : Aimed(op'[x])
        /\ \A x \in Ops : x # o => op'[x] = op[x]
    BY <1>2, <2>1, <2>2, Synced, Zenon
  <2>. QED  BY <1>2, <1>3, <2>1, <2>3, Shown, Zenon
<1>4. CASE ~Free(op[o].to)
  <2>1. Goes(o, "failed") /\ UNCHANGED <<entries, kept, written>>
    BY <1>1, <1>4, Zenon DEF MakeDirectory, listing
  <2>. QED  BY <1>2, <2>1, FailsSafe, Zenon
<1>. QED  BY <1>3, <1>4, Zenon

\* Another place shows what the first showed, or nothing shows it any more.
LEMMA MoveSafe ==
  ASSUME ListInv, DataInv, NEW o \in Ops, Move(o)
  PROVE  ListInv' /\ DataInv'
<1>. DEFINE s == entries[op[o].from]
<1>1. /\ op[o] \in Op /\ op[o].at = "act" /\ op[o].kind = "move" /\ Aimed(op[o])
      /\ UNCHANGED <<kept, written>>
  BY Zenon DEF ListInv, Move, At
<1>2. /\ op[o].at \notin {"idle", "over"} /\ op[o].to \in Places /\ op[o].from \in Places
      /\ op[o].kind \notin {"upload", "copy"}
  <2>1. "act" \notin {"idle", "over"} /\ "move" \notin {"upload", "copy"}
    OBVIOUS
  <2>. QED  BY <1>1, <2>1, Zenon DEF Aimed
<1>3. CASE s # Nothing /\ Free(op[o].to)
  <2>1. /\ Goes(o, "sync")
        /\ entries' = [entries EXCEPT ![op[o].from] = Nothing, ![op[o].to] = s]
    BY <1>3, Zenon DEF Move
  <2>2. /\ content' = [content EXCEPT ![o] = content[o]] /\ content[o] \in Content
        /\ UNCHANGED <<stamp, writes, moments>>
    BY <1>1, Zenon DEF DataInv, Things, written, files
  <2>3. /\ DataInv' /\ op' \in [Ops -> Op] /\ op'[o].at \notin Making
        /\ \A x \in Ops : Aimed(op'[x])
        /\ \A x \in Ops : x # o => op'[x] = op[x]
    BY <1>2, <2>1, <2>2, Synced, Zenon
  <2>4. PICK p \in Places, q \in Places : p = op[o].from /\ q = op[o].to
    BY <1>2, Zenon
  <2>5. /\ entries \in [Places -> Things \cup {Nothing}] /\ entries[q] = Nothing
        /\ entries[p] \in Things /\ entries[p] # Nothing /\ p # q
    BY <1>3, <2>4, Zenon DEF ListInv, Free
  <2>6. /\ entries' \in [Places -> Things \cup {Nothing}]
        /\ entries'[p] = Nothing /\ entries'[q] = entries[p]
        /\ \A r \in Places : r # p /\ r # q => entries'[r] = entries[r]
    BY <2>1, <2>4, <2>5, Zenon
  <2>7. \A x \in Ops, r \in Places : op'[x].at \in Making => entries'[r] # x
    <3>1. Nothing \notin Ops
      BY FilesBounds, Zenon DEF Things
    <3>2. ASSUME NEW x \in Ops, NEW r \in Places, op'[x].at \in Making PROVE entries'[r] # x
      <4>1. op[x].at \in Making
        BY <2>3, <3>2, Zenon
      <4>2. \A t \in Places : entries[t] # x
        BY <4>1, Zenon DEF ListInv
      <4>. QED  BY <2>6, <3>1, <4>2, Zenon
    <3>. QED  BY <3>2
  <2>8. kept' = {entries'[r] : r \in Places} \ {Nothing}
    <3>1. kept = {entries[r] : r \in Places} \ {Nothing} /\ kept' = kept
      BY <1>1, Zenon DEF ListInv, NothingIsLost
    <3>2. ASSUME NEW x PROVE x \in kept <=> x \in {entries'[r] : r \in Places} \ {Nothing}
      BY <2>5, <2>6, <3>1, SMT
    <3>. QED  BY <3>1, <3>2, Zenon
  <2>9. ASSUME NEW r \in Places, NEW t \in Places, entries'[r] = entries'[t], r # t
        PROVE  entries'[r] = Nothing
    <3>1. \A u, v \in Places : entries[u] = entries[v] /\ u # v => entries[u] = Nothing
      BY Zenon DEF ListInv, NothingIsLost, Free
    <3>. QED  BY <2>5, <2>6, <2>9, <3>1, Zenon
  <2>10. NothingIsLost'
    BY <2>8, <2>9, Zenon DEF NothingIsLost, Free
  <2>11. ListInv'
    BY <2>3, <2>6, <2>7, <2>10, Zenon DEF ListInv
  <2>. QED  BY <2>3, <2>11
<1>4. CASE ~(s # Nothing /\ Free(op[o].to))
  <2>1. Goes(o, "failed") /\ UNCHANGED <<entries, kept, written>>
    BY <1>1, <1>4, Zenon DEF Move
  <2>. QED  BY <1>2, <2>1, FailsSafe, Zenon
<1>. QED  BY <1>3, <1>4, Zenon

LEMMA UnlinkSafe ==
  ASSUME ListInv, DataInv, NEW o \in Ops, Unlink(o)
  PROVE  ListInv' /\ DataInv'
<1>. DEFINE s == entries[op[o].from]
            Removes == s # Nothing /\ (s \in dirs <=> op[o].thing \in dirs)
<1>1. /\ op[o] \in Op /\ op[o].at = "act" /\ op[o].kind = "delete" /\ Aimed(op[o])
      /\ UNCHANGED written
  BY Zenon DEF ListInv, Unlink, At
<1>2. /\ op[o].at \notin {"idle", "over"} /\ op[o].from \in Places
      /\ op[o].kind \notin {"upload", "copy"}
  <2>1. "act" \notin {"idle", "over"} /\ "delete" \notin {"upload", "copy"}
    OBVIOUS
  <2>. QED  BY <1>1, <2>1, Zenon DEF Aimed
<1>3. CASE Removes
  <2>1. /\ Goes(o, "sync") /\ entries' = [entries EXCEPT ![op[o].from] = Nothing]
        /\ kept' = kept \ {s}
    BY <1>3, Zenon DEF Unlink
  <2>2. /\ content' = [content EXCEPT ![o] = content[o]] /\ content[o] \in Content
        /\ UNCHANGED <<stamp, writes, moments>>
    BY <1>1, Zenon DEF DataInv, Things, written, files
  <2>3. /\ DataInv' /\ op' \in [Ops -> Op] /\ op'[o].at \notin Making
        /\ \A x \in Ops : Aimed(op'[x])
        /\ \A x \in Ops : x # o => op'[x] = op[x]
    BY <1>2, <2>1, <2>2, Synced, Zenon
  <2>4. PICK p \in Places : p = op[o].from
    BY <1>2, Zenon
  <2>5. /\ entries \in [Places -> Things \cup {Nothing}] /\ entries[p] # Nothing
        /\ \A u, v \in Places : entries[u] = entries[v] /\ u # v => entries[u] = Nothing
        /\ kept = {entries[r] : r \in Places} \ {Nothing} /\ kept' = kept \ {entries[p]}
    BY <1>3, <2>1, <2>4, Zenon DEF ListInv, NothingIsLost, Free
  <2>6. /\ entries' \in [Places -> Things \cup {Nothing}] /\ entries'[p] = Nothing
        /\ \A r \in Places : r # p => entries'[r] = entries[r]
    BY <2>1, <2>4, <2>5, Zenon
  <2>7. ASSUME NEW x \in Ops, NEW r \in Places, op'[x].at \in Making PROVE entries'[r] # x
    <3>1. Nothing \notin Ops
      BY FilesBounds, Zenon DEF Things
    <3>2. op[x].at \in Making
      BY <2>3, <2>7, Zenon
    <3>3. \A t \in Places : entries[t] # x
      BY <3>2, Zenon DEF ListInv
    <3>. QED  BY <2>6, <3>1, <3>3, Zenon
  <2>8. kept' = {entries'[r] : r \in Places} \ {Nothing}
    <3>1. ASSUME NEW x PROVE x \in kept' <=> x \in {entries'[r] : r \in Places} \ {Nothing}
      BY <2>5, <2>6, SMT
    <3>. QED  BY <3>1, Zenon
  <2>9. NothingIsLost'
    <3>1. \A u, v \in Places : entries'[u] = entries'[v] /\ u # v => entries'[u] = Nothing
      BY <2>5, <2>6, Zenon
    <3>. QED  BY <2>8, <3>1, Zenon DEF NothingIsLost, Free
  <2>10. ListInv'
    BY <2>3, <2>6, <2>7, <2>9, Zenon DEF ListInv
  <2>. QED  BY <2>3, <2>10
<1>4. CASE ~Removes
  <2>1. Goes(o, "failed") /\ UNCHANGED <<entries, kept, written>>
    BY <1>1, <1>4, Zenon DEF Unlink
  <2>. QED  BY <1>2, <2>1, FailsSafe, Zenon
<1>. QED  BY <1>3, <1>4, Zenon

-----------------------------------------------------------------------------
(* A program of the server writes. *)

LEMMA SameList ==
  ASSUME ListInv, UNCHANGED <<entries, kept, op>>
  PROVE  ListInv'
BY Zenon DEF ListInv, NothingIsLost, Free

LEMMA WriteSafe ==
  ASSUME ListInv, DataInv, NEW p \in Places, NEW i \in 1..2, Write(p, i)
  PROVE  ListInv' /\ DataInv'
<1>1. /\ writes < MaxWrites /\ writes' = writes + 1 /\ UNCHANGED <<entries, kept, op>>
      /\ writes \in 0..MaxWrites
  BY Zenon DEF Write, listing, DataInv
<1>2. PICK f \in Things :
        /\ content' = [content EXCEPT ![f][i] = writes + 1]
        /\ stamp' = [stamp EXCEPT ![f] = writes + 1]
        /\ moments' = [o \in Ops |-> IF op[o].thing = f THEN moments[o] \cup {content'[f]}
                                     ELSE moments[o]]
  <2>1. entries[p] \in Things
    BY Zenon DEF Write, ListInv
  <2>. QED  BY <2>1, Zenon DEF Write
<1>3. writes' \in 0..MaxWrites /\ writes + 1 \in Chunks /\ writes <= writes'
  BY <1>1, FilesBounds, SMT DEF Chunks
<1>4. /\ content \in [Things -> Content] /\ stamp \in [Things -> 0..MaxWrites]
      /\ moments \in [Ops -> SUBSET Content] /\ \A x \in Things : stamp[x] <= writes
  BY Zenon DEF DataInv
<1>5. [content[f] EXCEPT ![i] = writes + 1] \in Content
  BY <1>2, <1>3, <1>4, WriteToContent, Zenon
<1>6. /\ content' \in [Things -> Content] /\ content'[f] \in Content
      /\ \A x \in Things : x # f => content'[x] = content[x]
  BY <1>2, <1>4, <1>5, Zenon
<1>7. stamp' \in [Things -> 0..MaxWrites] /\ stamp'[f] = writes + 1
      /\ \A x \in Things : x # f => stamp'[x] = stamp[x]
  BY <1>1, <1>2, <1>3, <1>4, Zenon
<1>8. ASSUME NEW x \in Things PROVE stamp'[x] <= writes'
  <2>1. stamp[x] \in 0..MaxWrites /\ stamp[x] <= writes
    BY <1>4, Zenon
  <2>2. CASE x = f
    BY <1>1, <1>7, <2>2, SMT
  <2>3. CASE x # f
    <3>1. stamp'[x] = stamp[x]
      BY <1>7, <2>3, Zenon
    <3>. QED  BY <1>1, <2>1, <3>1, SMT
  <2>. QED  BY <2>2, <2>3
<1>9. /\ moments' \in [Ops -> SUBSET Content]
      /\ \A o \in Ops : moments[o] \subseteq moments'[o]
  <2>1. ASSUME NEW o \in Ops PROVE moments'[o] \in SUBSET Content /\ moments[o] \subseteq moments'[o]
    <3>1. moments'[o] = IF op[o].thing = f THEN moments[o] \cup {content'[f]} ELSE moments[o]
      BY <1>2, Zenon
    <3>. QED  BY <1>4, <1>6, <3>1, Zenon
  <2>2. DOMAIN moments' = Ops /\ moments' = [o \in Ops |-> moments'[o]]
    BY <1>2, Zenon
  <2>. QED  BY <2>1, <2>2, Zenon
<1>10. ASSUME NEW o \in Ops
       PROVE  Whole(op'[o], content'[op'[o].thing], stamp'[op'[o].thing], moments'[o])
  <2>1. /\ Whole(op[o], content[op[o].thing], stamp[op[o].thing], moments[o])
        /\ op'[o] = op[o] /\ moments[o] \subseteq moments'[o]
    BY <1>1, <1>9, Zenon DEF DataInv
  <2>2. ASSUME Reading(op[o])
        PROVE  /\ op[o].stamp <= stamp'[op[o].thing]
               /\ stamp'[op[o].thing] = op[o].stamp
                    => Copied(op[o], content'[op[o].thing], moments'[o])
    <3>1. /\ op[o].thing \in Things /\ op[o].stamp <= stamp[op[o].thing]
          /\ stamp[op[o].thing] = op[o].stamp => Copied(op[o], content[op[o].thing], moments[o])
      BY <2>1, <2>2, Zenon DEF DataInv, Whole
    <3>2. CASE op[o].thing = f
      <4>1. op[o] \in Op /\ stamp[f] \in 0..MaxWrites /\ stamp[f] <= writes
        BY <1>4, Zenon DEF ListInv
      <4>2. op[o].stamp \in 0..MaxWrites
        BY <4>1, RequestFields, Zenon
      <4>3. op[o].stamp <= stamp[f]
        BY <3>1, <3>2
      <4>4. op[o].stamp <= writes + 1 /\ op[o].stamp # writes + 1
        BY <1>1, <4>1, <4>2, <4>3, SMT
      <4>. QED  BY <1>7, <3>2, <4>4, Zenon
    <3>3. CASE op[o].thing # f
      <4>1. stamp'[op[o].thing] = stamp[op[o].thing]
            /\ content'[op[o].thing] = content[op[o].thing]
        BY <1>6, <1>7, <3>1, <3>3, Zenon
      <4>2. Copied(op[o], content[op[o].thing], moments[o])
              => Copied(op[o], content[op[o].thing], moments'[o])
        BY <2>1, Zenon DEF Copied
      <4>. QED  BY <3>1, <4>1, <4>2, Zenon
    <3>. QED  BY <3>2, <3>3
  <2>. QED  BY <2>1, <2>2, Zenon DEF Whole
<1>11. \A o \in Ops : Reading(op'[o]) =>
         /\ op'[o].thing \in Things
         /\ \A q \in Ops : q = op'[o].thing => op'[q].at \notin Making
  BY <1>1, Zenon DEF DataInv
<1>12. DataInv'
  BY <1>3, <1>6, <1>7, <1>8, <1>9, <1>10, <1>11, Zenon DEF DataInv
<1>13. ListInv'
  BY <1>1, SameList, Zenon
<1>. QED  BY <1>12, <1>13

\* A program's file is shown at a name that was free.
LEMMA CreateSafe ==
  ASSUME ListInv, DataInv, NEW p \in Places, Create(p)
  PROVE  ListInv' /\ DataInv'
<1>1. /\ entries \in [Places -> Things \cup {Nothing}] /\ p \in Things /\ p # Nothing
      /\ entries[p] = Nothing /\ p \notin Ops /\ p \notin kept
      /\ entries' = [entries EXCEPT ![p] = p] /\ kept' = kept \cup {p}
      /\ writes < MaxWrites /\ writes' = writes + 1
      /\ UNCHANGED <<op, content, stamp, moments>>
  BY FilesBounds, Zenon DEF ListInv, Things, Create
<1>2. /\ entries' \in [Places -> Things \cup {Nothing}] /\ entries'[p] = p
      /\ \A q \in Places : q # p => entries'[q] = entries[q]
  BY <1>1, Zenon
<1>3. kept = {entries[q] : q \in Places} \ {Nothing}
  BY Zenon DEF ListInv, NothingIsLost
<1>4. \A q \in Places : entries[q] # p
  BY <1>1, <1>3, Zenon
<1>5. kept' = {entries'[q] : q \in Places} \ {Nothing}
  <2>1. ASSUME NEW x PROVE x \in kept' <=> x \in {entries'[q] : q \in Places} \ {Nothing}
    BY <1>1, <1>2, <1>3, SMT
  <2>. QED  BY <2>1, Zenon
<1>6. ASSUME NEW q \in Places, NEW r \in Places, entries'[q] = entries'[r], q # r
      PROVE  entries'[q] = Nothing
  BY <1>1, <1>2, <1>4, <1>6, Zenon DEF ListInv, NothingIsLost, Free
<1>7. NothingIsLost'
  BY <1>5, <1>6, Zenon DEF NothingIsLost, Free
<1>8. op' \in [Ops -> Op] /\ \A x \in Ops : Aimed(op'[x])
  BY <1>1, Zenon DEF ListInv
<1>9. \A x \in Ops, q \in Places : op'[x].at \in Making => entries'[q] # x
  BY <1>1, <1>2, Zenon DEF ListInv
<1>10. ListInv'
  BY <1>2, <1>7, <1>8, <1>9, Zenon DEF ListInv
<1>11. writes' \in 0..MaxWrites /\ \A n \in 0..MaxWrites : n <= writes => n <= writes'
  <2>1. writes \in 0..MaxWrites
    BY Zenon DEF DataInv
  <2>. QED  BY <1>1, <2>1, FilesBounds, SMT
<1>12. \A x \in Things : stamp'[x] <= writes'
  BY <1>1, <1>11, Zenon DEF DataInv
<1>13. DataInv'
  BY <1>1, <1>11, <1>12, Zenon DEF DataInv
<1>. QED  BY <1>10, <1>13

LEMMA InitFiles == FilesInit => ListInv /\ DataInv
<1>. SUFFICES ASSUME FilesInit PROVE ListInv /\ DataInv
  OBVIOUS
<1>1. NoRequest \in Op /\ NoRequest.at = "idle" /\ NoRequest.data = <<>>
  BY FilesBounds, SMT DEF NoRequest, Op, Kinds, Content
<1>2. op \in [Ops -> Op] /\ \A o \in Ops : op[o] = NoRequest
  BY <1>1, Zenon DEF FilesInit
<1>3. /\ entries \in [Places -> Things \cup {Nothing}]
      /\ \A p \in Places : entries[p] = p \/ entries[p] = Nothing
  BY Zenon DEF FilesInit, Things
<1>4. NothingIsLost
  <2>1. kept = {p \in Places : entries[p] = p}
    BY Zenon DEF FilesInit
  <2>2. \A p \in Places : p # Nothing
    BY FilesBounds, Zenon DEF Things
  <2>3. kept = {entries[p] : p \in Places} \ {Nothing}
    <3>1. ASSUME NEW x PROVE x \in kept <=> x \in {entries[p] : p \in Places} \ {Nothing}
      BY <1>3, <2>1, <2>2, SMT
    <3>. QED  BY <3>1, Zenon
  <2>4. \A p, q \in Places : entries[p] = entries[q] /\ p # q => entries[p] = Nothing
    BY <1>3, Zenon
  <2>. QED  BY <2>3, <2>4, Zenon DEF NothingIsLost, Free
<1>5. \A o \in Ops, p \in Places : entries[p] # o
  BY <1>3, FilesBounds, Zenon DEF Things
<1>6. ListInv
  BY <1>1, <1>2, <1>3, <1>4, <1>5, Zenon DEF ListInv, Aimed
<1>7. "idle" \notin {"write", "check"} /\ "idle" \notin {"link", "sync"}
  OBVIOUS
<1>8. content \in [Things -> Content]
  <2>1. <<0, 0>> \in Content /\ <<>> \in Content
    BY FilesBounds, SMT DEF Content, Chunks
  <2>. QED  BY <2>1, Zenon DEF FilesInit
<1>9. /\ stamp \in [Things -> 0..MaxWrites] /\ \A x \in Things : stamp[x] <= writes
      /\ writes \in 0..MaxWrites
  BY FilesBounds, SMT DEF FilesInit
<1>10. moments \in [Ops -> SUBSET Content]
  BY Zenon DEF FilesInit
<1>11. \A o \in Ops : ~Reading(op[o])
                      /\ Whole(op[o], content[op[o].thing], stamp[op[o].thing], moments[o])
  BY <1>1, <1>2, <1>7, Zenon DEF Reading, Whole
<1>12. DataInv
  BY <1>8, <1>9, <1>10, <1>11, Zenon DEF DataInv
<1>. QED  BY <1>6, <1>12

LEMMA FilesStep ==
  ASSUME ListInv, DataInv, [FilesNext]_filesVars
  PROVE  ListInv' /\ DataInv'
<1>1. CASE UNCHANGED filesVars
  <2>1. UNCHANGED <<entries, kept, op, content, stamp, moments, writes>>
    BY <1>1, Zenon DEF filesVars
  <2>2. ListInv'
    BY <2>1, SameList, Zenon
  <2>3. DataInv'
    BY <2>1, Zenon DEF DataInv
  <2>. QED  BY <2>2, <2>3
<1>2. ASSUME NEW p \in Places, Create(p) \/ \E i \in 1..2 : Write(p, i)
      PROVE  ListInv' /\ DataInv'
  BY <1>2, CreateSafe, WriteSafe, Zenon
<1>3. ASSUME NEW o \in Ops,
             \/ \E kind \in Kinds, p, q \in Places, n \in 0..2 : Request(o, kind, p, q, n)
             \/ \E row \in {"none", "denied"} : Refuse(o, row)
             \/ \E status \in {"success", "failed", "denied"} : FinishOperation(o, status)
             \/ FinishUnsaved(o) \/ Fault(o) \/ Dies(o)
      PROVE  ListInv' /\ DataInv'
  BY <1>3, RequestSafe, EndingSafe, FaultSafe, Zenon
<1>4. ASSUME NEW o \in Ops,
             \/ UploadStart(o) \/ UploadChunk(o) \/ CopyStart(o) \/ CopyChunk(o)
             \/ Check(o) \/ Link(o) \/ Sync(o)
      PROVE  ListInv' /\ DataInv'
  BY <1>4, UploadStartSafe, UploadChunkSafe, CopyStartSafe, CopyChunkSafe, CheckSafe, LinkSafe,
     SyncSafe, Zenon
<1>5. ASSUME NEW o \in Ops, Look(o) \/ Move(o) \/ Unlink(o) \/ MakeDirectory(o)
      PROVE  ListInv' /\ DataInv'
  BY <1>5, LookSafe, MoveSafe, UnlinkSafe, MakeDirectorySafe, Zenon
<1>. QED  BY <1>1, <1>2, <1>3, <1>4, <1>5, Zenon DEF FilesNext

\* No upload, copy, move or new directory takes the place of a thing that is shown, for
\* any number of requests and places and any interleaving of them with failures.
THEOREM NoSilentOverwrite == FilesSpec => []NothingIsLost
<1>1. ListInv /\ DataInv /\ [FilesNext]_filesVars => ListInv' /\ DataInv'
  BY FilesStep, Zenon
<1>2. ListInv => NothingIsLost
  BY DEF ListInv
<1>. QED  BY <1>1, <1>2, InitFiles, PTL DEF FilesSpec

\* What an upload or a copy shows is whole: for a copy, what the source was at a moment.
THEOREM NoPartIsShown == FilesSpec => []PublishedIsWhole
<1>1. ListInv /\ DataInv /\ [FilesNext]_filesVars => ListInv' /\ DataInv'
  BY FilesStep, Zenon
<1>2. DataInv => PublishedIsWhole
  <2>1. "sync" \in {"link", "sync"}
    OBVIOUS
  <2>. QED  BY <2>1, Zenon DEF DataInv, Whole, PublishedIsWhole
<1>. QED  BY <1>1, <1>2, InitFiles, PTL DEF FilesSpec

\* What of the requests only the page and its history tell.
Outcomes == {"none", "started", "success", "failed", "denied"}

FilesWithin ==
  /\ dirs \subseteq Things /\ temp \subseteq Ops /\ changed \subseteq Ops
  /\ audit \in [Ops -> Outcomes] /\ fileFaults \in 0..MaxFileFaults

\* A request under way has its row, and one without a row has done nothing.
Audited ==
  \A o \in Ops :
    /\ op[o].at = "idle" => o \notin temp \cup changed
    /\ audit[o] = "none" => op[o].at \in {"idle", "over"} /\ o \notin temp \cup changed

\* What a request may do of them: it fails once more at most, and changes only its
\* own row of the audit.
Touches(o) ==
  /\ dirs' = dirs \/ dirs' = dirs \cup {o}
  /\ temp' = temp \/ temp' = temp \cup {o} \/ temp' = temp \ {o}
  /\ changed' = changed \/ changed' = changed \cup {o}
  /\ audit' = audit \/ \E s \in Outcomes : audit' = [audit EXCEPT ![o] = s]
  /\ fileFaults' = fileFaults \/ (fileFaults < MaxFileFaults /\ fileFaults' = fileFaults + 1)

\* It is at work already, or it begins or ends with its row and nothing else.
Recorded(o) ==
  /\ op'[o].at # "idle" /\ \A x \in Ops : x # o => op'[x] = op[x]
  /\ \/ op[o].at \notin {"idle", "over"} /\ audit'[o] \in {audit[o], "success", "failed", "denied"}
     \/ /\ op[o].at = "idle" /\ UNCHANGED <<temp, changed>>
        /\ audit'[o] = "started" \/ (op'[o].at = "over" /\ audit'[o] \in Outcomes)

LEMMA TouchesWithin ==
  ASSUME FilesWithin, NEW o \in Ops, Touches(o)
  PROVE  FilesWithin'
<1>1. o \in Things
  BY Zenon DEF Things
<1>2. dirs' \subseteq Things /\ temp' \subseteq Ops /\ changed' \subseteq Ops
  BY <1>1, Zenon DEF FilesWithin, Touches
<1>3. audit' \in [Ops -> Outcomes]
  <2>1. CASE audit' = audit
    BY <2>1, Zenon DEF FilesWithin
  <2>2. ASSUME NEW s \in Outcomes, audit' = [audit EXCEPT ![o] = s]
        PROVE  audit' \in [Ops -> Outcomes]
    <3>1. audit \in [Ops -> Outcomes]
      BY Zenon DEF FilesWithin
    <3>. QED  BY <2>2, <3>1, Zenon
  <2>. QED  BY <2>1, <2>2, Zenon DEF Touches
<1>4. fileFaults' \in 0..MaxFileFaults
  <2>1. fileFaults \in 0..MaxFileFaults /\ MaxFileFaults \in Nat
    BY FilesBounds, Zenon DEF FilesWithin
  <2>2. fileFaults' = fileFaults \/ (fileFaults < MaxFileFaults /\ fileFaults' = fileFaults + 1)
    BY Zenon DEF Touches
  <2>. QED  BY <2>1, <2>2, SMT
<1>. QED  BY <1>2, <1>3, <1>4, Zenon DEF FilesWithin

LEMMA RecordedAudits ==
  ASSUME ListInv, FilesWithin, Audited, NEW o \in Ops, Touches(o), Recorded(o)
  PROVE  Audited'
<1>2. op \in [Ops -> Op] /\ audit \in [Ops -> Outcomes]
  BY Zenon DEF ListInv, FilesWithin
<1>3. op'[o].at # "idle" /\ \A x \in Ops : x # o => op'[x] = op[x]
  BY Zenon DEF Recorded
<1>4. \A x \in Ops : x # o => audit'[x] = audit[x]
  BY <1>2, Zenon DEF Touches
<1>5. \A x \in Ops : x # o => (x \in temp' \cup changed' <=> x \in temp \cup changed)
  BY Zenon DEF Touches
<1>6. audit'[o] = "none" => op'[o].at = "over" /\ o \notin temp' \cup changed'
  <2>1. CASE op[o].at \notin {"idle", "over"}
    <3>1. audit[o] # "none" /\ audit'[o] \in {audit[o], "success", "failed", "denied"}
      BY <2>1, Zenon DEF Audited, Recorded
    <3>. QED  BY <3>1, Zenon
  <2>2. CASE op[o].at = "idle"
    <3>1. o \notin temp' \cup changed' /\ (audit'[o] = "started" \/ op'[o].at = "over")
      BY <2>2, Zenon DEF Audited, Recorded
    <3>. QED  BY <3>1, Zenon
  <2>. QED  BY <2>1, <2>2, Zenon DEF Recorded
<1>7. ASSUME NEW x \in Ops
      PROVE  /\ op'[x].at = "idle" => x \notin temp' \cup changed'
             /\ audit'[x] = "none" => op'[x].at \in {"idle", "over"} /\ x \notin temp' \cup changed'
  <2>1. CASE x = o
    BY <1>3, <1>6, <2>1, Zenon
  <2>2. CASE x # o
    BY <1>3, <1>4, <1>5, <2>2, Zenon DEF Audited
  <2>. QED  BY <2>1, <2>2, Zenon
<1>. QED  BY <1>7, Zenon DEF Audited

LEMMA GoesAtWork ==
  ASSUME ListInv, NEW o \in Ops, NEW s \in Steps, Goes(o, s), s # "idle",
         op[o].at \notin {"idle", "over"}, audit' = audit
  PROVE  Recorded(o)
<1>1. op \in [Ops -> Op] /\ op[o] \in Op
  BY Zenon DEF ListInv
<1>2. PICK y \in Op : y = [op[o] EXCEPT !.at = s] /\ y.at = s
  BY <1>1, AtStep, SMT
<1>3. op' = [op EXCEPT ![o] = y]
  BY <1>2, Zenon DEF Goes
<1>4. op'[o].at = s /\ \A x \in Ops : x # o => op'[x] = op[x]
  BY <1>1, <1>2, <1>3, Zenon
<1>. QED  BY <1>4, Zenon DEF Recorded

-----------------------------------------------------------------------------
(* What each step does to a request's row and to what it changed. *)

LEMMA RequestRecords ==
  ASSUME ListInv, FilesWithin, NEW o \in Ops, NEW kind \in Kinds, NEW p \in Places,
         NEW q \in Places, NEW n \in 0..2, Request(o, kind, p, q, n)
  PROVE  Touches(o) /\ Recorded(o)
<1>1. op \in [Ops -> Op] /\ audit \in [Ops -> Outcomes]
  BY Zenon DEF ListInv, FilesWithin
<1>2. op'[o].at = "start" /\ \A x \in Ops : x # o => op'[x] = op[x]
  <2>1. op' = [op EXCEPT ![o] = [op[o] EXCEPT !.kind = kind, !.at = "start", !.from = p,
                                              !.to = q, !.body = n]]
    BY Zenon DEF Request
  <2>2. op'[o] = [op[o] EXCEPT !.kind = kind, !.at = "start", !.from = p, !.to = q, !.body = n]
    BY <1>1, <2>1, Zenon
  <2>3. op[o] \in Op
    BY <1>1, Zenon
  <2>4. op'[o].at = "start"
    BY <2>2, <2>3, SMT DEF Op
  <2>. QED  BY <1>1, <2>1, <2>4, Zenon
<1>3. "start" # "idle" /\ "started" \in Outcomes
  BY DEF Outcomes
<1>4. op[o].at = "idle" /\ UNCHANGED <<temp, changed, dirs, fileFaults>>
      /\ audit' = [audit EXCEPT ![o] = "started"]
  BY Zenon DEF Request, listing
<1>5. audit'[o] = "started"
  BY <1>1, <1>4, Zenon
<1>6. Recorded(o)
  BY <1>2, <1>3, <1>4, <1>5, Zenon DEF Recorded
<1>7. Touches(o)
  BY <1>3, <1>4, Zenon DEF Touches
<1>. QED  BY <1>6, <1>7

LEMMA EndRecords ==
  ASSUME ListInv, FilesWithin, NEW o \in Ops,
         \/ \E row \in {"none", "denied"} : Refuse(o, row)
         \/ \E status \in {"success", "failed", "denied"} : FinishOperation(o, status)
         \/ FinishUnsaved(o) \/ Dies(o)
  PROVE  Touches(o) /\ Recorded(o)
<1>1. PICK y \in Op : y.at = "over" /\ op' = [op EXCEPT ![o] = y]
  <2>1. Ends(o)
    BY Zenon DEF Refuse, FinishOperation, FinishUnsaved, Dies
  <2>. QED  BY <2>1, NoRequestIsOp, Zenon DEF Ends
<1>2. audit \in [Ops -> Outcomes] /\ op \in [Ops -> Op]
  BY Zenon DEF ListInv, FilesWithin
<1>3. op'[o].at = "over" /\ "over" # "idle" /\ \A x \in Ops : x # o => op'[x] = op[x]
  BY <1>1, <1>2, Zenon
<1>4. {"none", "success", "failed", "denied"} \subseteq Outcomes
  BY Zenon DEF Outcomes
<1>5. ASSUME NEW row \in {"none", "denied"}, Refuse(o, row)
      PROVE  Touches(o) /\ Recorded(o)
  <2>1. op[o].at = "idle" /\ UNCHANGED <<temp, changed, dirs, fileFaults>>
        /\ audit' = [audit EXCEPT ![o] = row]
    BY <1>5, Zenon DEF Refuse, listing
  <2>2. audit'[o] \in Outcomes /\ row \in Outcomes
    BY <1>2, <1>4, <2>1, Zenon
  <2>3. Touches(o)
    BY <2>1, <2>2, Zenon DEF Touches
  <2>. QED  BY <1>3, <2>1, <2>2, <2>3, Zenon DEF Recorded
<1>6. ASSUME NEW status \in {"success", "failed", "denied"}, FinishOperation(o, status)
      PROVE  Touches(o) /\ Recorded(o)
  <2>1. op[o].at \notin {"idle", "over"}
    BY <1>6, Zenon DEF FinishOperation
  <2>2. UNCHANGED <<changed, dirs, fileFaults>> /\ temp' = temp \ {o}
        /\ audit' = [audit EXCEPT ![o] = status]
    BY <1>6, Zenon DEF FinishOperation, listing
  <2>3. audit'[o] = status /\ status \in Outcomes
    BY <1>2, <1>4, <2>2, Zenon
  <2>4. Touches(o)
    BY <2>2, <2>3, Zenon DEF Touches
  <2>. QED  BY <1>3, <1>6, <2>1, <2>3, <2>4, Zenon DEF Recorded
<1>7. ASSUME FinishUnsaved(o) \/ Dies(o)
      PROVE  Touches(o) /\ Recorded(o)
  <2>1. op[o].at \notin {"idle", "over"}
    BY <1>7, Zenon DEF FinishUnsaved, Dies
  <2>2. Touches(o)
    BY <1>7, Zenon DEF FinishUnsaved, Dies, Touches, listing
  <2>3. audit' = audit
    BY <1>7, Zenon DEF FinishUnsaved, Dies
  <2>. QED  BY <1>3, <2>1, <2>2, <2>3, Zenon DEF Recorded
<1>. QED  BY <1>5, <1>6, <1>7, Zenon

LEMMA FaultRecords ==
  ASSUME ListInv, FilesWithin, NEW o \in Ops, Fault(o)
  PROVE  Touches(o) /\ Recorded(o)
<1>1. Goes(o, "failed") /\ op[o].at \notin {"idle", "over"} /\ audit' = audit
  BY Zenon DEF Fault
<1>2. "failed" \in Steps /\ "failed" # "idle"
  BY DEF Steps
<1>3. Recorded(o)
  BY <1>1, <1>2, GoesAtWork, Zenon
<1>4. Touches(o)
  BY Zenon DEF Fault, Touches, listing
<1>. QED  BY <1>3, <1>4

LEMMA GoingRecords ==
  ASSUME ListInv, FilesWithin, NEW o \in Ops,
         \/ UploadStart(o) \/ Check(o) \/ Link(o) \/ Sync(o)
         \/ Move(o) \/ Unlink(o) \/ MakeDirectory(o)
  PROVE  Touches(o) /\ Recorded(o)
<1>1. /\ {"write", "link", "failed", "sync", "finish"} \subseteq Steps
      /\ "idle" \notin {"write", "link", "failed", "sync", "finish"}
  BY DEF Steps
<1>2. op[o].at \notin {"idle", "over"} /\ audit' = audit
  BY Zenon DEF UploadStart, Check, Link, Sync, Move, Unlink, MakeDirectory, At
<1>3. \E s \in {"write", "link", "failed", "sync", "finish"} : Goes(o, s)
  BY Zenon DEF UploadStart, Check, Link, Sync, Move, Unlink, MakeDirectory
<1>4. Recorded(o)
  BY <1>1, <1>2, <1>3, GoesAtWork, Zenon
<1>5. Touches(o)
  BY Zenon DEF UploadStart, Check, Link, Sync, Move, Unlink, MakeDirectory, Touches, listing
<1>. QED  BY <1>4, <1>5

\* The other fields leave the step that a request is at.
LEMMA StepStays ==
  ASSUME NEW r \in Op
  PROVE  /\ \A x : [r EXCEPT !.data = x].at = r.at
         /\ \A x : [r EXCEPT !.stamp = x].at = r.at
         /\ \A x \in Things : [r EXCEPT !.thing = x] \in Op /\ [r EXCEPT !.thing = x].at = r.at
<1>1. \A x : [r EXCEPT !.data = x].at = r.at
  BY SMT DEF Op
<1>2. \A x : [r EXCEPT !.stamp = x].at = r.at
  BY SMT DEF Op
<1>3. \A x \in Things : [r EXCEPT !.thing = x] \in Op /\ [r EXCEPT !.thing = x].at = r.at
  BY SMT DEF Op
<1>. QED  BY <1>1, <1>2, <1>3, Zenon

LEMMA ReadingRecords ==
  ASSUME ListInv, FilesWithin, NEW o \in Ops,
         UploadChunk(o) \/ CopyStart(o) \/ CopyChunk(o) \/ Look(o)
  PROVE  Touches(o) /\ Recorded(o)
<1>1. /\ op \in [Ops -> Op] /\ op[o] \in Op /\ {"write", "check", "act", "failed"} \subseteq Steps
      /\ "idle" \notin {"write", "check", "act", "failed"}
  BY Zenon DEF ListInv, Steps
<1>2. op[o].at \notin {"idle", "over"} /\ audit' = audit
  BY Zenon DEF UploadChunk, CopyStart, CopyChunk, Look, At
<1>3. Touches(o)
  BY Zenon DEF UploadChunk, CopyStart, CopyChunk, Look, Touches, listing
<1>4. CASE Goes(o, "failed")
  <2>1. Recorded(o)
    BY <1>1, <1>2, <1>4, GoesAtWork, Zenon
  <2>. QED  BY <1>3, <2>1
<1>5. ASSUME op'[o].at # "idle", \A x \in Ops : x # o => op'[x] = op[x]
      PROVE  Touches(o) /\ Recorded(o)
  BY <1>2, <1>3, <1>5, Zenon DEF Recorded
<1>6. ASSUME NEW s \in {"write", "check"}, NEW d, op' = [op EXCEPT ![o].at = s, ![o].data = d]
      PROVE  Touches(o) /\ Recorded(o)
  <2>0. s \in Steps
    BY <1>1, Zenon
  <2>1. PICK x \in Op : x = [op[o] EXCEPT !.at = s] /\ x.at = s
    BY <1>1, <2>0, AtStep, SMT
  <2>2. PICK y : y = [x EXCEPT !.data = d]
    OBVIOUS
  <2>3. y.at \in {"write", "check", "act"}
    BY <2>1, <2>2, StepStays, Zenon
  <2>4. op' = [op EXCEPT ![o] = y]
    BY <1>6, <2>1, <2>2, Zenon
  <2>5. op'[o].at # "idle" /\ \A c \in Ops : c # o => op'[c] = op[c]
    BY <1>1, <2>3, <2>4, Zenon
  <2>. QED  BY <1>5, <2>5
<1>7. ASSUME UploadChunk(o) \/ CopyChunk(o)
      PROVE  Touches(o) /\ Recorded(o)
  <2>1. \E s \in {"write", "check"} : \E d : op' = [op EXCEPT ![o].at = s, ![o].data = d]
    BY <1>7, Zenon DEF UploadChunk, CopyChunk
  <2>2. PICK s \in {"write", "check"} : \E d : op' = [op EXCEPT ![o].at = s, ![o].data = d]
    BY <2>1
  <2>. QED  BY <1>6, <2>2
<1>. DEFINE f == entries[op[o].from]
<1>8. (CopyStart(o) \/ Look(o)) /\ ~Goes(o, "failed") => f \in Things
  <2>1. (CopyStart(o) \/ Look(o)) => op[o].at = "start"
    BY Zenon DEF CopyStart, Look, At
  <2>2. "start" \notin {"idle", "over"}
    OBVIOUS
  <2>3. op[o].at = "start" => op[o].from \in Places
    BY <2>2, Zenon DEF ListInv, Aimed
  <2>4. (CopyStart(o) \/ Look(o)) /\ ~Goes(o, "failed") => f # Nothing
    BY Zenon DEF CopyStart, Look, Free, Goes
  <2>. QED  BY <2>1, <2>3, <2>4, Zenon DEF ListInv
<1>9. ASSUME CopyStart(o), ~Goes(o, "failed")
      PROVE  Touches(o) /\ Recorded(o)
  <2>1. op' = [op EXCEPT ![o].at = "write", ![o].thing = f, ![o].stamp = stamp[f]] /\ f \in Things
    BY <1>8, <1>9, Zenon DEF CopyStart
  <2>. HIDE DEF f
  <2>2. PICK x \in Op : x = [op[o] EXCEPT !.at = "write"] /\ x.at = "write"
    BY <1>1, AtStep, SMT
  <2>3. PICK z \in Op : z = [x EXCEPT !.thing = f] /\ z.at = x.at
    BY <2>1, StepStays, Zenon
  <2>4. PICK y : y = [z EXCEPT !.stamp = stamp[f]]
    OBVIOUS
  <2>5. y.at \in {"write", "check", "act"}
    BY <2>2, <2>3, <2>4, StepStays, Zenon
  <2>6. op' = [op EXCEPT ![o] = y]
    BY <2>1, <2>2, <2>3, <2>4, Zenon
  <2>7. op'[o].at # "idle" /\ \A c \in Ops : c # o => op'[c] = op[c]
    BY <1>1, <2>5, <2>6, Zenon
  <2>. QED  BY <1>5, <2>7
<1>10. ASSUME Look(o), ~Goes(o, "failed")
       PROVE  Touches(o) /\ Recorded(o)
  <2>1. op' = [op EXCEPT ![o].at = "act", ![o].thing = f] /\ f \in Things
    BY <1>8, <1>10, Zenon DEF Look, Goes
  <2>. HIDE DEF f
  <2>2. PICK x \in Op : x = [op[o] EXCEPT !.at = "act"] /\ x.at = "act"
    BY <1>1, AtStep, SMT
  <2>3. PICK y \in Op : y = [x EXCEPT !.thing = f] /\ y.at = x.at
    BY <2>1, StepStays, Zenon
  <2>4. op' = [op EXCEPT ![o] = y]
    BY <2>1, <2>2, <2>3, Zenon
  <2>5. y.at \in {"write", "check", "act"}
    BY <2>2, <2>3, Zenon
  <2>6. op'[o].at # "idle" /\ \A c \in Ops : c # o => op'[c] = op[c]
    BY <1>1, <2>4, <2>5, Zenon
  <2>. QED  BY <1>5, <2>6
<1>. QED  BY <1>4, <1>7, <1>9, <1>10, Zenon

\* The programs of the server leave the requests' rows and what they changed.
LEMMA ProgramsTouch ==
  ASSUME FilesWithin, Audited, NEW p \in Places, Create(p) \/ \E i \in 1..2 : Write(p, i)
  PROVE  FilesWithin' /\ Audited'
<1>1. UNCHANGED <<op, temp, changed, audit, fileFaults>> /\ dirs' \subseteq dirs
  BY Zenon DEF Create, Write, listing
<1>. QED  BY <1>1, Zenon DEF FilesWithin, Audited

LEMMA FilesTouch ==
  ASSUME ListInv, DataInv, FilesWithin, Audited, [FilesNext]_filesVars
  PROVE  FilesWithin' /\ Audited'
<1>1. ASSUME NEW o \in Ops,
             \/ \E kind \in Kinds, p, q \in Places, n \in 0..2 : Request(o, kind, p, q, n)
             \/ \E row \in {"none", "denied"} : Refuse(o, row)
             \/ \E status \in {"success", "failed", "denied"} : FinishOperation(o, status)
             \/ FinishUnsaved(o) \/ Fault(o) \/ Dies(o)
      PROVE  Touches(o) /\ Recorded(o)
  BY <1>1, RequestRecords, EndRecords, FaultRecords, Zenon
<1>2. ASSUME NEW o \in Ops,
             \/ UploadStart(o) \/ UploadChunk(o) \/ CopyStart(o) \/ CopyChunk(o)
             \/ Check(o) \/ Link(o) \/ Sync(o)
             \/ Look(o) \/ Move(o) \/ Unlink(o) \/ MakeDirectory(o)
      PROVE  Touches(o) /\ Recorded(o)
  BY <1>2, GoingRecords, ReadingRecords, Zenon
<1>3. ASSUME NEW o \in Ops, Touches(o), Recorded(o) PROVE FilesWithin' /\ Audited'
  BY <1>3, TouchesWithin, RecordedAudits, Zenon
<1>4. ASSUME NEW p \in Places, Create(p) \/ \E i \in 1..2 : Write(p, i)
      PROVE  FilesWithin' /\ Audited'
  BY <1>4, ProgramsTouch, Zenon
<1>5. CASE UNCHANGED filesVars
  BY <1>5, Zenon DEF filesVars, FilesWithin, Audited
<1>. QED  BY <1>1, <1>2, <1>3, <1>4, <1>5, Zenon DEF FilesNext

\* Whatever fails or dies in the middle of a request: places show things or nothing, and
\* only a request whose row is in the audit has a .part file or changed what a place shows.
THEOREM FilesTypeCorrect == FilesSpec => []FilesTypeOK
<1>1. FilesInit => FilesWithin /\ Audited
  <2>. SUFFICES ASSUME FilesInit PROVE FilesWithin /\ Audited
    OBVIOUS
  <2>1. "none" \in Outcomes /\ fileFaults \in 0..MaxFileFaults
    BY FilesBounds, SMT DEF FilesInit, Outcomes
  <2>2. dirs \subseteq Things
    BY Zenon DEF FilesInit, Things
  <2>3. NoRequest.at = "idle" /\ \A o \in Ops : op[o] = NoRequest
    <3>1. NoRequest.at = "idle"
      BY SMT DEF NoRequest
    <3>. QED  BY <3>1, Zenon DEF FilesInit
  <2>4. temp = {} /\ changed = {}
    BY DEF FilesInit
  <2>5. Audited
    BY <2>3, <2>4, Zenon DEF Audited
  <2>. QED  BY <2>1, <2>2, <2>5, Zenon DEF FilesInit, FilesWithin
<1>2. ListInv /\ DataInv /\ FilesWithin /\ Audited /\ [FilesNext]_filesVars => FilesWithin' /\ Audited'
  BY FilesTouch, Zenon
<1>3. ListInv /\ DataInv /\ [FilesNext]_filesVars => ListInv' /\ DataInv'
  BY FilesStep, Zenon
<1>4. ListInv /\ DataInv /\ FilesWithin /\ Audited => FilesTypeOK
  <2>. SUFFICES ASSUME ListInv, DataInv, FilesWithin, Audited PROVE FilesTypeOK
    OBVIOUS
  <2>1. kept \subseteq Things
    BY Zenon DEF ListInv, NothingIsLost
  <2>2. audit \in [Ops -> {"none", "started", "success", "failed", "denied"}]
    BY Zenon DEF FilesWithin, Outcomes
  <2>3. \A o \in temp \cup changed : audit[o] # "none"
    BY Zenon DEF FilesWithin, Audited
  <2>. QED  BY <2>1, <2>2, <2>3, Zenon DEF ListInv, DataInv, FilesWithin, FilesTypeOK
<1>. QED  BY <1>1, <1>2, <1>3, <1>4, InitFiles, PTL DEF FilesSpec

-----------------------------------------------------------------------------
(* Deletions of the Admin Center. *)

\* A secret is set once for every step that may set it.
SetsCounted == \A o \in Objects : rotated[o] <= edits + others
CenterWithin == CenterTypeOK /\ SetsCounted

Pages == {"none", "list", "change", "saving", "delete", "bulk"}
DeletionSteps == {"page", "plan", "delete", "forget"}

LEMMA ZeroIsValue == 0 \in Values /\ 0 \in Secrets /\ MaxEdits \in Nat /\ MaxOthers \in Nat
BY CenterBounds, SMT DEF Values, Secrets

LEMMA SecretsCount == \A n \in Secrets : n \in Nat
BY ZeroIsValue, SMT DEF Secrets

\* The counts only grow, and a secret that is set once more stays within them.
LEMMA CountsGrow ==
  ASSUME NEW e \in 0..MaxEdits, NEW k \in 0..MaxOthers,
         NEW e2 \in e..MaxEdits, NEW k2 \in k..MaxOthers
  PROVE  /\ e2 \in 0..MaxEdits /\ k2 \in 0..MaxOthers
         /\ \A n \in Nat : n <= e + k => n <= e2 + k2
BY ZeroIsValue, SMT

LEMMA OneMoreSet ==
  ASSUME NEW e \in 0..MaxEdits, NEW k \in 0..MaxOthers,
         NEW e2 \in 0..MaxEdits, NEW k2 \in 0..MaxOthers, e2 + k2 = e + k + 1,
         NEW n \in Nat, n <= e + k
  PROVE  n + 1 \in Secrets /\ n <= e2 + k2 /\ n + 1 <= e2 + k2
<1>1. n + 1 <= e2 + k2 /\ e2 + k2 <= MaxEdits + MaxOthers
  BY ZeroIsValue, SMT
<1>2. n <= e2 + k2 /\ n + 1 \in 0..(MaxEdits + MaxOthers)
  BY <1>1, ZeroIsValue, SMT
<1>. QED  BY <1>1, <1>2, Zenon DEF Secrets

LEMMA BlankIsTab == Blank \in Tab
<1>1. [o \in Objects |-> 0] \in [Objects -> Values]
  BY ZeroIsValue, Zenon
<1>2. [o \in Objects |-> <<0, 0>>] \in [Objects -> Values \X Secrets]
  BY ZeroIsValue, Zenon
<1>3. None \in SUBSET Objects
  BY Zenon DEF None
<1>. QED  BY <1>1, <1>2, <1>3, Zenon DEF Blank, Tab

\* A page is a blank one with some of its fields set.
LEMMA TabFieldsSet ==
  ASSUME NEW r \in Tab
  PROVE  /\ \A page \in Pages : [r EXCEPT !.page = page] \in Tab
         /\ \A step \in DeletionSteps : [r EXCEPT !.step = step] \in Tab
         /\ \A S \in SUBSET Objects : [r EXCEPT !.shown = S] \in Tab
         /\ \A S \in SUBSET Objects : [r EXCEPT !.picked = S] \in Tab
         /\ \A S \in SUBSET Objects : [r EXCEPT !.allowed = S] \in Tab
         /\ \A seen \in [Objects -> Values] : [r EXCEPT !.seen = seen] \in Tab
         /\ \A row \in [Objects -> Values \X Secrets] : [r EXCEPT !.row = row] \in Tab
<1>1. ASSUME NEW page \in Pages PROVE [r EXCEPT !.page = page] \in Tab
  BY Zenon DEF Tab, Pages, DeletionSteps
<1>2. ASSUME NEW step \in DeletionSteps PROVE [r EXCEPT !.step = step] \in Tab
  BY Zenon DEF Tab, Pages, DeletionSteps
<1>3. ASSUME NEW S \in SUBSET Objects PROVE [r EXCEPT !.shown = S] \in Tab
  BY Zenon DEF Tab, Pages, DeletionSteps
<1>4. ASSUME NEW S \in SUBSET Objects PROVE [r EXCEPT !.picked = S] \in Tab
  BY Zenon DEF Tab, Pages, DeletionSteps
<1>5. ASSUME NEW S \in SUBSET Objects PROVE [r EXCEPT !.allowed = S] \in Tab
  BY Zenon DEF Tab, Pages, DeletionSteps
<1>6. ASSUME NEW seen \in [Objects -> Values] PROVE [r EXCEPT !.seen = seen] \in Tab
  BY Zenon DEF Tab, Pages, DeletionSteps
<1>7. ASSUME NEW row \in [Objects -> Values \X Secrets] PROVE [r EXCEPT !.row = row] \in Tab
  BY Zenon DEF Tab, Pages, DeletionSteps
<1>. QED  BY <1>1, <1>2, <1>3, <1>4, <1>5, <1>6, <1>7

LEMMA BlankSet ==
  ASSUME NEW page \in Pages, NEW S \in SUBSET Objects
  PROVE  /\ [Blank EXCEPT !.page = page, !.shown = S] \in Tab
         /\ \A seen \in [Objects -> Values] :
              [Blank EXCEPT !.page = page, !.shown = S, !.seen = seen] \in Tab
         /\ \A row \in [Objects -> Values \X Secrets] :
              [Blank EXCEPT !.page = page, !.shown = S, !.row = row] \in Tab
<1>1. PICK r \in Tab : r = [Blank EXCEPT !.page = page]
  BY BlankIsTab, TabFieldsSet, Zenon
<1>2. PICK w \in Tab : w = [r EXCEPT !.shown = S]
  BY TabFieldsSet, Zenon
<1>5. w = [Blank EXCEPT !.page = page, !.shown = S]
  BY <1>1, <1>2, Zenon
<1>3. ASSUME NEW seen \in [Objects -> Values]
      PROVE  [Blank EXCEPT !.page = page, !.shown = S, !.seen = seen] \in Tab
  <2>1. PICK y \in Tab : y = [w EXCEPT !.seen = seen]
    BY TabFieldsSet, Zenon
  <2>2. y = [Blank EXCEPT !.page = page, !.shown = S, !.seen = seen]
    BY <1>1, <1>2, <2>1, Zenon
  <2>. QED  BY <2>2, Zenon
<1>4. ASSUME NEW row \in [Objects -> Values \X Secrets]
      PROVE  [Blank EXCEPT !.page = page, !.shown = S, !.row = row] \in Tab
  <2>1. PICK y \in Tab : y = [w EXCEPT !.row = row]
    BY TabFieldsSet, Zenon
  <2>2. y = [Blank EXCEPT !.page = page, !.shown = S, !.row = row]
    BY <1>1, <1>2, <2>1, Zenon
  <2>. QED  BY <2>2, Zenon
<1>. QED  BY <1>3, <1>4, <1>5, Zenon

\* A page is opened, kept or left.
LEMMA PagesTyped ==
  ASSUME CenterTypeOK, NEW t \in Tabs,
         \/ tab' = tab \/ Leaves(t) \/ Forgets(t)
         \/ \E page \in Pages, S \in SUBSET Objects : Shows(t, page, S) \/ ShowsValues(t, page, S)
         \/ \E w \in Tab : tab' = [tab EXCEPT ![t] = w]
  PROVE  tab' \in [Tabs -> Tab]
<1>1. tab \in [Tabs -> Tab] /\ value \in [Objects -> Values]
  BY Zenon DEF CenterTypeOK
<1>2. ASSUME NEW w \in Tab, tab' = [tab EXCEPT ![t] = w] PROVE tab' \in [Tabs -> Tab]
  BY <1>1, <1>2, Zenon
<1>3. CASE Leaves(t)
  BY <1>2, <1>3, BlankIsTab, Zenon DEF Leaves
<1>4. ASSUME NEW page \in Pages, NEW S \in SUBSET Objects, ShowsValues(t, page, S)
      PROVE  tab' \in [Tabs -> Tab]
  <2>. DEFINE seen == [o \in Objects |-> IF o \in S THEN value[o] ELSE 0]
              w == [Blank EXCEPT !.page = page, !.shown = S, !.seen = seen]
  <2>1. seen \in [Objects -> Values]
    BY <1>1, ZeroIsValue, Zenon
  <2>2. tab' = [tab EXCEPT ![t] = w]
    BY <1>4, Zenon DEF ShowsValues
  <2>. HIDE DEF seen
  <2>3. w \in Tab
    BY <2>1, BlankSet, Zenon
  <2>. HIDE DEF w
  <2>. QED  BY <1>2, <2>2, <2>3, Zenon
<1>5. ASSUME NEW page \in Pages, NEW S \in SUBSET Objects, Shows(t, page, S)
      PROVE  tab' \in [Tabs -> Tab]
  BY <1>2, <1>5, BlankSet, Zenon DEF Shows
<1>6. CASE Forgets(t)
  <2>1. PICK r \in Tab : r = [Blank EXCEPT !.page = "bulk"]
    BY BlankIsTab, TabFieldsSet, Zenon DEF Pages
  <2>2. PICK w \in Tab : w = [r EXCEPT !.step = "forget"]
    BY TabFieldsSet, Zenon DEF DeletionSteps
  <2>3. w = [Blank EXCEPT !.page = "bulk", !.step = "forget"]
    BY <2>1, <2>2, Zenon
  <2>. QED  BY <1>2, <1>6, <2>3, Zenon DEF Forgets
<1>. QED  BY <1>1, <1>2, <1>3, <1>4, <1>5, <1>6, Zenon

\* A deletion goes on.
LEMMA ContinuesTyped ==
  ASSUME CenterTypeOK, NEW t \in Tabs, NEW step \in DeletionSteps, Continues(t, step)
  PROVE  \E w \in Tab : tab' = [tab EXCEPT ![t] = w] /\ w = [tab[t] EXCEPT !.step = step]
<1>1. tab \in [Tabs -> Tab] /\ tab[t] \in Tab
  BY Zenon DEF CenterTypeOK
<1>2. PICK w \in Tab : w = [tab[t] EXCEPT !.step = step]
  BY <1>1, TabFieldsSet, Zenon
<1>3. tab' = [tab EXCEPT ![t] = w]
  BY <1>2, Zenon DEF Continues
<1>. QED  BY <1>2, <1>3

\* A confirmation is sent.
LEMMA ConfirmTyped ==
  ASSUME CenterTypeOK, NEW t \in Tabs, NEW S \in SUBSET Objects,
         tab' = [tab EXCEPT ![t].step = "plan", ![t].picked = S, ![t].allowed = deletable]
  PROVE  \E w \in Tab : /\ tab' = [tab EXCEPT ![t] = w] /\ w.step = "plan" /\ w.picked = S
                        /\ w.allowed = deletable
<1>1. tab \in [Tabs -> Tab] /\ tab[t] \in Tab /\ deletable \in SUBSET Objects
  BY Zenon DEF CenterTypeOK
<1>2. PICK a \in Tab : a = [tab[t] EXCEPT !.step = "plan"]
  BY <1>1, TabFieldsSet, Zenon DEF DeletionSteps
<1>3. PICK b \in Tab : b = [a EXCEPT !.picked = S]
  BY TabFieldsSet, Zenon
<1>4. PICK w \in Tab : w = [b EXCEPT !.allowed = deletable]
  BY <1>1, TabFieldsSet, Zenon
<1>5. tab' = [tab EXCEPT ![t] = [tab[t] EXCEPT !.step = "plan", !.picked = S,
                                               !.allowed = deletable]]
  BY <1>1, Zenon
<1>6. tab' = [tab EXCEPT ![t] = w]
  BY <1>2, <1>3, <1>4, <1>5, Zenon
<1>7. w.step = "plan" /\ w.picked = S /\ w.allowed = deletable
  BY <1>2, <1>3, <1>4, SMT DEF Tab
<1>. QED  BY <1>6, <1>7

\* A step that changes no value and no secret.
LEMMA PageStepTyped ==
  ASSUME CenterWithin, NEW t \in Tabs,
         \/ tab' = tab \/ Leaves(t) \/ Forgets(t)
         \/ \E page \in Pages, S \in SUBSET Objects : Shows(t, page, S) \/ ShowsValues(t, page, S)
         \/ \E w \in Tab : tab' = [tab EXCEPT ![t] = w],
         UNCHANGED <<fields, policy, rotated>>,
         rows' \subseteq Objects, selection' \subseteq Objects,
         edits' \in edits..MaxEdits, others' \in others..MaxOthers,
         gone' \in [shown: SUBSET Objects, removed: SUBSET Objects]
  PROVE  CenterWithin'
<1>1. tab' \in [Tabs -> Tab]
  BY PagesTyped DEF CenterWithin
<1>2. /\ edits \in 0..MaxEdits /\ others \in 0..MaxOthers
      /\ rotated \in [Objects -> Secrets] /\ \A o \in Objects : rotated[o] <= edits + others
  BY Zenon DEF CenterWithin, CenterTypeOK, SetsCounted
<1>3. /\ edits' \in 0..MaxEdits /\ others' \in 0..MaxOthers
      /\ \A n \in Nat : n <= edits + others => n <= edits' + others'
  BY <1>2, CountsGrow, Zenon
<1>4. SetsCounted'
  <2>. SUFFICES ASSUME NEW o \in Objects PROVE rotated'[o] <= edits' + others'
    BY Zenon DEF SetsCounted
  <2>1. rotated[o] \in Secrets /\ rotated[o] <= edits + others /\ rotated' = rotated
    BY <1>2, Zenon
  <2>. QED  BY <1>3, <2>1, SecretsCount, Zenon
<1>. QED  BY <1>1, <1>3, <1>4, Zenon DEF CenterWithin, CenterTypeOK, SetsCounted, fields, policy

\* The list, the form, the confirmation pages and the deletions.
LEMMA PagesWithin ==
  ASSUME CenterWithin, NEW t \in Tabs,
         \/ ShowList(t) \/ SaveFails(t) \/ ShowBulk(t) \/ Confirm(t) \/ Plan(t)
         \/ Delete(t) \/ DeleteFails(t) \/ Forget(t)
         \/ \E o \in Objects : ShowForm(t, o) \/ ShowDelete(t, o)
         \/ \E S \in SUBSET Objects : SelectDelete(t, S)
  PROVE  CenterWithin'
<1>0. /\ rows \subseteq Objects /\ selection \subseteq Objects
      /\ edits \in 0..MaxEdits /\ others \in 0..MaxOthers
      /\ gone \in [shown: SUBSET Objects, removed: SUBSET Objects]
      /\ tab[t] \in Tab
  BY Zenon DEF CenterWithin, CenterTypeOK
<1>1. edits \in edits..MaxEdits /\ others \in others..MaxOthers
  BY <1>0, ZeroIsValue, SMT
<1>2. {"list", "change", "delete", "bulk"} \subseteq Pages /\ None \subseteq Objects
  BY Zenon DEF Pages, None
<1>3. CASE ShowList(t)
  <2>1. ShowsValues(t, "list", rows) /\ UNCHANGED <<rows, fields, policy, selection, counts, gone>>
    BY <1>3, Zenon DEF ShowList
  <2>. QED  BY <1>0, <1>1, <1>2, <2>1, PageStepTyped, Zenon DEF counts
<1>4. ASSUME NEW o \in Objects, ShowForm(t, o) \/ ShowDelete(t, o) PROVE CenterWithin'
  <2>1. /\ ShowsValues(t, "change", {o}) \/ Shows(t, "delete", {o})
        /\ UNCHANGED <<rows, fields, policy, selection, counts, gone>>
    BY <1>4, Zenon DEF ShowForm, ShowDelete
  <2>2. {o} \in SUBSET Objects
    OBVIOUS
  <2>. QED  BY <1>0, <1>1, <1>2, <2>1, <2>2, PageStepTyped, Zenon DEF counts
<1>5. CASE SaveFails(t)
  <2>1. /\ Leaves(t) /\ others < MaxOthers /\ others' = others + 1
        /\ UNCHANGED <<rows, fields, policy, selection, edits, rotated, gone>>
    BY <1>5, Zenon DEF SaveFails
  <2>2. others' \in others..MaxOthers
    BY <1>0, <2>1, ZeroIsValue, SMT
  <2>. QED  BY <1>0, <1>1, <2>1, <2>2, PageStepTyped, Zenon
<1>6. CASE Delete(t)
  <2>1. /\ Leaves(t) \/ Forgets(t)
        /\ UNCHANGED <<fields, policy, selection, counts>>
        /\ rows' \subseteq rows
        /\ gone' = gone \/ gone' = [shown |-> tab[t].shown, removed |-> tab[t].picked \cap rows]
    BY <1>6, Zenon DEF Delete
  <2>2. rows' \subseteq Objects
    BY <1>0, <2>1, Zenon
  <2>3. tab[t].shown \in SUBSET Objects
    BY <1>0, SMT DEF Tab
  <2>4. gone' \in [shown: SUBSET Objects, removed: SUBSET Objects]
    <3>1. [shown |-> tab[t].shown, removed |-> tab[t].picked \cap rows]
            \in [shown: SUBSET Objects, removed: SUBSET Objects]
      BY <1>0, <2>3, Zenon
    <3>. QED  BY <1>0, <2>1, <3>1
  <2>. QED  BY <1>0, <1>1, <2>1, <2>2, <2>4, PageStepTyped, Zenon DEF counts
<1>7. CASE ShowBulk(t)
  <2>1. /\ Shows(t, "bulk", selection) \/ Forgets(t)
        /\ UNCHANGED <<rows, fields, policy, selection, counts, gone>>
    BY <1>7, Zenon DEF ShowBulk
  <2>. QED  BY <1>0, <1>1, <1>2, <2>1, PageStepTyped, Zenon DEF counts
<1>8. CASE Confirm(t) \/ Plan(t)
  <2>1. /\ \/ Leaves(t) \/ Forgets(t) \/ Continues(t, "delete")
           \/ \E S \in SUBSET Objects : tab' = [tab EXCEPT ![t].step = "plan", ![t].picked = S,
                                                          ![t].allowed = deletable]
        /\ UNCHANGED <<rows, fields, policy, selection, counts, gone>>
    <3>1. CASE Plan(t)
      BY <3>1, Zenon DEF Plan
    <3>2. CASE Confirm(t)
      <4>1. tab[t].shown \in SUBSET Objects
        BY <1>0, SMT DEF Tab
      <4>. QED  BY <1>0, <3>2, <4>1, Zenon DEF Confirm
    <3>. QED  BY <1>8, <3>1, <3>2
  <2>2. \/ Leaves(t) \/ Forgets(t) \/ \E w \in Tab : tab' = [tab EXCEPT ![t] = w]
    <3>1. "delete" \in DeletionSteps
      BY Zenon DEF DeletionSteps
    <3>. QED  BY <2>1, <3>1, ContinuesTyped, ConfirmTyped, Zenon DEF CenterWithin
  <2>. QED  BY <1>0, <1>1, <2>1, <2>2, PageStepTyped, Zenon DEF counts
<1>10. CASE DeleteFails(t) \/ Forget(t)
  <2>1. /\ Leaves(t) /\ UNCHANGED <<rows, fields, policy, counts, gone>>
        /\ selection' \in {selection, None}
    BY <1>10, Zenon DEF DeleteFails, Forget
  <2>2. selection' \subseteq Objects
    BY <1>0, <1>2, <2>1, Zenon
  <2>. QED  BY <1>0, <1>1, <2>1, <2>2, PageStepTyped, Zenon DEF counts
<1>9. ASSUME NEW S \in SUBSET Objects, SelectDelete(t, S) PROVE CenterWithin'
  <2>1. Leaves(t) /\ selection' = S /\ UNCHANGED <<rows, fields, policy, counts, gone>>
    BY <1>9, Zenon DEF SelectDelete
  <2>. QED  BY <1>0, <1>1, <2>1, PageStepTyped, Zenon DEF counts
<1>. QED  BY <1>3, <1>4, <1>5, <1>6, <1>7, <1>8, <1>9, <1>10, Zenon

\* What the form submits is kept until it is saved.
LEMMA SubmitWithin ==
  ASSUME CenterWithin, NEW t \in Tabs, NEW S \in SUBSET Objects, Submit(t, S)
  PROVE  CenterWithin'
<1>. DEFINE shown == tab[t].shown
            typed == IF S = None THEN 0 ELSE edits + 1
            submitted == [o \in Objects |-> IF o \in S THEN typed ELSE tab[t].seen[o]]
            differing == {o \in shown : submitted[o] # value[o]}
            row == [o \in Objects |-> IF o \in differing THEN <<submitted[o], secret[o]>>
                                      ELSE <<0, 0>>]
            w == [Blank EXCEPT !.page = "saving", !.shown = differing, !.row = row]
<1>1. /\ rows \subseteq Objects /\ selection \subseteq Objects /\ secret \in [Objects -> Secrets]
      /\ edits \in 0..MaxEdits /\ others \in 0..MaxOthers
      /\ gone \in [shown: SUBSET Objects, removed: SUBSET Objects] /\ tab[t] \in Tab
  BY Zenon DEF CenterWithin, CenterTypeOK
<1>2. tab[t].shown \in SUBSET Objects /\ tab[t].seen \in [Objects -> Values]
  BY <1>1, SMT DEF Tab
<1>3. /\ S # None => edits < MaxEdits
      /\ edits' = edits + IF S = None THEN 0 ELSE 1
      /\ tab' = [tab EXCEPT ![t] = w] \/ Leaves(t)
      /\ UNCHANGED <<rows, fields, policy, selection, others, rotated, gone>>
  BY Zenon DEF Submit
<1>4. typed \in Values /\ edits' \in edits..MaxEdits /\ others \in others..MaxOthers
  BY <1>1, <1>3, ZeroIsValue, SMT DEF Values
<1>5. submitted \in [Objects -> Values]
  <2>. HIDE DEF typed
  <2>. QED  BY <1>2, <1>4, Zenon
<1>6. differing \in SUBSET Objects
  <2>. HIDE DEF submitted
  <2>. QED  BY <1>2, Zenon
<1>7. row \in [Objects -> Values \X Secrets]
  <2>. HIDE DEF submitted, differing
  <2>1. ASSUME NEW o \in Objects
        PROVE  (IF o \in differing THEN <<submitted[o], secret[o]>> ELSE <<0, 0>>) \in Values \X Secrets
    <3>1. submitted[o] \in Values /\ secret[o] \in Secrets
      BY <1>1, <1>5, Zenon
    <3>. QED  BY <3>1, ZeroIsValue, Zenon
  <2>. QED  BY <2>1, Zenon
<1>. HIDE DEF typed, submitted, differing, row
<1>8. w \in Tab
  <2>1. "saving" \in Pages
    BY Zenon DEF Pages
  <2>. QED  BY <1>6, <1>7, <2>1, BlankSet
<1>. HIDE DEF w
<1>. QED  BY <1>1, <1>3, <1>4, <1>8, PageStepTyped, Zenon

\* A saved row and an action set values and secrets that were read or typed.
LEMMA SaveWithin ==
  ASSUME CenterWithin, NEW t \in Tabs, Save(t) \/ \E S \in SUBSET Objects : Act(t, S)
  PROVE  CenterWithin'
<1>1. /\ rows \subseteq Objects /\ edits \in 0..MaxEdits /\ others \in 0..MaxOthers
      /\ value \in [Objects -> Values] /\ secret \in [Objects -> Secrets]
      /\ rotated \in [Objects -> Secrets] /\ tab[t] \in Tab
      /\ \A o \in Objects : rotated[o] <= edits + others
  BY Zenon DEF CenterWithin, CenterTypeOK, SetsCounted
<1>2. tab[t].shown \in SUBSET Objects /\ tab[t].row \in [Objects -> Values \X Secrets]
  BY <1>1, SMT DEF Tab
<1>3. CASE Save(t)
  <2>. DEFINE S == tab[t].shown
  <2>1. /\ value' = [o \in Objects |-> IF o \in S THEN tab[t].row[o][1] ELSE value[o]]
        /\ secret' = [o \in Objects |-> IF o \in S THEN tab[t].row[o][2] ELSE secret[o]]
        /\ rows' = rows \cup S /\ Leaves(t) /\ UNCHANGED <<policy, selection, counts, gone>>
    BY <1>3, Zenon DEF Save
  <2>2. \A o \in Objects : tab[t].row[o][1] \in Values /\ tab[t].row[o][2] \in Secrets
    BY <1>2, SMT
  <2>3. value' \in [Objects -> Values] /\ secret' \in [Objects -> Secrets]
    BY <1>1, <2>1, <2>2, Zenon
  <2>4. tab' \in [Tabs -> Tab]
    BY <2>1, PagesTyped DEF CenterWithin
  <2>5. rows' \subseteq Objects
    BY <1>1, <1>2, <2>1, Zenon
  <2>. QED  BY <2>1, <2>3, <2>4, <2>5, Zenon DEF CenterWithin, CenterTypeOK, SetsCounted, policy, counts
<1>4. ASSUME NEW S \in SUBSET Objects, Act(t, S) PROVE CenterWithin'
  <2>1. /\ value' = [o \in Objects |-> IF o \in S THEN edits + 1 ELSE value[o]]
        /\ edits < MaxEdits /\ edits' = edits + 1 /\ Leaves(t)
        /\ UNCHANGED <<rows, secret, policy, selection, others, rotated, gone>>
    BY <1>4, Zenon DEF Act
  <2>2. edits + 1 \in Values /\ edits' \in 0..MaxEdits
    BY <1>1, <2>1, ZeroIsValue, SMT DEF Values
  <2>3. value' \in [Objects -> Values]
    BY <1>1, <2>1, <2>2, Zenon
  <2>4. tab' \in [Tabs -> Tab]
    BY <2>1, PagesTyped DEF CenterWithin
  <2>5. SetsCounted'
    <3>. SUFFICES ASSUME NEW o \in Objects PROVE rotated'[o] <= edits' + others'
      BY Zenon DEF SetsCounted
    <3>1. rotated[o] \in Nat /\ rotated[o] <= edits + others /\ rotated' = rotated /\ others' = others
      BY <1>1, <2>1, ZeroIsValue, SMT DEF Secrets
    <3>. QED  BY <1>1, <2>1, <3>1, ZeroIsValue, SMT
  <2>. QED  BY <2>1, <2>2, <2>3, <2>4, <2>5, Zenon DEF CenterWithin, CenterTypeOK, SetsCounted, policy
<1>. QED  BY <1>3, <1>4

\* A secret is set on purpose, by a new row or by the program.
LEMMA SecretSet ==
  ASSUME CenterWithin, NEW o \in Objects, rotated' = [rotated EXCEPT ![o] = @ + 1],
         secret' = [secret EXCEPT ![o] = rotated[o] + 1],
         edits' \in 0..MaxEdits, others' \in 0..MaxOthers, edits' + others' = edits + others + 1
  PROVE  rotated' \in [Objects -> Secrets] /\ secret' \in [Objects -> Secrets] /\ SetsCounted'
<1>1. /\ edits \in 0..MaxEdits /\ others \in 0..MaxOthers /\ rotated \in [Objects -> Secrets]
      /\ secret \in [Objects -> Secrets] /\ \A x \in Objects : rotated[x] <= edits + others
  BY Zenon DEF CenterWithin, CenterTypeOK, SetsCounted
<1>2. \A x \in Objects : /\ rotated[x] + 1 \in Secrets /\ rotated[x] <= edits' + others'
                        /\ rotated[x] + 1 <= edits' + others'
  <2>. SUFFICES ASSUME NEW x \in Objects
                PROVE  /\ rotated[x] + 1 \in Secrets /\ rotated[x] <= edits' + others'
                       /\ rotated[x] + 1 <= edits' + others'
    OBVIOUS
  <2>1. rotated[x] \in Nat /\ rotated[x] <= edits + others
    BY <1>1, SecretsCount, Zenon
  <2>. QED  BY <1>1, <2>1, OneMoreSet, Zenon
<1>3. rotated[o] + 1 \in Secrets
  BY <1>2
<1>4. /\ rotated' \in [Objects -> Secrets] /\ secret' \in [Objects -> Secrets]
      /\ rotated'[o] = rotated[o] + 1 /\ \A x \in Objects : x # o => rotated'[x] = rotated[x]
  <2>1. rotated' = [rotated EXCEPT ![o] = rotated[o] + 1]
    OBVIOUS
  <2>. QED  BY <1>1, <1>3, <2>1, SMT
<1>5. ASSUME NEW x \in Objects PROVE rotated'[x] <= edits' + others'
  BY <1>2, <1>4, Zenon
<1>. QED  BY <1>4, <1>5, Zenon DEF SetsCounted

LEMMA AddWithin ==
  ASSUME CenterWithin, NEW o \in Objects, Add(o) \/ Rotate(o)
  PROVE  CenterWithin'
<1>1. /\ edits \in 0..MaxEdits /\ others \in 0..MaxOthers /\ value \in [Objects -> Values]
      /\ rows \subseteq Objects
  BY Zenon DEF CenterWithin, CenterTypeOK
<1>2. /\ rotated' = [rotated EXCEPT ![o] = @ + 1]
      /\ secret' = [secret EXCEPT ![o] = rotated[o] + 1]
      /\ UNCHANGED <<policy, selection, tab, gone>>
      /\ rows' \subseteq rows \cup {o}
      /\ \/ edits < MaxEdits /\ edits' = edits + 1 /\ others' = others
         \/ others < MaxOthers /\ others' = others + 1 /\ edits' = edits
      /\ value' = value \/ (edits < MaxEdits /\ value' = [value EXCEPT ![o] = edits + 1])
  BY Zenon DEF Add, Rotate, Other
<1>3. /\ edits' \in 0..MaxEdits /\ others' \in 0..MaxOthers
      /\ edits' + others' = edits + others + 1
      /\ edits < MaxEdits => edits + 1 \in Values
  BY <1>1, <1>2, ZeroIsValue, SMT DEF Values
<1>4. value' \in [Objects -> Values]
  BY <1>1, <1>2, <1>3, Zenon
<1>5. rotated' \in [Objects -> Secrets] /\ secret' \in [Objects -> Secrets] /\ SetsCounted'
  BY <1>2, <1>3, SecretSet
<1>6. rows' \subseteq Objects
  BY <1>1, <1>2, Zenon
<1>. QED  BY <1>2, <1>3, <1>4, <1>5, <1>6, Zenon DEF CenterWithin, CenterTypeOK, SetsCounted, policy

LEMMA InterfereWithin ==
  ASSUME CenterWithin, NEW o \in Objects, Interfere(o)
  PROVE  CenterWithin'
<1>1. /\ edits \in 0..MaxEdits /\ others \in 0..MaxOthers /\ value \in [Objects -> Values]
      /\ rows \subseteq Objects /\ protected \subseteq Objects /\ deletable \subseteq Objects
      /\ changeable \subseteq Objects /\ rotated \in [Objects -> Secrets]
      /\ \A x \in Objects : rotated[x] <= edits + others
  BY Zenon DEF CenterWithin, CenterTypeOK, SetsCounted
<1>2. /\ others < MaxOthers /\ others' = others + 1
      /\ UNCHANGED <<secret, selection, tab, rotated, gone>>
      /\ \/ edits < MaxEdits /\ value' = [value EXCEPT ![o] = edits + 1] /\ edits' = edits + 1
         \/ value' = value /\ edits' = edits
      /\ rows' \subseteq rows /\ protected' \subseteq protected \cup {o}
      /\ deletable' \subseteq deletable /\ changeable' \subseteq changeable
  BY Zenon DEF Interfere, Other, policy
<1>3. /\ others' \in 0..MaxOthers /\ edits' \in 0..MaxEdits
      /\ edits < MaxEdits => edits + 1 \in Values
  BY <1>1, <1>2, ZeroIsValue, SMT DEF Values
<1>4. value' \in [Objects -> Values]
  BY <1>1, <1>2, <1>3, Zenon
<1>5. SetsCounted'
  <2>. SUFFICES ASSUME NEW x \in Objects PROVE rotated'[x] <= edits' + others'
    BY Zenon DEF SetsCounted
  <2>1. rotated[x] \in Nat /\ rotated[x] <= edits + others /\ rotated' = rotated
    BY <1>1, <1>2, ZeroIsValue, SMT DEF Secrets
  <2>. QED  BY <1>1, <1>2, <2>1, ZeroIsValue, SMT
<1>6. rows' \subseteq Objects /\ protected' \subseteq Objects
  BY <1>1, <1>2, Zenon
<1>. QED  BY <1>1, <1>2, <1>3, <1>4, <1>5, <1>6, Zenon DEF CenterWithin, CenterTypeOK, SetsCounted

LEMMA CenterInvariant == CenterSpec => []CenterWithin
<1>1. CenterInit => CenterWithin
  <2>. SUFFICES ASSUME CenterInit PROVE CenterWithin
    OBVIOUS
  <2>1. 0 \in 0..MaxEdits /\ 0 \in 0..MaxOthers /\ 0 + 0 = 0
    BY ZeroIsValue, SMT
  <2>2. /\ value \in [Objects -> Values] /\ secret \in [Objects -> Secrets]
        /\ rotated \in [Objects -> Secrets] /\ tab \in [Tabs -> Tab]
    BY ZeroIsValue, BlankIsTab, Zenon DEF CenterInit
  <2>3. gone \in [shown: SUBSET Objects, removed: SUBSET Objects]
    <3>1. None \in SUBSET Objects
      BY Zenon DEF None
    <3>. QED  BY <3>1, Zenon DEF CenterInit
  <2>4. /\ rows \subseteq Objects /\ protected \subseteq Objects /\ deletable \subseteq Objects
        /\ changeable \subseteq Objects /\ selection \subseteq Objects
    BY Zenon DEF CenterInit, None
  <2>5. \A o \in Objects : rotated[o] <= edits + others
    BY SMT DEF CenterInit
  <2>6. edits \in 0..MaxEdits /\ others \in 0..MaxOthers
    BY <2>1, Zenon DEF CenterInit
  <2>. QED  BY <2>2, <2>3, <2>4, <2>5, <2>6, Zenon DEF CenterWithin, CenterTypeOK, SetsCounted
<1>2. CenterWithin /\ [CenterNext]_centerVars => CenterWithin'
  <2>. SUFFICES ASSUME CenterWithin, [CenterNext]_centerVars PROVE CenterWithin'
    OBVIOUS
  <2>1. CASE UNCHANGED centerVars
    BY <2>1, Zenon DEF centerVars, CenterWithin, CenterTypeOK, SetsCounted
  <2>2. CASE CenterNext
    BY <2>2, PagesWithin, SubmitWithin, SaveWithin, AddWithin, InterfereWithin, Zenon DEF CenterNext
  <2>. QED  BY <2>1, <2>2
<1>. QED  BY <1>1, <1>2, PTL DEF CenterSpec

\* However many tabs show, submit and confirm what others change meanwhile: every page,
\* row and permission is one of the model, and no secret was set more often than the
\* administrator edited and others acted.
THEOREM CenterTypeCorrect == CenterSpec => []CenterTypeOK
<1>1. CenterWithin => CenterTypeOK
  BY DEF CenterWithin
<1>. QED  BY <1>1, CenterInvariant, PTL

-----------------------------------------------------------------------------
(* What a deletion removes. *)

\* What is going to be deleted might be when its confirmation was sent.
DeletionInv ==
  \A t \in Tabs : tab[t].step \in {"plan", "delete"} => tab[t].picked \subseteq tab[t].allowed

\* The page of one tab is replaced.
LEMMA OneTabMoves ==
  ASSUME CenterTypeOK, DeletionInv, NEW t \in Tabs, NEW w, tab' = [tab EXCEPT ![t] = w],
         w.step \in {"plan", "delete"} => w.picked \subseteq w.allowed
  PROVE  DeletionInv'
<1>1. tab'[t] = w /\ \A x \in Tabs : x # t => tab'[x] = tab[x]
  BY Zenon DEF CenterTypeOK
<1>. SUFFICES ASSUME NEW x \in Tabs, tab'[x].step \in {"plan", "delete"}
              PROVE  tab'[x].picked \subseteq tab'[x].allowed
  BY Zenon DEF DeletionInv
<1>2. CASE x = t
  BY <1>1, <1>2, Zenon
<1>3. CASE x # t
  <2>1. tab'[x] = tab[x]
    BY <1>1, <1>3, Zenon
  <2>. QED  BY <2>1, Zenon DEF DeletionInv
<1>. QED  BY <1>2, <1>3

\* Pages that are opened, sent or left have no deletion under way.
LEMMA PageMoves ==
  ASSUME CenterTypeOK, DeletionInv, NEW t \in Tabs, NEW w, tab' = [tab EXCEPT ![t] = w],
         w.step \in {"page", "forget"}
  PROVE  DeletionInv'
<1>1. w.step \notin {"plan", "delete"}
  BY SMT
<1>. QED  BY <1>1, OneTabMoves, Zenon

LEMMA BlankSteps ==
  /\ Blank.step = "page"
  /\ \A page, S : [Blank EXCEPT !.page = page, !.shown = S].step = "page"
  /\ [Blank EXCEPT !.page = "bulk", !.step = "forget"].step = "forget"
BY Zenon DEF Blank

LEMMA DeletionStep ==
  ASSUME CenterWithin, DeletionInv, [CenterNext]_centerVars
  PROVE  DeletionInv'
<1>0. CenterTypeOK /\ tab \in [Tabs -> Tab]
  BY Zenon DEF CenterWithin, CenterTypeOK
<1>1. ASSUME NEW t \in Tabs, Leaves(t) \/ Forgets(t) PROVE DeletionInv'
  <2>1. PICK w : tab' = [tab EXCEPT ![t] = w] /\ w.step \in {"page", "forget"}
    BY <1>1, BlankSteps, Zenon DEF Leaves, Forgets
  <2>. QED  BY <1>0, <2>1, PageMoves, Zenon
<1>2. ASSUME NEW t \in Tabs, NEW page, NEW S, Shows(t, page, S) PROVE DeletionInv'
  <2>. DEFINE w == [Blank EXCEPT !.page = page, !.shown = S]
  <2>1. tab' = [tab EXCEPT ![t] = w] /\ w.step = "page"
    BY <1>2, BlankSteps, Zenon DEF Shows
  <2>. HIDE DEF w
  <2>. QED  BY <1>0, <2>1, PageMoves, Zenon
<1>3. ASSUME NEW t \in Tabs, NEW page, NEW S, ShowsValues(t, page, S) PROVE DeletionInv'
  <2>. DEFINE w == [Blank EXCEPT !.page = page, !.shown = S,
                                 !.seen = [o \in Objects |-> IF o \in S THEN value[o] ELSE 0]]
  <2>1. tab' = [tab EXCEPT ![t] = w]
    BY <1>3, Zenon DEF ShowsValues
  <2>2. w.step = "page"
    BY Zenon DEF Blank
  <2>. HIDE DEF w
  <2>. QED  BY <1>0, <2>1, <2>2, PageMoves, Zenon
<1>4. ASSUME NEW t \in Tabs,
             \/ ShowList(t) \/ Save(t) \/ SaveFails(t) \/ ShowBulk(t)
             \/ Delete(t) \/ DeleteFails(t) \/ Forget(t)
      PROVE  DeletionInv'
  <2>1. \/ Leaves(t) \/ Forgets(t) \/ ShowsValues(t, "list", rows) \/ Shows(t, "bulk", selection)
    BY <1>4, Zenon DEF ShowList, Save, SaveFails, ShowBulk, Delete, DeleteFails, Forget
  <2>. QED  BY <1>1, <1>2, <1>3, <2>1, Zenon
<1>5. ASSUME NEW t \in Tabs, NEW o \in Objects, ShowForm(t, o) \/ ShowDelete(t, o)
      PROVE  DeletionInv'
  <2>1. ShowsValues(t, "change", {o}) \/ Shows(t, "delete", {o})
    BY <1>5, Zenon DEF ShowForm, ShowDelete
  <2>. QED  BY <1>2, <1>3, <2>1, Zenon
<1>6. ASSUME NEW t \in Tabs, NEW S \in SUBSET Objects, Act(t, S) \/ SelectDelete(t, S)
      PROVE  DeletionInv'
  <2>1. Leaves(t)
    BY <1>6, Zenon DEF Act, SelectDelete
  <2>. QED  BY <1>1, <2>1, Zenon
<1>7. ASSUME NEW t \in Tabs, NEW S \in SUBSET Objects, Submit(t, S)
      PROVE  DeletionInv'
  <2>1. \/ Leaves(t)
        \/ \E D, row : tab' = [tab EXCEPT ![t] = [Blank EXCEPT !.page = "saving", !.shown = D,
                                                               !.row = row]]
    BY <1>7, Zenon DEF Submit
  <2>2. ASSUME NEW D, NEW row,
               tab' = [tab EXCEPT ![t] = [Blank EXCEPT !.page = "saving", !.shown = D, !.row = row]]
        PROVE  DeletionInv'
    <3>. DEFINE w == [Blank EXCEPT !.page = "saving", !.shown = D, !.row = row]
    <3>1. tab' = [tab EXCEPT ![t] = w]
      BY <2>2, Zenon
    <3>2. w.step = "page"
      BY Zenon DEF Blank
    <3>. HIDE DEF w
    <3>. QED  BY <1>0, <3>1, <3>2, PageMoves, Zenon
  <2>. QED  BY <1>1, <2>1, <2>2, Zenon
<1>8. ASSUME NEW t \in Tabs, Confirm(t) PROVE DeletionInv'
  <2>. DEFINE S == IF tab[t].page = "bulk" THEN selection ELSE tab[t].shown
  <2>1. \/ Leaves(t) \/ Forgets(t)
        \/ /\ Permitted(S)
           /\ tab' = [tab EXCEPT ![t].step = "plan", ![t].picked = S, ![t].allowed = deletable]
    BY <1>8, Zenon DEF Confirm
  <2>2. S \in SUBSET Objects
    <3>1. tab[t] \in Tab /\ selection \in SUBSET Objects
      BY <1>0, Zenon DEF CenterTypeOK
    <3>2. tab[t].shown \in SUBSET Objects
      BY <3>1, SMT DEF Tab
    <3>. QED  BY <3>1, <3>2, Zenon
  <2>. HIDE DEF S
  <2>3. CASE /\ Permitted(S)
             /\ tab' = [tab EXCEPT ![t].step = "plan", ![t].picked = S, ![t].allowed = deletable]
    <3>1. PICK w \in Tab : /\ tab' = [tab EXCEPT ![t] = w] /\ w.step = "plan" /\ w.picked = S
                           /\ w.allowed = deletable
      BY <1>0, <2>2, <2>3, ConfirmTyped, Zenon
    <3>2. w.picked \subseteq w.allowed
      BY <2>3, <3>1, Zenon DEF Permitted
    <3>. QED  BY <1>0, <3>1, <3>2, OneTabMoves, Zenon
  <2>. QED  BY <1>1, <2>1, <2>3, Zenon
<1>9. ASSUME NEW t \in Tabs, Plan(t) PROVE DeletionInv'
  <2>1. tab[t].step = "plan" /\ (Leaves(t) \/ Continues(t, "delete"))
    BY <1>9, Zenon DEF Plan
  <2>2. CASE Continues(t, "delete")
    <3>1. PICK w \in Tab : tab' = [tab EXCEPT ![t] = w] /\ w = [tab[t] EXCEPT !.step = "delete"]
      BY <1>0, <2>2, ContinuesTyped, Zenon DEF DeletionSteps
    <3>2. w.picked = tab[t].picked /\ w.allowed = tab[t].allowed
      <4>1. tab[t] \in Tab
        BY <1>0, Zenon
      <4>. QED  BY <3>1, <4>1, SMT DEF Tab
    <3>3. w.picked \subseteq w.allowed
      BY <2>1, <3>2, Zenon DEF DeletionInv
    <3>. QED  BY <1>0, <3>1, <3>3, OneTabMoves, Zenon
  <2>. QED  BY <1>1, <2>1, <2>2, Zenon
<1>10. ASSUME tab' = tab PROVE DeletionInv'
  BY <1>10, Zenon DEF DeletionInv
<1>11. ASSUME NEW o \in Objects, Add(o) \/ Rotate(o) \/ Interfere(o) PROVE tab' = tab
  BY <1>11, Zenon DEF Add, Rotate, Interfere
<1>12. CASE UNCHANGED centerVars
  BY <1>10, <1>12, Zenon DEF centerVars
<1>. QED  BY <1>4, <1>5, <1>6, <1>7, <1>8, <1>9, <1>10, <1>11, <1>12, Zenon DEF CenterNext

\* Only a deletion of a tab, or somebody else, makes rows disappear.
LEMMA WhoDeletes ==
  ASSUME [CenterNext]_centerVars
  PROVE  rows \subseteq rows' \/ tab' = tab \/ \E t \in Tabs : Delete(t)
<1>1. ASSUME NEW t \in Tabs,
             \/ ShowList(t) \/ Save(t) \/ SaveFails(t) \/ ShowBulk(t) \/ Confirm(t) \/ Plan(t)
             \/ DeleteFails(t) \/ Forget(t)
      PROVE  rows \subseteq rows'
  BY <1>1, Zenon DEF ShowList, Save, SaveFails, ShowBulk, Confirm, Plan, DeleteFails, Forget
<1>2. ASSUME NEW t \in Tabs, NEW o \in Objects, ShowForm(t, o) \/ ShowDelete(t, o)
      PROVE  rows \subseteq rows'
  BY <1>2, Zenon DEF ShowForm, ShowDelete
<1>3. ASSUME NEW t \in Tabs, NEW S \in SUBSET Objects, Submit(t, S) \/ Act(t, S) \/ SelectDelete(t, S)
      PROVE  rows \subseteq rows'
  BY <1>3, Zenon DEF Submit, Act, SelectDelete
<1>4. ASSUME NEW o \in Objects, Add(o) \/ Rotate(o) \/ Interfere(o)
      PROVE  tab' = tab
  BY <1>4, Zenon DEF Add, Rotate, Interfere
<1>5. CASE UNCHANGED centerVars
  BY <1>5, Zenon DEF centerVars
<1>. QED  BY <1>1, <1>2, <1>3, <1>4, <1>5, Zenon DEF CenterNext

\* Whatever others do between the page or the selection and the transaction, and
\* whichever tab chose the rows: a deletion removes only rows that the administrator
\* might still delete when its confirmation was sent.
THEOREM DeletionsAreChecked == CenterSpec => DeletedWasAllowed
<1>. DEFINE Checked == \A t \in Tabs : tab'[t] # tab[t] => rows \ rows' \subseteq tab[t].allowed
<1>1. CenterInit => DeletionInv
  <2>1. Blank.step \notin {"plan", "delete"}
    BY BlankSteps, SMT
  <2>. QED  BY <2>1, Zenon DEF CenterInit, DeletionInv
<1>2. CenterWithin /\ DeletionInv /\ [CenterNext]_centerVars => Checked
  <2>. SUFFICES ASSUME CenterWithin, DeletionInv, [CenterNext]_centerVars,
                       NEW t \in Tabs, tab'[t] # tab[t]
                PROVE  rows \ rows' \subseteq tab[t].allowed
    OBVIOUS
  <2>1. CASE rows \subseteq rows'
    BY <2>1, Zenon
  <2>2. ASSUME NEW x \in Tabs, Delete(x) PROVE rows \ rows' \subseteq tab[t].allowed
    <3>1. /\ tab[x].step = "delete" /\ rows \ rows' \subseteq tab[x].picked
          /\ Leaves(x) \/ Forgets(x)
      BY <2>2, Zenon DEF Delete
    <3>2. tab \in [Tabs -> Tab]
      BY Zenon DEF CenterWithin, CenterTypeOK
    <3>3. t = x
      BY <3>1, <3>2, Zenon DEF Leaves, Forgets
    <3>4. tab[x].picked \subseteq tab[x].allowed
      BY <3>1, Zenon DEF DeletionInv
    <3>. QED  BY <3>1, <3>3, <3>4, Zenon
  <2>. QED  BY <2>1, <2>2, WhoDeletes, Zenon
<1>3. CenterWithin /\ DeletionInv /\ [CenterNext]_centerVars => DeletionInv'
  BY DeletionStep
<1>4. CenterWithin /\ DeletionInv /\ [CenterNext]_centerVars => [Checked]_centerVars
  BY <1>2, Zenon
<1>. QED  BY <1>1, <1>3, <1>4, CenterInvariant, PTL DEF CenterSpec, DeletedWasAllowed

=============================================================================
