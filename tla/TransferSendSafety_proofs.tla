--------------------- MODULE TransferSendSafety_proofs ---------------------
(* The safety invariants of TransferSend.  The inductive invariant has one  *)
(* part per transfer, Safe(t): what the checked invariants say of it, and   *)
(* the two facts about work outside the row lock they rest on.              *)
EXTENDS TransferSend_proofs

\* No row exists while a creation is between its check and its insert, and a
\* transfer without a row has no session and no file to hand back.
Fresh(t) ==
    /\ job[t].preflighted => row[t].status = "none"
    /\ row[t].status = "none" => upload[t].status = "none" /\ ~job[t].moveBack

\* While a failed completion has yet to hand the file back, no other request
\* can have refilled the temporary file or completed the upload.
HandBackSafe(t) ==
    job[t].moveBack =>
        /\ file[t].temp = NoBytes
        /\ upload[t].status # "completed"
        /\ upload[t].status = "none" \/ upload[t].chunks = NumChunks

Swept(t) == job[t].sweep # {} => Spent(t)

Retryable(t) ==
    row[t].status = "failed" /\ upload[t].status = "completed" =>
        upload[t].stored /\ Len(file[t].staging) = NumChunks

Delivered(t) ==
    row[t].status = "completed" =>
        /\ row[t].sum # NoSum
        /\ file[t].published = row[t].sum
        /\ Len(file[t].published) = NumChunks

Safe(t) == Fresh(t) /\ HandBackSafe(t) /\ Swept(t) /\ Retryable(t) /\ Delivered(t)

SafeInv == TypeOK /\ \A t \in Transfers : Safe(t)

Step(t) == Request(t) \/ Maintenance(t) \/ Cleanup(t) \/ ComesDue(t) \/ UploadAges(t)

Untouched(u) == row'[u] = row[u] /\ upload'[u] = upload[u] /\ file'[u] = file[u] /\ job'[u] = job[u]

\* What a transfer's own records look like under TypeOK.
LEMMA Records ==
    ASSUME TypeOK, NEW t \in Transfers
    PROVE  row[t] \in Row /\ upload[t] \in Upload /\ file[t] \in File /\ job[t] \in Job
  BY DEF TypeOK

LEMMA FinalizeFrame ==
    ASSUME TypeOK, NEW t \in Transfers, NEW u \in Transfers \ {t}, NEW c, NEW large,
           Finalize(t, c, large)
    PROVE  Untouched(u)
<1>1. CASE FinalizeRejects(t, c, large)
  BY <1>1 DEF FinalizeRejects, RowAfter, Untouched, TypeOK
<1>2. CASE FinalizeDefers(t, c, large)
  BY <1>2 DEF FinalizeDefers, RowAfter, Untouched, TypeOK
<1>3. CASE FinalizeCollides(t, c, large)
  BY <1>3 DEF FinalizeCollides, RowAfter, Untouched, TypeOK
<1>4. CASE FinalizePublishes(t, c, large)
  BY <1>4 DEF FinalizePublishes, RowAfter, Untouched, TypeOK
<1>5. CASE PromotionFails(t, c, large)
  BY <1>5 DEF PromotionFails, RowAfter, Untouched, TypeOK
<1>6. CASE FailsAfterLink(t, c, large)
  BY <1>6 DEF FailsAfterLink, RowAfter, Untouched, TypeOK
<1>7. CASE FinalizeCrash(t, c, large)
  BY <1>7 DEF FinalizeCrash, Untouched, TypeOK
<1>8. QED
  BY <1>1, <1>2, <1>3, <1>4, <1>5, <1>6, <1>7 DEF Finalize

LEMMA RequestFrame ==
    ASSUME TypeOK, NEW t \in Transfers, NEW u \in Transfers \ {t}, Request(t)
    PROVE  Untouched(u)
<1>1. CASE Preflight(t) \/ CreateRefused(t)
  BY <1>1 DEF Preflight, CreateRefused, Untouched, TypeOK
<1>2. ASSUME NEW c \in Sums \union {NoSum}, Create(t, c) PROVE Untouched(u)
  BY <1>2 DEF Create, Untouched, TypeOK
<1>3. CASE StoreChunk(t) \/ ChunkRolledBack(t)
  BY <1>3 DEF StoreChunk, ChunkRolledBack, Untouched, TypeOK
<1>4. CASE ChunkFailsEarly(t) \/ ChunkCrash(t) \/ UndoChunk(t)
  BY <1>4 DEF ChunkFailsEarly, ChunkCrash, UndoChunk, Untouched, TypeOK
<1>5. CASE CompleteUpload(t) \/ FailUpload(t)
  BY <1>5 DEF CompleteUpload, FailUpload, Untouched, TypeOK
<1>6. CASE CompletionRolledBack(t) \/ MoveBack(t)
  BY <1>6 DEF CompletionRolledBack, MoveBack, Untouched, TypeOK
<1>7. CASE Resume(t) \/ Pause(t) \/ Retry(t) \/ Cancel(t)
  BY <1>7 DEF Resume, Pause, Retry, Cancel, Untouched, TypeOK
<1>8. CASE ClientFinalize(t)
  BY <1>8, FinalizeFrame DEF ClientFinalize
<1>9. QED
  BY <1>1, <1>2, <1>3, <1>4, <1>5, <1>6, <1>7, <1>8 DEF Request

\* A step on one transfer leaves the records of the others as they were.
LEMMA Frame ==
    ASSUME TypeOK, NEW t \in Transfers, NEW u \in Transfers \ {t}, Step(t)
    PROVE  Untouched(u)
<1>1. CASE Expire(t) \/ MaintenanceGivesUp(t)
  BY <1>1 DEF Expire, MaintenanceGivesUp, Untouched, TypeOK
<1>2. CASE SweepStaging(t) \/ SweepTemp(t) \/ Crash(t)
  BY <1>2 DEF SweepStaging, SweepTemp, Crash, Untouched, TypeOK
<1>3. CASE Condemn(t) \/ DeleteUpload(t) \/ ComesDue(t) \/ UploadAges(t)
  BY <1>3 DEF Condemn, DeleteUpload, ComesDue, UploadAges, Untouched, TypeOK
<1>4. CASE MaintenanceVerifies(t)
  BY <1>4, FinalizeFrame DEF MaintenanceVerifies
<1>5. QED
  BY <1>1, <1>2, <1>3, <1>4, RequestFrame DEF Step, Maintenance, Cleanup

LEMMA UntouchedSafe ==
    ASSUME NEW u \in Transfers, Untouched(u), Safe(u)
    PROVE  Safe(u)'
  BY DEF Untouched, Safe, Fresh, HandBackSafe, Swept, Spent, Retryable, Delivered

(* Each action on t keeps Safe(t). *)

LEMMA NoBytesShort == Len(NoBytes) # NumChunks
  BY SendAssumption DEF NoBytes

LEMMA ChunksSafe ==
    ASSUME TypeOK, NEW t \in Transfers, Safe(t),
           \/ StoreChunk(t) \/ ChunkRolledBack(t) \/ ChunkFailsEarly(t) \/ ChunkCrash(t)
           \/ UndoChunk(t)
    PROVE  Safe(t)'
<1>1. CASE StoreChunk(t)
  BY <1>1, Records DEF StoreChunk, ChunkAccepted, ChunkExpected, UploadOpen, Terminal, TypeOK, Row, Upload, File, Job,
     Safe, Fresh, HandBackSafe, Swept, Spent, Retryable, Delivered
<1>2. CASE ChunkRolledBack(t)
  BY <1>2, Records DEF ChunkRolledBack, ChunkAccepted, ChunkExpected, UploadOpen, Terminal, TypeOK, Row, Upload, File, Job,
     Safe, Fresh, HandBackSafe, Swept, Spent, Retryable, Delivered
<1>3. CASE ChunkFailsEarly(t)
  BY <1>3, Records DEF ChunkFailsEarly, TypeOK, Row, Upload, File, Job,
     Safe, Fresh, HandBackSafe, Swept, Spent, Retryable, Delivered
<1>4. CASE ChunkCrash(t)
  BY <1>4, Records DEF ChunkCrash, ChunkAccepted, ChunkExpected, UploadOpen, Terminal, TypeOK, Row, Upload, File, Job,
     Safe, Fresh, HandBackSafe, Swept, Spent, Retryable, Delivered
<1>5. CASE UndoChunk(t)
  BY <1>5, Records DEF UndoChunk, TypeOK, Row, Upload, File, Job,
     Safe, Fresh, HandBackSafe, Swept, Spent, Retryable, Delivered
<1>6. QED
  BY <1>1, <1>2, <1>3, <1>4, <1>5

LEMMA CompletionSafe ==
    ASSUME TypeOK, NEW t \in Transfers, Safe(t),
           CompleteUpload(t) \/ FailUpload(t) \/ CompletionRolledBack(t) \/ MoveBack(t)
    PROVE  Safe(t)'
<1>1. CASE CompleteUpload(t)
  <2>1. ~job[t].moveBack
    BY <1>1, NoBytesShort DEF CompleteUpload, Safe, HandBackSafe
  <2>2. row[t].status \notin Terminal \union {"none"}
    BY <1>1 DEF CompleteUpload, CompletionAccepted, UploadOpen
  <2>3. QED
    BY <1>1, <2>1, <2>2, Records DEF CompleteUpload, Terminal, TypeOK, Row, Upload, File, Job,
       Safe, Fresh, HandBackSafe, Swept, Spent, Retryable, Delivered
<1>2. CASE FailUpload(t)
  BY <1>2, Records DEF FailUpload, CompletionAccepted, UploadOpen, Terminal, TypeOK, Row, Upload, File, Job,
     Safe, Fresh, HandBackSafe, Swept, Spent, Retryable, Delivered
<1>3. CASE CompletionRolledBack(t)
  BY <1>3, Records DEF CompletionRolledBack, CompletionAccepted, UploadOpen, Terminal, TypeOK, Row, Upload, File, Job,
     Safe, Fresh, HandBackSafe, Swept, Spent, Retryable, Delivered
<1>4. CASE MoveBack(t)
  BY <1>4, Records DEF MoveBack, TypeOK, Row, Upload, File, Job,
     Safe, Fresh, HandBackSafe, Swept, Spent, Retryable, Delivered
<1>5. QED
  BY <1>1, <1>2, <1>3, <1>4

LEMMA CommandsSafe ==
    ASSUME TypeOK, NEW t \in Transfers, Safe(t),
           Preflight(t) \/ CreateRefused(t) \/ Resume(t) \/ Pause(t) \/ Retry(t) \/ Cancel(t)
    PROVE  Safe(t)'
<1>1. CASE Preflight(t)
  BY <1>1, Records DEF Preflight, TypeOK, Row, Upload, File, Job,
     Safe, Fresh, HandBackSafe, Swept, Spent, Retryable, Delivered
<1>2. CASE CreateRefused(t)
  BY <1>2, Records DEF CreateRefused, TypeOK, Row, Upload, File, Job,
     Safe, Fresh, HandBackSafe, Swept, Spent, Retryable, Delivered
<1>3. CASE Resume(t)
  BY <1>3, Records DEF Resume, PayloadUsable, RestartStatus, Active, TypeOK, Row, Upload, File, Job,
     Safe, Fresh, HandBackSafe, Swept, Spent, Retryable, Delivered
<1>4. CASE Pause(t)
  BY <1>4, Records DEF Pause, TypeOK, Row, Upload, File, Job,
     Safe, Fresh, HandBackSafe, Swept, Spent, Retryable, Delivered
<1>5. CASE Retry(t)
  BY <1>5, Records DEF Retry, PayloadUsable, RestartStatus, Active, TypeOK, Row, Upload, File, Job,
     Safe, Fresh, HandBackSafe, Swept, Spent, Retryable, Delivered
<1>6. CASE Cancel(t)
  BY <1>6, Records DEF Cancel, SyncedUpload, TypeOK, Row, Upload, File, Job,
     Safe, Fresh, HandBackSafe, Swept, Spent, Retryable, Delivered
<1>7. QED
  BY <1>1, <1>2, <1>3, <1>4, <1>5, <1>6

LEMMA MaintenanceSafe ==
    ASSUME TypeOK, NEW t \in Transfers, Safe(t),
           \/ Expire(t) \/ MaintenanceGivesUp(t) \/ SweepStaging(t) \/ SweepTemp(t) \/ Crash(t)
           \/ Cleanup(t) \/ ComesDue(t) \/ UploadAges(t)
    PROVE  Safe(t)'
<1>1. CASE Expire(t)
  BY <1>1, Records DEF Expire, SyncedUpload, Active, TypeOK, Row, Upload, File, Job,
     Safe, Fresh, HandBackSafe, Swept, Spent, Retryable, Delivered
<1>2. CASE MaintenanceGivesUp(t)
  BY <1>2, Records DEF MaintenanceGivesUp, SyncedUpload, TypeOK, Row, Upload, File, Job,
     Safe, Fresh, HandBackSafe, Swept, Spent, Retryable, Delivered
<1>3. CASE SweepStaging(t)
  BY <1>3, Records DEF SweepStaging, TypeOK, Row, Upload, File, Job,
     Safe, Fresh, HandBackSafe, Swept, Spent, Retryable, Delivered
<1>4. CASE SweepTemp(t)
  BY <1>4, Records DEF SweepTemp, TypeOK, Row, Upload, File, Job,
     Safe, Fresh, HandBackSafe, Swept, Spent, Retryable, Delivered
<1>5. CASE Crash(t)
  BY <1>5, Records DEF Crash, TypeOK, Row, Upload, File, Job,
     Safe, Fresh, HandBackSafe, Swept, Spent, Retryable, Delivered
<1>6. CASE Condemn(t)
  BY <1>6, Records DEF Condemn, TypeOK, Row, Upload, File, Job,
     Safe, Fresh, HandBackSafe, Swept, Spent, Retryable, Delivered
<1>7. CASE DeleteUpload(t)
  BY <1>7, Records DEF DeleteUpload, NoUpload, TypeOK, Row, Upload, File, Job,
     Safe, Fresh, HandBackSafe, Swept, Spent, Retryable, Delivered
<1>8. CASE ComesDue(t)
  BY <1>8, Records DEF ComesDue, Active, TypeOK, Row, Upload, File, Job,
     Safe, Fresh, HandBackSafe, Swept, Spent, Retryable, Delivered
<1>9. CASE UploadAges(t)
  BY <1>9, Records DEF UploadAges, TypeOK, Row, Upload, File, Job,
     Safe, Fresh, HandBackSafe, Swept, Spent, Retryable, Delivered
<1>10. QED
  BY <1>1, <1>2, <1>3, <1>4, <1>5, <1>6, <1>7, <1>8, <1>9 DEF Cleanup

LEMMA CreateSafe ==
    ASSUME TypeOK, NEW t \in Transfers, Safe(t), NEW c, Create(t, c)
    PROVE  Safe(t)'
  BY Records DEF Create, TypeOK, Row, Upload, File, Job,
     Safe, Fresh, HandBackSafe, Swept, Spent, Retryable, Delivered

\* The finalizer acts on an active row with a completed session, so nothing
\* is pending for the transfer but a repair of its temporary file.
LEMMA FinalizeIdle ==
    ASSUME TypeOK, NEW t \in Transfers, Safe(t), FinalizeAccepted(t)
    PROVE  ~job[t].preflighted /\ ~job[t].moveBack /\ job[t].sweep = {}
  BY DEF FinalizeAccepted, Safe, Fresh, HandBackSafe, Swept, Spent

LEMMA FinalizeSafe ==
    ASSUME TypeOK, NEW t \in Transfers, Safe(t), NEW c \in Sums \union {NoSum},
           NEW large \in BOOLEAN, Finalize(t, c, large)
    PROVE  Safe(t)'
<1>1. CASE FinalizeRejects(t, c, large)
  <2>1. FinalizeAccepted(t)
    BY <1>1 DEF FinalizeRejects, Verified, Promotable
  <2>2. QED
    BY <1>1, <2>1, FinalizeIdle, Records DEF FinalizeRejects, SyncedUpload, RowAfter, TypeOK, Row, Upload, File, Job,
       Safe, Fresh, HandBackSafe, Swept, Spent, Retryable, Delivered
<1>2. CASE FinalizeDefers(t, c, large)
  <2>1. FinalizeAccepted(t)
    BY <1>2 DEF FinalizeDefers, Verified, Promotable
  <2>2. QED
    BY <1>2, <2>1, FinalizeIdle, Records DEF FinalizeDefers, RowAfter, TypeOK, Row, Upload, File, Job,
       Safe, Fresh, HandBackSafe, Swept, Spent, Retryable, Delivered
<1>3. CASE FinalizeCollides(t, c, large)
  <2>1. FinalizeAccepted(t)
    BY <1>3 DEF FinalizeCollides, Verified, Promotable
  <2>2. QED
    BY <1>3, <2>1, FinalizeIdle, Records DEF FinalizeCollides, Verified, Promotable, PayloadSound, RowAfter, TypeOK, Row, Upload, File, Job,
       Safe, Fresh, HandBackSafe, Swept, Spent, Retryable, Delivered
<1>4. CASE FinalizePublishes(t, c, large)
  <2>1. FinalizeAccepted(t)
    BY <1>4 DEF FinalizePublishes, Verified, Promotable
  <2>2. QED
    BY <1>4, <2>1, FinalizeIdle, Records DEF FinalizePublishes, Verified, Promotable, PayloadSound, SyncedUpload, RowAfter, TypeOK, Row, Upload, File, Job,
       Safe, Fresh, HandBackSafe, Swept, Spent, Retryable, Delivered
<1>5. CASE PromotionFails(t, c, large)
  <2>1. FinalizeAccepted(t)
    BY <1>5 DEF PromotionFails, Verified, Promotable
  <2>2. QED
    BY <1>5, <2>1, FinalizeIdle, Records DEF PromotionFails, Promotable, PayloadSound, RowAfter, TypeOK, Row, Upload, File, Job,
       Safe, Fresh, HandBackSafe, Swept, Spent, Retryable, Delivered
<1>6. CASE FailsAfterLink(t, c, large)
  <2>1. FinalizeAccepted(t)
    BY <1>6 DEF FailsAfterLink, Verified, Promotable
  <2>2. QED
    BY <1>6, <2>1, FinalizeIdle, Records DEF FailsAfterLink, Verified, Promotable, PayloadSound, RowAfter, TypeOK, Row, Upload, File, Job,
       Safe, Fresh, HandBackSafe, Swept, Spent, Retryable, Delivered
<1>7. CASE FinalizeCrash(t, c, large)
  <2>1. FinalizeAccepted(t)
    BY <1>7 DEF FinalizeCrash, Verified, Promotable
  <2>2. QED
    BY <1>7, <2>1, FinalizeIdle, Records DEF FinalizeCrash, Verified, Promotable, FinalizeAccepted, TypeOK, Row, Upload, File, Job,
       Safe, Fresh, HandBackSafe, Swept, Spent, Retryable, Delivered
<1>8. QED
  BY <1>1, <1>2, <1>3, <1>4, <1>5, <1>6, <1>7 DEF Finalize

LEMMA StepSafe ==
    ASSUME TypeOK, NEW t \in Transfers, Safe(t), Step(t)
    PROVE  Safe(t)'
<1>1. CASE Request(t)
  BY <1>1, ChunksSafe, CompletionSafe, CommandsSafe, CreateSafe, FinalizeSafe
     DEF Request, ClientFinalize
<1>2. CASE Maintenance(t)
  BY <1>2, MaintenanceSafe, FinalizeSafe DEF Maintenance, MaintenanceVerifies
<1>3. CASE Cleanup(t) \/ ComesDue(t) \/ UploadAges(t)
  BY <1>3, MaintenanceSafe
<1>4. QED
  BY <1>1, <1>2, <1>3 DEF Step

LEMMA InitSafe == Init => SafeInv
<1> SUFFICES ASSUME Init, NEW t \in Transfers PROVE Safe(t)
  BY TypeInit DEF SafeInv
<1>1. QED
  BY DEF Init, Safe, Fresh, HandBackSafe, Swept, Spent, Retryable, Delivered, NoUpload

LEMMA NextSafe == SafeInv /\ [Next]_vars => SafeInv'
<1> SUFFICES ASSUME SafeInv, [Next]_vars, NEW u \in Transfers PROVE Safe(u)'
  BY TypeStep DEF SafeInv
<1>1. CASE UNCHANGED vars \/ \E n \in Names : ExchangeChanges(n)
  BY <1>1, UntouchedSafe DEF SafeInv, vars, ExchangeChanges, Untouched
<1>2. ASSUME NEW t \in Transfers, Step(t) PROVE Safe(u)'
  <2>1. CASE u = t
    BY <1>2, <2>1, StepSafe DEF SafeInv
  <2>2. CASE u # t
    BY <1>2, <2>2, Frame, UntouchedSafe DEF SafeInv
  <2>3. QED
    BY <2>1, <2>2
<1>3. QED
  BY <1>1, <1>2 DEF Next, Step

\* A completed transfer has in the exchange exactly the bytes its recorded
\* checksum was taken over, all NumChunks of them, whatever rollbacks, deaths
\* and repairs its chunk file went through (sync_finalize_send).
THEOREM CompletedIsVerified == Spec => []CompletedVerified
<1>1. SafeInv => CompletedVerified
  BY DEF SafeInv, Safe, Delivered, CompletedVerified
<1>2. QED
  BY <1>1, InitSafe, NextSafe, PTL DEF Spec

\* The file deletions cancel_transfer and maintenance leave for after their
\* commit only ever touch files no command can bring back into use.
THEOREM SweepHitsOnlySpent == Spec => []SweepOnlySpent
<1>1. SafeInv => SweepOnlySpent
  BY DEF SafeInv, Safe, Swept, SweepOnlySpent
<1>2. QED
  BY <1>1, InitSafe, NextSafe, PTL DEF Spec

\* A failed transfer whose session is complete can be retried: no rollback,
\* death, repair or sweep takes its staged bytes (retry_transfer's check).
THEOREM RetryFindsBytes == Spec => []RetryableHasBytes
<1>1. SafeInv => RetryableHasBytes
  BY DEF SafeInv, Safe, Retryable, RetryableHasBytes
<1>2. QED
  BY <1>1, InitSafe, NextSafe, PTL DEF Spec

-----------------------------------------------------------------------------
(* The slot bound.  Only a creation and a retry make a transfer active, and *)
(* both hold the singleton lock while they count.                           *)

LEMMA FinalizeNeedsActive ==
    ASSUME NEW t \in Transfers, NEW c, NEW large, Finalize(t, c, large), TypeOK
    PROVE  row[t].status \in Active
  BY DEF Finalize, FinalizeRejects, FinalizeDefers, FinalizeCollides, FinalizePublishes,
     PromotionFails, FailsAfterLink, FinalizeCrash, Verified, Promotable, FinalizeAccepted, Active

LEMMA BecomesActive ==
    ASSUME TypeOK, NEW t \in Transfers, Step(t), row'[t].status \in Active
    PROVE  row[t].status \in Active \/ SlotFree
<1>1. CASE Preflight(t) \/ CreateRefused(t) \/ StoreChunk(t) \/ ChunkRolledBack(t)
           \/ ChunkFailsEarly(t) \/ ChunkCrash(t) \/ UndoChunk(t)
  BY <1>1 DEF Preflight, CreateRefused, StoreChunk, ChunkRolledBack, ChunkFailsEarly, ChunkCrash,
     UndoChunk
<1>2. CASE CompleteUpload(t) \/ FailUpload(t) \/ CompletionRolledBack(t) \/ MoveBack(t)
  BY <1>2 DEF CompleteUpload, FailUpload, CompletionRolledBack, MoveBack
<1>3. CASE Resume(t) \/ Pause(t) \/ Retry(t) \/ \E c \in Sums \union {NoSum} : Create(t, c)
  BY <1>3 DEF Resume, Pause, Retry, Create, Active
<1>4. CASE Cancel(t) \/ Expire(t) \/ MaintenanceGivesUp(t)
  BY <1>4 DEF Cancel, Expire, MaintenanceGivesUp, Active, TypeOK, Row
<1>5. CASE SweepStaging(t) \/ SweepTemp(t) \/ Crash(t) \/ Condemn(t) \/ DeleteUpload(t)
           \/ UploadAges(t) \/ ComesDue(t)
  BY <1>5 DEF SweepStaging, SweepTemp, Crash, Condemn, DeleteUpload, UploadAges, ComesDue
<1>6. CASE ClientFinalize(t) \/ MaintenanceVerifies(t)
  BY <1>6, FinalizeNeedsActive DEF ClientFinalize, MaintenanceVerifies
<1>7. QED
  BY <1>1, <1>2, <1>3, <1>4, <1>5, <1>6 DEF Step, Request, Maintenance, Cleanup

LEMMA ActiveFinite ==
    IsFiniteSet(ActiveTransfers) /\ Cardinality(ActiveTransfers) \in Nat
<1>1. ActiveTransfers \subseteq Transfers
  BY DEF ActiveTransfers
<1>2. QED
  BY <1>1, SendAssumption, FS_Subset, FS_CardinalityType

LEMMA SlotInit == Init => SlotBound
<1> SUFFICES ASSUME Init PROVE SlotBound
  OBVIOUS
<1>1. ActiveTransfers = {}
  BY DEF Init, ActiveTransfers, Active
<1>2. QED
  BY <1>1, FS_EmptySet, SendAssumption DEF SlotBound

LEMMA SlotStep == TypeOK /\ SlotBound /\ [Next]_vars => SlotBound'
<1> SUFFICES ASSUME TypeOK, SlotBound, [Next]_vars PROVE SlotBound'
  OBVIOUS
<1>1. CASE UNCHANGED vars \/ \E n \in Names : ExchangeChanges(n)
  <2>1. ActiveTransfers' = ActiveTransfers
    BY <1>1 DEF vars, ExchangeChanges, ActiveTransfers
  <2>2. QED
    BY <2>1 DEF SlotBound
<1>2. ASSUME NEW t \in Transfers, Step(t) PROVE SlotBound'
  <2>1. ActiveTransfers' \subseteq ActiveTransfers \union {t}
    BY <1>2, Frame DEF ActiveTransfers, Untouched
  <2>2. CASE SlotFree
    <3>1. IsFiniteSet(ActiveTransfers \union {t})
          /\ Cardinality(ActiveTransfers \union {t}) <= Cardinality(ActiveTransfers) + 1
      BY ActiveFinite, FS_AddElement
    <3>2. Cardinality(ActiveTransfers') <= Cardinality(ActiveTransfers \union {t})
      BY <2>1, <3>1, FS_Subset
    <3>3. Cardinality(ActiveTransfers \union {t}) \in Nat /\ Cardinality(ActiveTransfers') \in Nat
      BY <2>1, <3>1, FS_CardinalityType, FS_Subset
    <3>4. QED
      BY <2>2, <3>1, <3>2, <3>3, ActiveFinite, SendAssumption DEF SlotFree, SlotBound
  <2>3. CASE ~SlotFree
    <3>1. row'[t].status \in Active => row[t].status \in Active
      BY <1>2, <2>3, BecomesActive
    <3>2. ActiveTransfers' \subseteq ActiveTransfers
      BY <2>1, <3>1 DEF ActiveTransfers
    <3>3. Cardinality(ActiveTransfers') <= Cardinality(ActiveTransfers)
      BY <3>2, ActiveFinite, FS_Subset
    <3>4. Cardinality(ActiveTransfers') \in Nat
      BY <3>2, ActiveFinite, FS_Subset, FS_CardinalityType
    <3>5. QED
      BY <3>3, <3>4, ActiveFinite, SendAssumption DEF SlotBound
  <2>4. QED
    BY <2>2, <2>3
<1>3. QED
  BY <1>1, <1>2 DEF Next, Step

\* "No unbounded concurrency": however creations, retries of failed transfers
\* and resumes interleave, at most TRANSFER_MAX_CONCURRENT sends are active.
THEOREM SlotsAreBounded == Spec => []SlotBound
<1>1. QED
  BY TypeInit, TypeStep, SlotInit, SlotStep, PTL DEF Spec

-----------------------------------------------------------------------------
(* Promotion never overwrites. *)

LEMMA FinalizeNoOverwrite ==
    ASSUME TypeOK, NEW t \in Transfers, NEW c, NEW large, Finalize(t, c, large)
    PROVE  NoOverwrite
<1>1. CASE FinalizeRejects(t, c, large) \/ FinalizeDefers(t, c, large)
           \/ FinalizeCollides(t, c, large) \/ PromotionFails(t, c, large)
  BY <1>1 DEF FinalizeRejects, FinalizeDefers, FinalizeCollides, PromotionFails, RowAfter,
     NoOverwrite, TypeOK, Row
<1>2. CASE FinalizePublishes(t, c, large)
  BY <1>2, SendAssumption DEF FinalizePublishes, RowAfter, NoOverwrite, TypeOK, Row
<1>3. CASE FailsAfterLink(t, c, large)
  BY <1>3, SendAssumption DEF FailsAfterLink, RowAfter, NoOverwrite, TypeOK, Row
<1>4. CASE FinalizeCrash(t, c, large)
  BY <1>4, SendAssumption DEF FinalizeCrash, NoOverwrite, TypeOK
<1>5. QED
  BY <1>1, <1>2, <1>3, <1>4 DEF Finalize

LEMMA RequestNoOverwrite ==
    ASSUME TypeOK, NEW t \in Transfers, Request(t)
    PROVE  NoOverwrite
<1>1. CASE Preflight(t) \/ CreateRefused(t) \/ StoreChunk(t) \/ ChunkRolledBack(t)
           \/ ChunkFailsEarly(t) \/ ChunkCrash(t) \/ UndoChunk(t)
  BY <1>1 DEF Preflight, CreateRefused, StoreChunk, ChunkRolledBack, ChunkFailsEarly, ChunkCrash,
     UndoChunk, NoOverwrite
<1>2. CASE CompleteUpload(t) \/ FailUpload(t) \/ CompletionRolledBack(t) \/ MoveBack(t)
  BY <1>2 DEF CompleteUpload, FailUpload, CompletionRolledBack, MoveBack, NoOverwrite
<1>3. CASE Resume(t) \/ Pause(t) \/ Retry(t) \/ Cancel(t)
  <2>1. CASE Resume(t)
    BY <2>1 DEF Resume, RestartStatus, NoOverwrite, TypeOK, Row
  <2>2. CASE Pause(t)
    BY <2>2 DEF Pause, NoOverwrite, TypeOK, Row
  <2>3. CASE Retry(t)
    BY <2>3 DEF Retry, RestartStatus, NoOverwrite, TypeOK, Row
  <2>4. CASE Cancel(t)
    BY <2>4 DEF Cancel, NoOverwrite, TypeOK, Row
  <2>. QED  BY <1>3, <2>1, <2>2, <2>3, <2>4
<1>4. ASSUME NEW c \in Sums \union {NoSum}, Create(t, c) PROVE NoOverwrite
  BY <1>4 DEF Create, NoOverwrite, TypeOK, Row
<1>5. CASE ClientFinalize(t)
  BY <1>5, FinalizeNoOverwrite DEF ClientFinalize
<1>6. QED
  BY <1>1, <1>2, <1>3, <1>4, <1>5 DEF Request

LEMMA NextNoOverwrite == TypeOK /\ [Next]_vars => [NoOverwrite]_vars
<1> SUFFICES ASSUME TypeOK, Next PROVE NoOverwrite
  OBVIOUS
<1>1. ASSUME NEW n \in Names, ExchangeChanges(n) PROVE NoOverwrite
  BY <1>1 DEF ExchangeChanges, NoOverwrite, TypeOK
<1>2. ASSUME NEW t \in Transfers, Step(t) PROVE NoOverwrite
  <2>1. CASE Expire(t) \/ MaintenanceGivesUp(t) \/ ComesDue(t)
    <3>1. exchange' = exchange
      BY <2>1 DEF Expire, MaintenanceGivesUp, ComesDue
    <3>2. \A u \in Transfers : row'[u].status = "completed" => row[u].status = "completed"
      <4>1. row \in [Transfers -> Row]
        BY DEF TypeOK
      <4>2. CASE Expire(t)
        BY <4>1, <4>2 DEF Expire, Row
      <4>3. CASE MaintenanceGivesUp(t)
        BY <4>1, <4>3 DEF MaintenanceGivesUp, Row
      <4>4. CASE ComesDue(t)
        BY <4>1, <4>4 DEF ComesDue, Row
      <4>. QED  BY <2>1, <4>2, <4>3, <4>4
    <3>. QED  BY <3>1, <3>2 DEF NoOverwrite
  <2>2. CASE SweepStaging(t) \/ SweepTemp(t) \/ Crash(t) \/ Cleanup(t) \/ UploadAges(t)
    BY <2>2 DEF SweepStaging, SweepTemp, Crash, Cleanup, Condemn, DeleteUpload, UploadAges,
       NoOverwrite
  <2>3. CASE MaintenanceVerifies(t)
    BY <2>3, FinalizeNoOverwrite DEF MaintenanceVerifies
  <2>4. QED
    BY <1>2, <2>1, <2>2, <2>3, RequestNoOverwrite DEF Step, Maintenance
<1>3. QED
  BY <1>1, <1>2 DEF Next, Step

\* "No silent destination overwrite": whoever holds a name in the exchange
\* keeps it until it leaves by itself, and a transfer completes in the very
\* step that takes its free name (os.link in sync_finalize_send).
THEOREM NeverOverwrites == Spec => NoSilentOverwrite
<1>1. QED
  BY TypeInit, TypeStep, NextNoOverwrite, PTL DEF Spec, NoSilentOverwrite

-----------------------------------------------------------------------------
(* The send half implements TransferLifecycle. *)

PhaseOf == [t \in Transfers |-> Phase(row[t].status)]
TriesOf == [t \in Transfers |-> row[t].retries]

LEMMA PhaseOfActive ==
    ASSUME NEW s \in Statuses
    PROVE  Phase(s) = "active" <=> s \in Active
  BY DEF Phase, Statuses, Active, Terminal

\* The instance has its own copy of Cardinality.
LEMMA SameCardinality == \A S : Lifecycle!Cardinality(S) = Cardinality(S)
  BY DEF Cardinality, Lifecycle!Cardinality

LEMMA SlotMeansSlot == TypeOK /\ SlotFree => Lifecycle!HasSlot
<1> SUFFICES ASSUME TypeOK, SlotFree PROVE Lifecycle!HasSlot
  OBVIOUS
<1>1. {t \in Transfers : PhaseOf[t] = "active"} = ActiveTransfers
  BY PhaseOfActive DEF PhaseOf, ActiveTransfers, TypeOK, Row
<1>2. QED
  BY <1>1, SameCardinality DEF SlotFree, Lifecycle!HasSlot, Lifecycle!Running, PhaseOf

\* How a step on one transfer looks to the lifecycle.
LEMMA OnlyOne ==
    ASSUME TypeOK, TypeOK', NEW t \in Transfers, Step(t)
    PROVE  /\ PhaseOf' = [PhaseOf EXCEPT ![t] = Phase(row'[t].status)]
           /\ TriesOf' = [TriesOf EXCEPT ![t] = row'[t].retries]
<1>1. \A u \in Transfers \ {t} : row'[u] = row[u]
  BY Frame DEF Untouched
<1>2. QED
  BY <1>1 DEF PhaseOf, TriesOf

\* The moves of one transfer the lifecycle has an action, or a stutter, for.
KeepsTries(t) ==
    LET p == Phase(row[t].status)
        q == Phase(row'[t].status)
    IN  /\ row'[t].retries = row[t].retries
        /\ \/ p = q
           \/ p = "none" /\ q = "active" /\ SlotFree
           \/ p = "active" /\ q \in {"failed", "done", "stopped"}
           \/ p = "failed" /\ q = "stopped"

SpendsTry(t) ==
    /\ row'[t].retries = row[t].retries + 1
    /\ row[t].retries < MaxRetries
    /\ Phase(row'[t].status) = "active"
    /\ \/ Phase(row[t].status) = "active"
       \/ Phase(row[t].status) = "failed" /\ SlotFree

LEMMA FinalizeMove ==
    ASSUME TypeOK, NEW t \in Transfers, NEW c, NEW large, Finalize(t, c, large)
    PROVE  KeepsTries(t)
<1>1. row[t].status \in Active
  BY FinalizeNeedsActive
<1>2. row'[t].retries = row[t].retries
      /\ (row' = row \/ row'[t].status \in {"failed", "verifying", "completed"})
  BY DEF Finalize, FinalizeRejects, FinalizeDefers, FinalizeCollides, FinalizePublishes,
     PromotionFails, FailsAfterLink, FinalizeCrash, RowAfter, TypeOK, Row
<1>3. QED
  BY <1>1, <1>2 DEF KeepsTries, Phase, Active

LEMMA StepMove ==
    ASSUME TypeOK, NEW t \in Transfers, Safe(t), Step(t)
    PROVE  KeepsTries(t) \/ SpendsTry(t)
<1>1. CASE Preflight(t) \/ CreateRefused(t) \/ StoreChunk(t) \/ ChunkRolledBack(t)
           \/ ChunkFailsEarly(t) \/ ChunkCrash(t) \/ UndoChunk(t)
  BY <1>1 DEF Preflight, CreateRefused, StoreChunk, ChunkRolledBack, ChunkFailsEarly, ChunkCrash,
     UndoChunk, KeepsTries
<1>2. CASE CompleteUpload(t) \/ FailUpload(t) \/ CompletionRolledBack(t) \/ MoveBack(t)
  BY <1>2 DEF CompleteUpload, FailUpload, CompletionRolledBack, MoveBack, KeepsTries
<1>3. ASSUME NEW c \in Sums \union {NoSum}, Create(t, c) PROVE KeepsTries(t)
  BY <1>3 DEF Create, Safe, Fresh, KeepsTries, Phase, Active, TypeOK, Row
<1>4. CASE Resume(t) \/ Pause(t) \/ ComesDue(t)
  BY <1>4 DEF Resume, Pause, ComesDue, RestartStatus, KeepsTries, Phase, Active, TypeOK, Row
<1>5. CASE Retry(t)
  BY <1>5 DEF Retry, RestartStatus, SpendsTry, Phase, Active, TypeOK, Row
<1>6. CASE Cancel(t) \/ Expire(t) \/ MaintenanceGivesUp(t)
  BY <1>6 DEF Cancel, Expire, MaintenanceGivesUp, KeepsTries, Phase, Active, Terminal, Statuses,
     TypeOK, Row
<1>7. CASE SweepStaging(t) \/ SweepTemp(t) \/ Crash(t) \/ Cleanup(t) \/ UploadAges(t)
  BY <1>7 DEF SweepStaging, SweepTemp, Crash, Cleanup, Condemn, DeleteUpload, UploadAges, KeepsTries
<1>8. CASE ClientFinalize(t) \/ MaintenanceVerifies(t)
  BY <1>8, FinalizeMove DEF ClientFinalize, MaintenanceVerifies
<1>9. QED
  BY <1>1, <1>2, <1>3, <1>4, <1>5, <1>6, <1>7, <1>8 DEF Step, Request, Maintenance

LEMMA MoveMaps ==
    ASSUME TypeOK, TypeOK', NEW t \in Transfers, Step(t), KeepsTries(t) \/ SpendsTry(t)
    PROVE  Lifecycle!Next \/ (PhaseOf' = PhaseOf /\ TriesOf' = TriesOf)
<1>1. /\ PhaseOf \in [Transfers -> {Phase(s) : s \in Statuses}]
      /\ TriesOf \in [Transfers -> Nat]
      /\ PhaseOf[t] = Phase(row[t].status) /\ TriesOf[t] = row[t].retries
  BY DEF PhaseOf, TriesOf, TypeOK, Row
<1>2. CASE KeepsTries(t)
  <2>1. TriesOf' = TriesOf
    BY <1>1, <1>2, OnlyOne DEF KeepsTries
  <2>2. CASE Phase(row[t].status) = Phase(row'[t].status)
    BY <1>1, <2>1, <2>2, OnlyOne
  <2>3. CASE Phase(row[t].status) = "none" /\ Phase(row'[t].status) = "active" /\ SlotFree
    <3>1. Lifecycle!Start(t)
      BY <1>1, <2>1, <2>3, OnlyOne, SlotMeansSlot DEF Lifecycle!Start, PhaseOf, TriesOf
    <3>2. QED
      BY <3>1 DEF Lifecycle!Next
  <2>4. CASE Phase(row[t].status) = "active"
             /\ Phase(row'[t].status) \in {"failed", "done", "stopped"}
    <3>1. Lifecycle!Fail(t) \/ Lifecycle!Finish(t) \/ Lifecycle!Stop(t)
      BY <1>1, <2>1, <2>4, OnlyOne
         DEF Lifecycle!Fail, Lifecycle!Finish, Lifecycle!Stop, PhaseOf, TriesOf
    <3>2. QED
      BY <3>1 DEF Lifecycle!Next
  <2>5. CASE Phase(row[t].status) = "failed" /\ Phase(row'[t].status) = "stopped"
    <3>1. Lifecycle!Stop(t)
      BY <1>1, <2>1, <2>5, OnlyOne DEF Lifecycle!Stop, PhaseOf, TriesOf
    <3>2. QED
      BY <3>1 DEF Lifecycle!Next
  <2>6. QED
    BY <1>2, <2>2, <2>3, <2>4, <2>5 DEF KeepsTries
<1>3. CASE SpendsTry(t)
  <2>1. Lifecycle!Spend(t)
    BY <1>1, <1>3, OnlyOne, SlotMeansSlot DEF SpendsTry, Lifecycle!Spend, PhaseOf, TriesOf
  <2>2. QED
    BY <2>1 DEF Lifecycle!Next
<1>4. QED
  BY <1>2, <1>3

LEMMA InitMaps == Init => Lifecycle!Init
  BY DEF Init, Lifecycle!Init, Phase, Active

LEMMA NextMaps ==
    SafeInv /\ TypeOK' /\ [Next]_vars => [Lifecycle!Next]_<<PhaseOf, TriesOf>>
<1> SUFFICES ASSUME SafeInv, TypeOK', [Next]_vars
             PROVE  Lifecycle!Next \/ (PhaseOf' = PhaseOf /\ TriesOf' = TriesOf)
  OBVIOUS
<1>1. CASE UNCHANGED vars \/ \E n \in Names : ExchangeChanges(n)
  BY <1>1 DEF vars, ExchangeChanges, PhaseOf, TriesOf
<1>2. ASSUME NEW t \in Transfers, Step(t)
      PROVE  Lifecycle!Next \/ (PhaseOf' = PhaseOf /\ TriesOf' = TriesOf)
  BY <1>2, StepMove, MoveMaps DEF SafeInv
<1>3. QED
  BY <1>1, <1>2 DEF Next, Step

\* The send half of the Transfer Center is an implementation of the lifecycle
\* promised for every transfer: bounded slots, final ends, bounded retries.
THEOREM SendImplementsLifecycle == Spec => ImplementsLifecycle
<1>1. SafeInv /\ TypeOK' /\ [Next]_vars
      => [Lifecycle!Next]_<<[t \in Transfers |-> Phase(row[t].status)],
                            [t \in Transfers |-> row[t].retries]>>
  BY NextMaps DEF PhaseOf, TriesOf
<1>2. SafeInv => TypeOK
  BY DEF SafeInv
<1>3. QED
  BY <1>1, <1>2, InitMaps, InitSafe, NextSafe, PTL
     DEF Spec, ImplementsLifecycle, Lifecycle!Spec

-----------------------------------------------------------------------------
(* Nothing is left behind.  Without faults a completed upload has no        *)
(* temporary file, and of an ended transfer each private file is gone or    *)
(* among the deletions that its last transaction left to do.                *)

Tidy(t) ==
    /\ ~job[t].moveBack
    /\ upload[t].status = "completed" => file[t].temp = NoBytes
    /\ row[t].status \in {"completed", "cancelled", "expired"} /\ upload[t].status # "none" =>
          /\ file[t].staging = NoBytes \/ "staging" \in job[t].sweep
          /\ file[t].temp = NoBytes \/ "temp" \in job[t].sweep

TidyInv == faults = 0 => \A t \in Transfers : Tidy(t)

LEMMA UntouchedTidy ==
    ASSUME NEW u \in Transfers, Untouched(u), Tidy(u)
    PROVE  Tidy(u)'
  BY DEF Untouched, Tidy

LEMMA ChunksTidy ==
    ASSUME TypeOK, NEW t \in Transfers, Safe(t), Tidy(t), faults' = 0,
           \/ StoreChunk(t) \/ ChunkRolledBack(t) \/ ChunkFailsEarly(t) \/ ChunkCrash(t)
           \/ UndoChunk(t)
    PROVE  Tidy(t)'
<1>1. CASE StoreChunk(t)
  BY <1>1, Records DEF StoreChunk, ChunkAccepted, ChunkExpected, UploadOpen, Terminal, TypeOK, Row, Upload, File, Job, Tidy
<1>2. CASE ChunkRolledBack(t) \/ ChunkFailsEarly(t) \/ ChunkCrash(t)
  BY <1>2 DEF ChunkRolledBack, ChunkFailsEarly, ChunkCrash, TypeOK
<1>3. CASE UndoChunk(t)
  BY <1>3, Records DEF UndoChunk, TypeOK, Row, Upload, File, Job, Tidy
<1>4. QED
  BY <1>1, <1>2, <1>3

LEMMA CompletionTidy ==
    ASSUME TypeOK, NEW t \in Transfers, Safe(t), Tidy(t), faults' = 0,
           CompleteUpload(t) \/ FailUpload(t) \/ CompletionRolledBack(t) \/ MoveBack(t)
    PROVE  Tidy(t)'
<1>1. CASE CompleteUpload(t)
  BY <1>1, Records DEF CompleteUpload, CompletionAccepted, UploadOpen, Terminal, TypeOK, Row, Upload, File, Job, Tidy
<1>2. CASE FailUpload(t)
  BY <1>2, Records DEF FailUpload, CompletionAccepted, UploadOpen, Terminal, TypeOK, Row, Upload, File, Job, Tidy
<1>3. CASE CompletionRolledBack(t)
  BY <1>3 DEF CompletionRolledBack, TypeOK
<1>4. CASE MoveBack(t)
  BY <1>4 DEF MoveBack, Tidy
<1>5. QED
  BY <1>1, <1>2, <1>3, <1>4

LEMMA CommandsTidy ==
    ASSUME TypeOK, NEW t \in Transfers, Safe(t), Tidy(t),
           Preflight(t) \/ CreateRefused(t) \/ Resume(t) \/ Pause(t) \/ Retry(t) \/ Cancel(t)
    PROVE  Tidy(t)'
<1>1. CASE Preflight(t)
  BY <1>1, Records DEF Preflight, TypeOK, Row, Upload, File, Job, Tidy
<1>6. CASE CreateRefused(t)
  BY <1>6, Records DEF CreateRefused, TypeOK, Row, Upload, File, Job, Tidy
<1>2. CASE Resume(t)
  BY <1>2, Records DEF Resume, PayloadUsable, RestartStatus, Active, TypeOK, Row, Upload, File, Job, Tidy
<1>3. CASE Pause(t)
  BY <1>3, Records DEF Pause, TypeOK, Row, Upload, File, Job, Tidy
<1>4. CASE Retry(t)
  BY <1>4, Records DEF Retry, PayloadUsable, RestartStatus, TypeOK, Row, Upload, File, Job, Tidy
<1>5. CASE Cancel(t)
  BY <1>5, Records DEF Cancel, SyncedUpload, Leftovers, TypeOK, Row, Upload, File, Job, Tidy
<1>7. QED
  BY <1>1, <1>2, <1>3, <1>4, <1>5, <1>6

LEMMA MaintenanceTidy ==
    ASSUME TypeOK, NEW t \in Transfers, Safe(t), Tidy(t), faults' = 0,
           \/ Expire(t) \/ MaintenanceGivesUp(t) \/ SweepStaging(t) \/ SweepTemp(t) \/ Crash(t)
           \/ Cleanup(t) \/ ComesDue(t) \/ UploadAges(t)
    PROVE  Tidy(t)'
<1>1. CASE Expire(t)
  BY <1>1, Records DEF Expire, SyncedUpload, Leftovers, Active, TypeOK, Row, Upload, File, Job, Tidy
<1>2. CASE MaintenanceGivesUp(t)
  BY <1>2, Records DEF MaintenanceGivesUp, SyncedUpload, Leftovers, TypeOK, Row, Upload, File, Job, Tidy
<1>3. CASE SweepStaging(t)
  BY <1>3, Records DEF SweepStaging, TypeOK, Row, Upload, File, Job, Tidy
<1>4. CASE SweepTemp(t)
  BY <1>4, Records DEF SweepTemp, TypeOK, Row, Upload, File, Job, Tidy
<1>5. CASE Crash(t)
  BY <1>5 DEF Crash, TypeOK
<1>6. CASE Condemn(t)
  BY <1>6, Records DEF Condemn, TypeOK, Row, Upload, File, Job, Tidy
<1>7. CASE DeleteUpload(t)
  BY <1>7, Records DEF DeleteUpload, NoUpload, TypeOK, Row, Upload, File, Job, Tidy
<1>8. CASE ComesDue(t) \/ UploadAges(t)
  BY <1>8, Records DEF ComesDue, UploadAges, Active, TypeOK, Row, Upload, File, Job, Tidy
<1>9. QED
  BY <1>1, <1>2, <1>3, <1>4, <1>5, <1>6, <1>7, <1>8 DEF Cleanup

LEMMA CreateTidy ==
    ASSUME TypeOK, NEW t \in Transfers, Safe(t), Tidy(t), NEW c, Create(t, c)
    PROVE  Tidy(t)'
  BY Records DEF Create, TypeOK, Row, Upload, File, Job, Safe, Fresh, Tidy

LEMMA FinalizeTidy ==
    ASSUME TypeOK, NEW t \in Transfers, Safe(t), Tidy(t), faults' = 0,
           NEW c \in Sums \union {NoSum}, NEW large \in BOOLEAN, Finalize(t, c, large)
    PROVE  Tidy(t)'
<1>1. CASE FinalizeRejects(t, c, large)
  BY <1>1, Records DEF FinalizeRejects, SyncedUpload, RowAfter, TypeOK, Row, Upload, File, Job, Tidy
<1>2. CASE FinalizeDefers(t, c, large)
  BY <1>2, Records DEF FinalizeDefers, RowAfter, TypeOK, Row, Upload, File, Job, Tidy
<1>3. CASE FinalizeCollides(t, c, large) \/ PromotionFails(t, c, large)
  BY <1>3, Records DEF FinalizeCollides, PromotionFails, RowAfter, TypeOK, Row, Upload, File, Job, Tidy
<1>4. CASE FinalizePublishes(t, c, large)
  <2>1. upload[t].status = "completed"
    BY <1>4 DEF FinalizePublishes, Verified, Promotable, FinalizeAccepted
  <2>2. QED
    BY <1>4, <2>1, Records DEF FinalizePublishes, SyncedUpload, RowAfter, TypeOK, Row, Upload, File, Job, Tidy
<1>5. CASE FailsAfterLink(t, c, large) \/ FinalizeCrash(t, c, large)
  BY <1>5 DEF FailsAfterLink, FinalizeCrash, TypeOK
<1>6. QED
  BY <1>1, <1>2, <1>3, <1>4, <1>5 DEF Finalize

LEMMA StepTidy ==
    ASSUME TypeOK, NEW t \in Transfers, Safe(t), Tidy(t), faults' = 0, Step(t)
    PROVE  Tidy(t)'
<1>1. CASE Request(t)
  BY <1>1, ChunksTidy, CompletionTidy, CommandsTidy, CreateTidy, FinalizeTidy
     DEF Request, ClientFinalize
<1>2. CASE Maintenance(t)
  BY <1>2, MaintenanceTidy, FinalizeTidy DEF Maintenance, MaintenanceVerifies
<1>3. CASE Cleanup(t) \/ ComesDue(t) \/ UploadAges(t)
  BY <1>3, MaintenanceTidy
<1>4. QED
  BY <1>1, <1>2, <1>3 DEF Step

\* faults is a history: a step that ends without one began without one.
Counted == faults' = faults \/ faults' = faults + 1

LEMMA FinalizeCounts ==
    ASSUME NEW t \in Transfers, NEW c, NEW large, Finalize(t, c, large)
    PROVE  Counted
<1>1. CASE FinalizeRejects(t, c, large) \/ FinalizeDefers(t, c, large) \/ FinalizeCollides(t, c, large)
  BY <1>1, Zenon DEF FinalizeRejects, FinalizeDefers, FinalizeCollides, Counted
<1>2. CASE FinalizePublishes(t, c, large) \/ PromotionFails(t, c, large)
  BY <1>2, Zenon DEF FinalizePublishes, PromotionFails, Counted
<1>3. CASE FailsAfterLink(t, c, large) \/ FinalizeCrash(t, c, large)
  BY <1>3, Zenon DEF FailsAfterLink, FinalizeCrash, Counted
<1>4. QED
  BY <1>1, <1>2, <1>3, Zenon DEF Finalize

LEMMA RequestCounts ==
    ASSUME NEW t \in Transfers, Request(t)
    PROVE  Counted
<1>1. CASE Preflight(t) \/ CreateRefused(t) \/ Resume(t) \/ Pause(t) \/ Retry(t) \/ Cancel(t)
  BY <1>1, Zenon DEF Preflight, CreateRefused, Resume, Pause, Retry, Cancel, Counted
<1>2. ASSUME NEW c \in Sums \union {NoSum}, Create(t, c) PROVE Counted
  BY <1>2, Zenon DEF Create, Counted
<1>3. CASE StoreChunk(t) \/ ChunkRolledBack(t) \/ ChunkFailsEarly(t) \/ ChunkCrash(t) \/ UndoChunk(t)
  BY <1>3, Zenon DEF StoreChunk, ChunkRolledBack, ChunkFailsEarly, ChunkCrash, UndoChunk, Counted
<1>4. CASE CompleteUpload(t) \/ FailUpload(t) \/ CompletionRolledBack(t) \/ MoveBack(t)
  BY <1>4, Zenon DEF CompleteUpload, FailUpload, CompletionRolledBack, MoveBack, Counted
<1>5. QED
  BY <1>1, <1>2, <1>3, <1>4, FinalizeCounts, Zenon DEF Request, ClientFinalize

LEMMA MaintenanceCounts ==
    ASSUME NEW t \in Transfers, Maintenance(t)
    PROVE  Counted
<1>1. CASE MaintenanceVerifies(t)
  BY <1>1, FinalizeCounts, Zenon DEF MaintenanceVerifies
<1>2. CASE Expire(t) \/ MaintenanceGivesUp(t) \/ SweepStaging(t) \/ SweepTemp(t) \/ Crash(t)
  BY <1>2, Zenon DEF Expire, MaintenanceGivesUp, SweepStaging, SweepTemp, Crash, Counted
<1>3. QED
  BY <1>1, <1>2, Zenon DEF Maintenance

\* faults is a history: a step that ends without one began without one.
LEMMA NoFaultBefore ==
    ASSUME TypeOK, [Next]_vars, faults' = 0
    PROVE  faults = 0
<1>1. faults \in Nat
  BY SendAssumption DEF TypeOK
<1>2. CASE UNCHANGED vars
  BY <1>2 DEF vars
<1>3. ASSUME NEW n \in Names, ExchangeChanges(n) PROVE Counted
  BY <1>3, Zenon DEF ExchangeChanges, Counted
<1>4. ASSUME NEW t \in Transfers, Cleanup(t) \/ ComesDue(t) \/ UploadAges(t) PROVE Counted
  BY <1>4, Zenon DEF Cleanup, Condemn, DeleteUpload, ComesDue, UploadAges, Counted
<1>5. CASE Next
  <2>1. Counted
    BY <1>3, <1>4, <1>5, RequestCounts, MaintenanceCounts, Zenon DEF Next
  <2>2. QED
    BY <1>1, <2>1, SMT DEF Counted
<1>6. QED
  BY <1>2, <1>5

LEMMA NextTidy == SafeInv /\ TidyInv /\ [Next]_vars => TidyInv'
<1> SUFFICES ASSUME SafeInv, TidyInv, [Next]_vars, faults' = 0, NEW u \in Transfers
             PROVE  Tidy(u)'
  BY DEF TidyInv
<1>1. TypeOK /\ \A t \in Transfers : Safe(t) /\ Tidy(t)
  BY NoFaultBefore DEF SafeInv, TidyInv
<1>2. CASE UNCHANGED vars \/ \E n \in Names : ExchangeChanges(n)
  BY <1>1, <1>2, UntouchedTidy DEF vars, ExchangeChanges, Untouched
<1>3. ASSUME NEW t \in Transfers, Step(t) PROVE Tidy(u)'
  <2>1. CASE u = t
    BY <1>1, <1>3, <2>1, StepTidy
  <2>2. CASE u # t
    BY <1>1, <1>3, <2>2, Frame, UntouchedTidy
  <2>3. QED
    BY <2>1, <2>2
<1>4. QED
  BY <1>2, <1>3 DEF Next, Step

\* However commands, chunk requests, maintenance and the deletions after a commit
\* interleave: unless something failed or cleanup_uploads took the session, a
\* transfer that ended for good and was swept has no private file left.
THEOREM NothingIsLeft == Spec => []NoLeftovers
<1>1. Init => TidyInv
  BY DEF Init, TidyInv, Tidy, NoUpload
<1>2. TidyInv => NoLeftovers
  BY DEF TidyInv, Tidy, NoLeftovers
<1>3. QED
  BY <1>1, <1>2, InitSafe, NextSafe, NextTidy, PTL DEF Spec
=============================================================================
