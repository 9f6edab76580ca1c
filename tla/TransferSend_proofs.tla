------------------------ MODULE TransferSend_proofs ------------------------
(* Type correctness and the safety invariants of TransferSend, for every    *)
(* number of transfers, chunks, slots, retries and faults.                  *)
EXTENDS TransferSend, SequenceTheorems, FiniteSetTheorems, TLAPS

LEMMA TruncatedType ==
    ASSUME NEW f \in Contents, NEW n \in Nat
    PROVE  Truncated(f, n) \in Contents
<1>1. \A i \in 1 .. Len(f) : f[i] \in 0 .. NumChunks
  BY ElementOfSeq DEF Contents
<1>2. Truncated(f, n) \in [1 .. n -> 0 .. NumChunks]
  BY <1>1, SendAssumption DEF Truncated, Contents
<1>3. QED
  BY <1>2, SeqDef DEF Contents

LEMMA TypeInit == Init => TypeOK
  BY SendAssumption, SMTT(30) DEF Init, TypeOK, Row, Upload, File, Job, NoUpload, Statuses,
     UploadStatuses, Contents, NoSum, NoBytes, NoUndo

LEMMA AppendedType ==
    ASSUME TypeOK, NEW t \in Transfers, ChunkAccepted(t)
    PROVE  Appended(t) \in Contents
  BY SendAssumption DEF TypeOK, ChunkAccepted, ChunkExpected, Appended, Contents, Upload, File

LEMMA Put ==
    ASSUME NEW S, NEW f \in [Transfers -> S], NEW t \in Transfers, NEW v \in S
    PROVE  [f EXCEPT ![t] = v] \in [Transfers -> S]
  OBVIOUS

LEMMA SmallTypes ==
    /\ NoBytes \in Contents /\ NoSum \in Contents
    /\ NoUndo \notin Nat
    /\ \A f \in Contents : Len(f) \in Nat
  BY DEF NoBytes, NoSum, Contents, NoUndo

LEMMA DeclaredType ==
    ASSUME TypeOK, NEW t \in Transfers, NEW c \in Sums \union {NoSum}
    PROVE  Declared(t, c) \in Contents
  BY SendAssumption, SmallTypes DEF TypeOK, Declared, Row

LEMMA SyncedType ==
    ASSUME TypeOK, NEW t \in Transfers, NEW s \in {"failed", "completed"}
    PROVE  SyncedUpload(t, s) \in Upload
  BY DEF TypeOK, SyncedUpload, Upload, UploadStatuses

LEMMA RowAfterType ==
    ASSUME TypeOK, NEW t \in Transfers, NEW c \in Sums \union {NoSum},
           NEW s \in {"failed", "verifying", "completed"}
    PROVE  RowAfter(t, s, c) \in [Transfers -> Row]
<1>1. [row[t] EXCEPT !.status = s, !.sum = Declared(t, c), !.due = row[t].due /\ s \in Active] \in Row
  BY DeclaredType, ZenonT(40) DEF TypeOK, Row, Statuses, Active, Terminal
<1>2. QED
  BY <1>1, Put DEF RowAfter, TypeOK

LEMMA TypeFinalize ==
    ASSUME TypeOK, NEW t \in Transfers, NEW c \in Sums \union {NoSum}, NEW large \in BOOLEAN,
           Finalize(t, c, large)
    PROVE  TypeOK'
<1>1. /\ \A b \in Contents : [file EXCEPT ![t].staging = b] \in [Transfers -> File]
      /\ [file EXCEPT ![t].published = file[t].staging] \in [Transfers -> File]
      /\ \A b \in Contents : [file EXCEPT ![t].published = file[t].staging, ![t].staging = b]
                            \in [Transfers -> File]
  <2>1. \A b \in Contents : [file[t] EXCEPT !.staging = b] \in File
    BY DEF TypeOK, File
  <2>2. [file[t] EXCEPT !.published = file[t].staging] \in File
    BY DEF TypeOK, File
  <2>3. \A b \in Contents : [file[t] EXCEPT !.published = file[t].staging, !.staging = b] \in File
    BY DEF TypeOK, File
  <2>4. QED
    BY <2>1, <2>2, <2>3, Put DEF TypeOK
<1>2. \A s \in {"failed", "completed"} : [upload EXCEPT ![t] = SyncedUpload(t, s)] \in [Transfers -> Upload]
  BY SyncedType, Put DEF TypeOK
<1>3. [exchange EXCEPT ![NameOf[t]] = t] \in [Names -> Transfers \union {Nobody, Outsider}]
  BY SendAssumption DEF TypeOK
<1>4. faults < MaxFaults => faults + 1 \in 0 .. MaxFaults
  BY SendAssumption DEF TypeOK
<1>5. \A s \in {"failed", "verifying", "completed"} : RowAfter(t, s, c) \in [Transfers -> Row]
  BY RowAfterType
<1>6. file[t].staging \in Contents
  BY DEF TypeOK, File
<1>7. CASE FinalizeRejects(t, c, large)
  BY <1>7, <1>1, <1>2, <1>5, SmallTypes DEF FinalizeRejects, TypeOK
<1>8. CASE FinalizeDefers(t, c, large)
  BY <1>8, <1>5 DEF FinalizeDefers, TypeOK
<1>9. CASE FinalizeCollides(t, c, large)
  BY <1>9, <1>5 DEF FinalizeCollides, TypeOK
<1>10. CASE FinalizePublishes(t, c, large)
  BY <1>10, <1>1, <1>2, <1>3, <1>5, SmallTypes DEF FinalizePublishes, TypeOK
<1>11. CASE PromotionFails(t, c, large)
  BY <1>11, <1>5 DEF PromotionFails, TypeOK
<1>12. CASE FailsAfterLink(t, c, large)
  BY <1>12, <1>1, <1>3, <1>4, <1>5 DEF FailsAfterLink, TypeOK
<1>13. CASE FinalizeCrash(t, c, large)
  <2>1. ASSUME NEW rest \in {NoBytes, file[t].staging},
               file' = [file EXCEPT ![t].published = file[t].staging, ![t].staging = rest]
        PROVE  file' \in [Transfers -> File]
    BY <1>1, <1>6, <2>1, SmallTypes
  <2>2. ASSUME file' = [file EXCEPT ![t].staging = NoBytes]
        PROVE  file' \in [Transfers -> File]
    BY <1>1, <2>2, SmallTypes
  <2>3. file' \in [Transfers -> File]
    BY <1>13, <2>1, <2>2 DEF FinalizeCrash
  <2>4. exchange' \in [Names -> Transfers \union {Nobody, Outsider}]
    BY <1>13, <1>3 DEF FinalizeCrash, TypeOK
  <2>5. QED
    BY <1>13, <1>4, <2>3, <2>4 DEF FinalizeCrash, TypeOK
<1>14. QED
  BY <1>7, <1>8, <1>9, <1>10, <1>11, <1>12, <1>13 DEF Finalize

LEMMA RestartType ==
    \A t \in Transfers : RestartStatus(t) \in Statuses
  BY DEF RestartStatus, Statuses, Active

LEMMA RetryRowType ==
    ASSUME TypeOK, NEW t \in Transfers
    PROVE  [row[t] EXCEPT !.status = RestartStatus(t), !.retries = row[t].retries + 1, !.due = FALSE] \in Row
<1>1. row[t] \in Row /\ row[t].retries + 1 \in Nat
  BY DEF TypeOK, Row
<1>2. QED
  BY <1>1, RestartType DEF Row

LEMMA TypeRequest ==
    ASSUME TypeOK, NEW t \in Transfers, Request(t)
    PROVE  TypeOK'
<1>1. CASE Preflight(t)
  <2>1. [job[t] EXCEPT !.preflighted = TRUE] \in Job
    BY DEF TypeOK, Job
  <2>2. job' \in [Transfers -> Job]
    BY <1>1, <2>1, Put DEF Preflight, TypeOK
  <2>3. QED
    BY <1>1, <2>2 DEF Preflight, TypeOK
<1>2. CASE CreateRefused(t)
  <2>1. [job[t] EXCEPT !.preflighted = FALSE] \in Job
    BY DEF TypeOK, Job
  <2>2. job' \in [Transfers -> Job]
    BY <1>2, <2>1, Put DEF CreateRefused, TypeOK
  <2>3. QED
    BY <1>2, <2>2 DEF CreateRefused, TypeOK
<1>3. CASE StoreChunk(t)
  <2>1. [file[t] EXCEPT !.temp = Appended(t)] \in File
    BY AppendedType, <1>3 DEF StoreChunk, TypeOK, File
  <2>2. file' \in [Transfers -> File]
    BY <1>3, <2>1, Put DEF StoreChunk, TypeOK
  <2>3. [upload[t] EXCEPT !.status = "uploading", !.chunks = upload[t].chunks + 1, !.aged = FALSE] \in Upload
    BY <1>3, SendAssumption DEF StoreChunk, TypeOK, Upload, UploadStatuses, ChunkAccepted, ChunkExpected
  <2>4. upload' \in [Transfers -> Upload]
    BY <1>3, <2>3, Put DEF StoreChunk, TypeOK
  <2>5. QED
    BY <1>3, <2>2, <2>4 DEF StoreChunk, TypeOK
<1>4. CASE ChunkRolledBack(t)
  <2>1. [file[t] EXCEPT !.temp = Appended(t)] \in File
    BY AppendedType, <1>4 DEF ChunkRolledBack, TypeOK, File
  <2>2. file' \in [Transfers -> File]
    BY <1>4, <2>1, Put DEF ChunkRolledBack, TypeOK
  <2>3. [job[t] EXCEPT !.undo = Len(file[t].temp)] \in Job
    BY SmallTypes DEF TypeOK, File, Job
  <2>4. job' \in [Transfers -> Job]
    BY <1>4, <2>3, Put DEF ChunkRolledBack, TypeOK
  <2>5. faults' \in 0 .. MaxFaults
    BY <1>4, SendAssumption DEF ChunkRolledBack, TypeOK
  <2>6. QED
    BY <1>4, <2>2, <2>4, <2>5 DEF ChunkRolledBack, TypeOK
<1>5. CASE ChunkFailsEarly(t)
  <2>1. [job[t] EXCEPT !.undo = 0] \in Job
    BY DEF TypeOK, Job
  <2>2. job' \in [Transfers -> Job]
    BY <1>5, <2>1, Put DEF ChunkFailsEarly, TypeOK
  <2>3. faults' \in 0 .. MaxFaults
    BY <1>5, SendAssumption DEF ChunkFailsEarly, TypeOK
  <2>4. QED
    BY <1>5, <2>2, <2>3 DEF ChunkFailsEarly, TypeOK
<1>6. CASE ChunkCrash(t)
  <2>1. [file[t] EXCEPT !.temp = Appended(t)] \in File
    BY AppendedType, <1>6 DEF ChunkCrash, TypeOK, File
  <2>2. file' \in [Transfers -> File]
    BY <1>6, <2>1, Put DEF ChunkCrash, TypeOK
  <2>3. faults' \in 0 .. MaxFaults
    BY <1>6, SendAssumption DEF ChunkCrash, TypeOK
  <2>4. QED
    BY <1>6, <2>2, <2>3 DEF ChunkCrash, TypeOK
<1>7. CASE UndoChunk(t)
  <2>1. [file[t] EXCEPT !.temp = IF file[t].temp = NoBytes THEN file[t].temp ELSE Truncated(file[t].temp, job[t].undo)] \in File
    BY <1>7, TruncatedType DEF UndoChunk, TypeOK, File, Job
  <2>2. file' \in [Transfers -> File]
    BY <1>7, <2>1, Put DEF UndoChunk, TypeOK
  <2>3. [job[t] EXCEPT !.undo = NoUndo] \in Job
    BY DEF TypeOK, Job
  <2>4. job' \in [Transfers -> Job]
    BY <1>7, <2>3, Put DEF UndoChunk, TypeOK
  <2>5. QED
    BY <1>7, <2>2, <2>4 DEF UndoChunk, TypeOK
<1>8. CASE CompleteUpload(t)
  <2>1. [file[t] EXCEPT !.staging = file[t].temp, !.temp = NoBytes] \in File
    BY SmallTypes DEF TypeOK, File
  <2>2. file' \in [Transfers -> File]
    BY <1>8, <2>1, Put DEF CompleteUpload, TypeOK
  <2>3. [upload[t] EXCEPT !.status = "completed", !.stored = TRUE, !.aged = FALSE] \in Upload
    BY DEF TypeOK, Upload, UploadStatuses
  <2>4. upload' \in [Transfers -> Upload]
    BY <1>8, <2>3, Put DEF CompleteUpload, TypeOK
  <2>5. QED
    BY <1>8, <2>2, <2>4 DEF CompleteUpload, TypeOK
<1>9. CASE FailUpload(t)
  <2>1. [upload[t] EXCEPT !.status = "failed", !.aged = FALSE] \in Upload
    BY DEF TypeOK, Upload, UploadStatuses
  <2>2. upload' \in [Transfers -> Upload]
    BY <1>9, <2>1, Put DEF FailUpload, TypeOK
  <2>3. faults' \in 0 .. MaxFaults
    BY <1>9, SendAssumption DEF FailUpload, TypeOK
  <2>4. QED
    BY <1>9, <2>2, <2>3 DEF FailUpload, TypeOK
<1>10. CASE Resume(t)
  <2>1. [row[t] EXCEPT !.status = RestartStatus(t), !.due = FALSE] \in Row
    BY RestartType DEF TypeOK, Row
  <2>2. row' \in [Transfers -> Row]
    BY <1>10, <2>1, Put DEF Resume, TypeOK
  <2>3. QED
    BY <1>10, <2>2 DEF Resume, TypeOK
<1>11. CASE Pause(t)
  <2>1. [row[t] EXCEPT !.status = "paused"] \in Row
    BY DEF TypeOK, Row, Statuses, Active, Terminal
  <2>2. row' \in [Transfers -> Row]
    BY <1>11, <2>1, Put DEF Pause, TypeOK
  <2>3. QED
    BY <1>11, <2>2 DEF Pause, TypeOK
<1>12. CASE Retry(t)
  <2>1. [row[t] EXCEPT !.status = RestartStatus(t), !.retries = row[t].retries + 1, !.due = FALSE] \in Row
    BY RetryRowType DEF TypeOK, Row
  <2>2. row' \in [Transfers -> Row]
    BY <1>12, <2>1, Put DEF Retry, TypeOK
  <2>3. QED
    BY <1>12, <2>2 DEF Retry, TypeOK
<1>13. CASE Cancel(t)
  <2>1. [row[t] EXCEPT !.status = "cancelled", !.due = FALSE] \in Row
    BY DEF TypeOK, Row, Statuses, Active, Terminal
  <2>2. row' \in [Transfers -> Row]
    BY <1>13, <2>1, Put DEF Cancel, TypeOK
  <2>3. SyncedUpload(t, "failed") \in Upload
    BY SyncedType DEF TypeOK
  <2>4. upload' \in [Transfers -> Upload]
    BY <1>13, <2>3, Put DEF Cancel, TypeOK
  <2>5. [job[t] EXCEPT !.sweep = job[t].sweep \union Leftovers(t)] \in Job
    BY DEF TypeOK, Job, Leftovers
  <2>6. job' \in [Transfers -> Job]
    BY <1>13, <2>5, Put DEF Cancel, TypeOK
  <2>7. QED
    BY <1>13, <2>2, <2>4, <2>6 DEF Cancel, TypeOK
<1>14. ASSUME NEW c \in Sums \union {NoSum}, Create(t, c) PROVE TypeOK'
  <2>1. [row[t] EXCEPT !.status = "preparing", !.sum = c] \in Row
    <3>1. row[t] \in Row /\ "preparing" \in Statuses
      BY DEF TypeOK, Statuses, Active
    <3>2. c \in Contents
      BY SendAssumption, SmallTypes
    <3>. QED  BY <3>1, <3>2, Zenon DEF Row
  <2>2. row' \in [Transfers -> Row]
    BY <1>14, <2>1, Put DEF Create, TypeOK
  <2>3. [upload[t] EXCEPT !.status = "pending"] \in Upload
    BY DEF TypeOK, Upload, UploadStatuses
  <2>4. upload' \in [Transfers -> Upload]
    BY <1>14, <2>3, Put DEF Create, TypeOK
  <2>5. [job[t] EXCEPT !.preflighted = FALSE] \in Job
    BY DEF TypeOK, Job
  <2>6. job' \in [Transfers -> Job]
    BY <1>14, <2>5, Put DEF Create, TypeOK
  <2>7. QED
    BY <1>14, <2>2, <2>4, <2>6 DEF Create, TypeOK
<1>15. CASE CompletionRolledBack(t)
  <2>1. [file[t] EXCEPT !.staging = file[t].temp, !.temp = NoBytes] \in File
    BY SmallTypes DEF TypeOK, File
  <2>2. file' \in [Transfers -> File]
    BY <1>15, <2>1, Put DEF CompletionRolledBack, TypeOK
  <2>3. \A b \in BOOLEAN : [job[t] EXCEPT !.moveBack = b] \in Job
    BY DEF TypeOK, Job
  <2>4. job' \in [Transfers -> Job]
    BY <1>15, <2>3, Put DEF CompletionRolledBack, TypeOK
  <2>5. faults' \in 0 .. MaxFaults
    BY <1>15, SendAssumption DEF CompletionRolledBack, TypeOK
  <2>6. QED
    BY <1>15, <2>2, <2>4, <2>5 DEF CompletionRolledBack, TypeOK
<1>16. CASE MoveBack(t)
  <2>1. [file[t] EXCEPT !.temp = file[t].staging, !.staging = NoBytes] \in File
    BY SmallTypes DEF TypeOK, File
  <2>2. file' \in [Transfers -> File]
    BY <1>16, <2>1, Put DEF MoveBack, TypeOK
  <2>3. [job[t] EXCEPT !.moveBack = FALSE] \in Job
    BY DEF TypeOK, Job
  <2>4. job' \in [Transfers -> Job]
    BY <1>16, <2>3, Put DEF MoveBack, TypeOK
  <2>5. QED
    BY <1>16, <2>2, <2>4 DEF MoveBack, TypeOK
<1>17. CASE ClientFinalize(t)
  BY <1>17, TypeFinalize DEF ClientFinalize
<1>18. QED
  BY <1>1, <1>2, <1>3, <1>4, <1>5, <1>6, <1>7, <1>8, <1>9, <1>10, <1>11, <1>12, <1>13, <1>14, <1>15, <1>16, <1>17 DEF Request

LEMMA TypeMaintenance ==
    ASSUME TypeOK, NEW t \in Transfers, Maintenance(t) \/ Cleanup(t) \/ ComesDue(t) \/ UploadAges(t)
    PROVE  TypeOK'
<1>1. CASE Expire(t)
  <2>1. [row[t] EXCEPT !.status = "expired", !.due = FALSE] \in Row
    BY DEF TypeOK, Row, Statuses, Active, Terminal
  <2>2. row' \in [Transfers -> Row]
    BY <1>1, <2>1, Put DEF Expire, TypeOK
  <2>3. SyncedUpload(t, "failed") \in Upload
    BY SyncedType DEF TypeOK
  <2>4. upload' \in [Transfers -> Upload]
    BY <1>1, <2>3, Put DEF Expire, TypeOK
  <2>5. [job[t] EXCEPT !.sweep = job[t].sweep \union Leftovers(t)] \in Job
    BY DEF TypeOK, Job, Leftovers
  <2>6. job' \in [Transfers -> Job]
    BY <1>1, <2>5, Put DEF Expire, TypeOK
  <2>7. QED
    BY <1>1, <2>2, <2>4, <2>6 DEF Expire, TypeOK
<1>2. CASE MaintenanceGivesUp(t)
  <2>1. [row[t] EXCEPT !.status = "failed", !.due = FALSE] \in Row
    BY DEF TypeOK, Row, Statuses, Active, Terminal
  <2>2. row' \in [Transfers -> Row]
    BY <1>2, <2>1, Put DEF MaintenanceGivesUp, TypeOK
  <2>3. SyncedUpload(t, "failed") \in Upload
    BY SyncedType DEF TypeOK
  <2>4. upload' \in [Transfers -> Upload]
    BY <1>2, <2>3, Put DEF MaintenanceGivesUp, TypeOK
  <2>5. [job[t] EXCEPT !.sweep = job[t].sweep \union Leftovers(t)] \in Job
    BY DEF TypeOK, Job, Leftovers
  <2>6. job' \in [Transfers -> Job]
    BY <1>2, <2>5, Put DEF MaintenanceGivesUp, TypeOK
  <2>7. QED
    BY <1>2, <2>2, <2>4, <2>6 DEF MaintenanceGivesUp, TypeOK
<1>3. CASE SweepStaging(t)
  <2>1. [file[t] EXCEPT !.staging = NoBytes] \in File
    BY SmallTypes DEF TypeOK, File
  <2>2. file' \in [Transfers -> File]
    BY <1>3, <2>1, Put DEF SweepStaging, TypeOK
  <2>3. [job[t] EXCEPT !.sweep = job[t].sweep \ {"staging"}] \in Job
    BY DEF TypeOK, Job
  <2>4. job' \in [Transfers -> Job]
    BY <1>3, <2>3, Put DEF SweepStaging, TypeOK
  <2>5. QED
    BY <1>3, <2>2, <2>4 DEF SweepStaging, TypeOK
<1>4. CASE SweepTemp(t)
  <2>1. [file[t] EXCEPT !.temp = NoBytes] \in File
    BY SmallTypes DEF TypeOK, File
  <2>2. file' \in [Transfers -> File]
    BY <1>4, <2>1, Put DEF SweepTemp, TypeOK
  <2>3. [job[t] EXCEPT !.sweep = {}] \in Job
    BY DEF TypeOK, Job
  <2>4. job' \in [Transfers -> Job]
    BY <1>4, <2>3, Put DEF SweepTemp, TypeOK
  <2>5. QED
    BY <1>4, <2>2, <2>4 DEF SweepTemp, TypeOK
<1>5. CASE Crash(t)
  <2>1. [job[t] EXCEPT !.sweep = {}, !.undo = NoUndo, !.moveBack = FALSE, !.condemned = FALSE] \in Job
    BY DEF TypeOK, Job
  <2>2. job' \in [Transfers -> Job]
    BY <1>5, <2>1, Put DEF Crash, TypeOK
  <2>3. faults' \in 0 .. MaxFaults
    BY <1>5, SendAssumption DEF Crash, TypeOK
  <2>4. QED
    BY <1>5, <2>2, <2>3 DEF Crash, TypeOK
<1>6. CASE Condemn(t)
  <2>1. [job[t] EXCEPT !.condemned = TRUE] \in Job
    BY DEF TypeOK, Job
  <2>2. job' \in [Transfers -> Job]
    BY <1>6, <2>1, Put DEF Condemn, TypeOK
  <2>3. QED
    BY <1>6, <2>2 DEF Condemn, TypeOK
<1>7. CASE DeleteUpload(t)
  <2>1. NoUpload \in Upload
    BY SendAssumption DEF TypeOK, NoUpload, Upload, UploadStatuses
  <2>2. upload' \in [Transfers -> Upload]
    BY <1>7, <2>1, Put DEF DeleteUpload, TypeOK
  <2>3. [job[t] EXCEPT !.condemned = FALSE] \in Job
    BY DEF TypeOK, Job
  <2>4. job' \in [Transfers -> Job]
    BY <1>7, <2>3, Put DEF DeleteUpload, TypeOK
  <2>5. QED
    BY <1>7, <2>2, <2>4 DEF DeleteUpload, TypeOK
<1>8. CASE ComesDue(t)
  <2>1. [row[t] EXCEPT !.due = TRUE] \in Row
    BY DEF TypeOK, Row
  <2>2. row' \in [Transfers -> Row]
    BY <1>8, <2>1, Put DEF ComesDue, TypeOK
  <2>3. QED
    BY <1>8, <2>2 DEF ComesDue, TypeOK
<1>9. CASE UploadAges(t)
  <2>1. [upload[t] EXCEPT !.aged = TRUE] \in Upload
    BY DEF TypeOK, Upload
  <2>2. upload' \in [Transfers -> Upload]
    BY <1>9, <2>1, Put DEF UploadAges, TypeOK
  <2>3. QED
    BY <1>9, <2>2 DEF UploadAges, TypeOK
<1>10. CASE MaintenanceVerifies(t)
  BY <1>10, TypeFinalize DEF MaintenanceVerifies
<1>11. QED
  BY <1>1, <1>2, <1>3, <1>4, <1>5, <1>6, <1>7, <1>8, <1>9, <1>10 DEF Maintenance, Cleanup

LEMMA TypeStep == TypeOK /\ [Next]_vars => TypeOK'
<1> SUFFICES ASSUME TypeOK, [Next]_vars PROVE TypeOK'
  OBVIOUS
<1>1. CASE UNCHANGED vars
  BY <1>1 DEF vars, TypeOK
<1>2. ASSUME NEW n \in Names, ExchangeChanges(n) PROVE TypeOK'
  BY <1>2 DEF TypeOK, ExchangeChanges
<1>3. QED
  BY <1>1, <1>2, TypeRequest, TypeMaintenance DEF Next

\* Rows, upload rows, files and pending jobs keep the values the Django models
\* and the handlers of the send path allow, whatever the interleaving.
THEOREM TypeCorrect == Spec => []TypeOK
<1>1. QED
  BY TypeInit, TypeStep, PTL DEF Spec
=============================================================================
