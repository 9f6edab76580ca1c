---------------------------- MODULE TransferSend ----------------------------
(***************************************************************************)
(* The "Send to Server" half of the Transfer Center: the PaxaliaTransfer    *)
(* row, the FileUpload row it owns, the private temporary and staging       *)
(* files, and the exchange directory the file is promoted into.             *)
(*                                                                         *)
(* Every handler of transfer_center/service.py and the two upload handlers  *)
(* of views/uploads.py that a transfer goes through lock the transfer row   *)
(* for the length of their transaction, so one transaction on one transfer  *)
(* is one action.  What the lock does not cover is kept apart: the          *)
(* existence check before a transfer is created, the file deletions after   *)
(* a commit, the repair a failed chunk or completion request makes after    *)
(* its rollback, the selection cleanup_uploads makes before it deletes, and *)
(* a process that dies with the file system changed and the database not.   *)
(*                                                                         *)
(* A file is the sequence of chunk numbers it holds.  Nothing the code      *)
(* decides tells an empty file from a missing one, so <<>> is both.  A      *)
(* checksum is the contents it was taken over (no collisions).              *)
(***************************************************************************)
EXTENDS Integers, Sequences, FiniteSets

CONSTANTS
    Transfers,         \* identities of the create requests clients make
    Names,             \* file names in the exchange directory
    NameOf,            \* the file name each create request asks for
    NumChunks,         \* total_chunks of every transfer
    Large,             \* transfers above TRANSFER_SYNC_VERIFY_MAX_MB
    Sums,              \* checksums clients submit, NoSum for none
    MaxConcurrent,     \* TRANSFER_MAX_CONCURRENT
    MaxRetries,        \* TRANSFER_MAX_RETRIES, copied to every row
    Nobody,            \* owner of a name no file has
    Outsider,          \* owner of an exchange file put there by other means
    CleanupScheduled,  \* cleanup_uploads is run
    MaxFaults          \* bound: rollbacks and process deaths considered

Contents == Seq(0 .. NumChunks)
NoBytes == <<>>
NoSum == <<>>
Whole == [i \in 1 .. NumChunks |-> i]   \* what the client's file holds

ASSUME SendAssumption ==
    /\ IsFiniteSet(Transfers)
    /\ NameOf \in [Transfers -> Names]
    /\ NumChunks \in Nat \ {0}
    /\ Large \subseteq Transfers
    /\ Sums \subseteq Contents
    /\ MaxConcurrent \in Nat \ {0}
    /\ MaxRetries \in Nat
    /\ Nobody \notin Transfers
    /\ Outsider \notin Transfers
    /\ Nobody # Outsider
    /\ CleanupScheduled \in BOOLEAN
    /\ MaxFaults \in Nat

VARIABLES
    row,       \* PaxaliaTransfer rows; status "none" before the insert
    upload,    \* FileUpload rows; status "none": no row, upload_session NULL
    file,      \* private files, and the bytes the transfer last linked
    job,       \* work in flight outside the row lock
    exchange,  \* whose file each exchange name is
    faults     \* rollbacks and process deaths so far

vars == <<row, upload, file, job, exchange, faults>>

Active == {"queued", "preparing", "transferring", "paused", "interrupted", "verifying"}
Terminal == {"completed", "failed", "cancelled", "expired"}
Statuses == Active \union Terminal \union {"none"}
UploadStatuses == {"none", "pending", "uploading", "completed", "failed"}

NoUndo == -1

Row == [status : Statuses, retries : Nat, sum : Contents, due : BOOLEAN]
Upload == [status : UploadStatuses, chunks : 0 .. NumChunks, stored : BOOLEAN, aged : BOOLEAN]
File == [temp : Contents, staging : Contents, published : Contents]
Job == [preflighted : BOOLEAN,   \* the name was seen free, no row yet
        undo : Nat \union {NoUndo},  \* length a failed chunk request cuts back to
        moveBack : BOOLEAN,      \* a failed completion will return the file
        sweep : SUBSET {"staging", "temp"},  \* deletions left after a commit
        condemned : BOOLEAN]     \* cleanup_uploads read the row and will delete it

NoUpload == [status |-> "none", chunks |-> 0, stored |-> FALSE, aged |-> FALSE]

Init ==
    /\ row = [t \in Transfers |-> [status |-> "none", retries |-> 0, sum |-> NoSum, due |-> FALSE]]
    /\ upload = [t \in Transfers |-> NoUpload]
    /\ file = [t \in Transfers |-> [temp |-> NoBytes, staging |-> NoBytes, published |-> NoBytes]]
    /\ job = [t \in Transfers |-> [preflighted |-> FALSE, undo |-> NoUndo, moveBack |-> FALSE,
                                   sweep |-> {}, condemned |-> FALSE]]
    /\ exchange \in [Names -> {Nobody, Outsider}]
    /\ faults = 0

-----------------------------------------------------------------------------
ActiveTransfers == {t \in Transfers : row[t].status \in Active}

\* _acquire_transfer_slot: the singleton lock makes count and insert atomic.
SlotFree == Cardinality(ActiveTransfers) < MaxConcurrent

\* _sync_transfer_upload_state(upload, status=s, clear_storage=True)
SyncedUpload(t, s) ==
    IF upload[t].status = "none" THEN upload[t]
    ELSE [upload[t] EXCEPT !.status = s, !.stored = FALSE, !.aged = FALSE]

\* Variant of Leftovers: the temporary file is forgotten.
LeftoversStagingOnly(t) == {"staging"}

\* The deletions _cleanup_staging and _cleanup_send_upload_temp make after the
\* commit; without an upload row there is no id to derive the temp path from.
Leftovers(t) == {"staging"} \union (IF upload[t].status = "none" THEN {} ELSE {"temp"})

\* Variant of PayloadUsable: a missing session is not refused.
PayloadUsableUnchecked(t) ==
    /\ upload[t].status # "failed"
    /\ upload[t].status # "completed" /\ upload[t].chunks > 0 =>
          Len(file[t].temp) = upload[t].chunks

\* The payload checks resume_send_transfer and retry_transfer share.
PayloadUsable(t) ==
    /\ upload[t].status \notin {"none", "failed"}
    /\ IF upload[t].status = "completed"
       THEN Len(file[t].staging) = NumChunks
       ELSE upload[t].chunks > 0 => Len(file[t].temp) = upload[t].chunks

\* The status they give the row.
RestartStatus(t) ==
    IF upload[t].status = "completed" THEN "verifying"
    ELSE IF upload[t].chunks > 0 THEN "transferring" ELSE "preparing"

Truncated(f, n) == [i \in 1 .. n |-> IF i <= Len(f) THEN f[i] ELSE 0]

-----------------------------------------------------------------------------
(* Creation. *)

\* The existence check of create_send_transfer, outside its transaction.
Preflight(t) ==
    /\ row[t].status = "none" /\ ~job[t].preflighted
    /\ exchange[NameOf[t]] = Nobody
    /\ job' = [job EXCEPT ![t].preflighted = TRUE]
    /\ UNCHANGED <<row, upload, file, exchange, faults>>

\* Its transaction: slot, row ("queued" then "preparing"), upload session.
Create(t, c) ==
    /\ job[t].preflighted
    /\ SlotFree
    /\ row' = [row EXCEPT ![t].status = "preparing", ![t].sum = c]
    /\ upload' = [upload EXCEPT ![t].status = "pending"]
    /\ job' = [job EXCEPT ![t].preflighted = FALSE]
    /\ UNCHANGED <<file, exchange, faults>>

CreateRefused(t) ==
    /\ job[t].preflighted
    /\ ~SlotFree
    /\ job' = [job EXCEPT ![t].preflighted = FALSE]
    /\ UNCHANGED <<row, upload, file, exchange, faults>>

-----------------------------------------------------------------------------
(* The chunk engine.  A request names the next chunk; any other index is    *)
(* answered without a change.                                               *)

UploadOpen(t) == row[t].status \notin {"none", "paused"} \union Terminal

\* What the handler has read of the upload row before it takes the lock.
ChunkExpected(t) ==
    /\ upload[t].status \in {"pending", "uploading"}
    /\ upload[t].chunks < NumChunks

ChunkAccepted(t) == UploadOpen(t) /\ ChunkExpected(t)

Appended(t) == Append(file[t].temp, upload[t].chunks + 1)

StoreChunk(t) ==
    /\ ChunkAccepted(t)
    /\ file' = [file EXCEPT ![t].temp = Appended(t)]
    /\ upload' = [upload EXCEPT ![t].status = "uploading", ![t].chunks = @ + 1, ![t].aged = FALSE]
    /\ UNCHANGED <<row, job, exchange, faults>>

\* The bytes are appended and the commit fails: the rollback releases the
\* lock, the handler has yet to cut the file back to previous_size.
ChunkRolledBack(t) ==
    /\ ChunkAccepted(t)
    /\ faults < MaxFaults /\ job[t].undo = NoUndo
    /\ file' = [file EXCEPT ![t].temp = Appended(t)]
    /\ job' = [job EXCEPT ![t].undo = Len(file[t].temp)]
    /\ faults' = faults + 1
    /\ UNCHANGED <<row, upload, exchange>>

\* The transaction fails before previous_size is read: it is still 0.  Only
\* the checks before the lock have been made.
ChunkFailsEarly(t) ==
    /\ ChunkExpected(t)
    /\ faults < MaxFaults /\ job[t].undo = NoUndo
    /\ job' = [job EXCEPT ![t].undo = 0]
    /\ faults' = faults + 1
    /\ UNCHANGED <<row, upload, file, exchange>>

\* The exception handler, without the lock.
UndoChunk(t) ==
    /\ job[t].undo # NoUndo
    /\ file' = [file EXCEPT ![t].temp = IF @ = NoBytes THEN @ ELSE Truncated(@, job[t].undo)]
    /\ job' = [job EXCEPT ![t].undo = NoUndo]
    /\ UNCHANGED <<row, upload, exchange, faults>>

\* The process dies between the append and the commit.
ChunkCrash(t) ==
    /\ ChunkAccepted(t)
    /\ faults < MaxFaults
    /\ file' = [file EXCEPT ![t].temp = Appended(t)]
    /\ faults' = faults + 1
    /\ UNCHANGED <<row, upload, job, exchange>>

\* upload_complete does not look at a "failed" status: it tries again.
CompletionAccepted(t) ==
    /\ UploadOpen(t)
    /\ upload[t].status \notin {"none", "completed"}
    /\ upload[t].chunks = NumChunks

CompleteUpload(t) ==
    /\ CompletionAccepted(t)
    /\ Len(file[t].temp) = NumChunks
    /\ file' = [file EXCEPT ![t].staging = file[t].temp, ![t].temp = NoBytes]
    /\ upload' = [upload EXCEPT ![t].status = "completed", ![t].stored = TRUE, ![t].aged = FALSE]
    /\ UNCHANGED <<row, job, exchange, faults>>

\* The temporary file is missing, has another size, or cannot be moved.
FailUpload(t) ==
    /\ CompletionAccepted(t)
    /\ Len(file[t].temp) # NumChunks \/ faults < MaxFaults
    /\ upload' = [upload EXCEPT ![t].status = "failed", ![t].aged = FALSE]
    /\ faults' = IF Len(file[t].temp) # NumChunks THEN faults ELSE faults + 1
    /\ UNCHANGED <<row, file, job, exchange>>

\* The file is moved and the transaction does not commit; the handler that
\* would move it back runs without the lock (moveBack), or died (~moveBack).
CompletionRolledBack(t) ==
    /\ CompletionAccepted(t)
    /\ Len(file[t].temp) = NumChunks
    /\ faults < MaxFaults
    /\ file' = [file EXCEPT ![t].staging = file[t].temp, ![t].temp = NoBytes]
    /\ \E alive \in BOOLEAN : job' = [job EXCEPT ![t].moveBack = alive]
    /\ faults' = faults + 1
    /\ UNCHANGED <<row, upload, exchange>>

MoveBack(t) ==
    /\ job[t].moveBack
    /\ file' = IF file[t].staging = NoBytes THEN file
               ELSE [file EXCEPT ![t].temp = file[t].staging, ![t].staging = NoBytes]
    /\ job' = [job EXCEPT ![t].moveBack = FALSE]
    /\ UNCHANGED <<row, upload, exchange, faults>>

-----------------------------------------------------------------------------
(* The operator's commands. *)

Resume(t) ==
    /\ row[t].status \in Active
    /\ PayloadUsable(t)
    /\ row' = [row EXCEPT ![t].status = RestartStatus(t), ![t].due = FALSE]
    /\ UNCHANGED <<upload, file, job, exchange, faults>>

Pause(t) ==
    /\ row[t].status \in {"preparing", "transferring", "interrupted"}
    /\ row' = [row EXCEPT ![t].status = "paused"]
    /\ UNCHANGED <<upload, file, job, exchange, faults>>

\* Variants of Retry: no slot is taken; the limit is off by one.
RetryWithoutSlot(t) ==
    /\ row[t].status \in {"failed", "interrupted", "paused"}
    /\ row[t].retries < MaxRetries
    /\ PayloadUsable(t)
    /\ row' = [row EXCEPT ![t].status = RestartStatus(t), ![t].retries = @ + 1, ![t].due = FALSE]
    /\ UNCHANGED <<upload, file, job, exchange, faults>>

RetryOnceMore(t) ==
    /\ row[t].status \in {"failed", "interrupted", "paused"}
    /\ row[t].retries <= MaxRetries
    /\ row[t].status \in {"failed", "interrupted"} => SlotFree
    /\ PayloadUsable(t)
    /\ row' = [row EXCEPT ![t].status = RestartStatus(t), ![t].retries = @ + 1, ![t].due = FALSE]
    /\ UNCHANGED <<upload, file, job, exchange, faults>>

Retry(t) ==
    /\ row[t].status \in {"failed", "interrupted", "paused"}
    /\ row[t].retries < MaxRetries
    /\ row[t].status \in {"failed", "interrupted"} => SlotFree
    /\ PayloadUsable(t)
    /\ row' = [row EXCEPT ![t].status = RestartStatus(t), ![t].retries = @ + 1, ![t].due = FALSE]
    /\ UNCHANGED <<upload, file, job, exchange, faults>>

Cancel(t) ==
    /\ row[t].status \notin {"none", "completed", "cancelled", "expired", "verifying"}
    /\ row' = [row EXCEPT ![t].status = "cancelled", ![t].due = FALSE]
    /\ upload' = [upload EXCEPT ![t] = SyncedUpload(t, "failed")]
    /\ job' = [job EXCEPT ![t].sweep = @ \union Leftovers(t)]
    /\ UNCHANGED <<file, exchange, faults>>

-----------------------------------------------------------------------------
(* sync_finalize_send: the row lock spans verification and promotion.       *)
(* c is the checksum submitted with the call (NoSum: none), large says the  *)
(* call may promote a large file (only maintenance does).                   *)

FinalizeAccepted(t) ==
    /\ row[t].status \in {"preparing", "transferring", "interrupted", "verifying"}
    /\ upload[t].status = "completed"

Declared(t, c) == IF c = NoSum THEN row[t].sum ELSE c

PayloadSound(t, c) ==
    /\ upload[t].stored
    /\ Len(file[t].staging) = NumChunks
    /\ Declared(t, c) # NoSum

Promotable(t, c, large) ==
    /\ FinalizeAccepted(t)
    /\ PayloadSound(t, c)
    /\ t \in Large => large

RowAfter(t, s, c) == [row EXCEPT ![t].status = s, ![t].sum = Declared(t, c),
                                 ![t].due = @ /\ s \in Active]

\* No usable payload or no checksum, or bytes that do not match it: the
\* session is spent and the staged bytes are removed.
FinalizeRejects(t, c, large) ==
    /\ FinalizeAccepted(t)
    /\ \/ ~PayloadSound(t, c)
       \/ Promotable(t, c, large) /\ file[t].staging # Declared(t, c)
    /\ row' = RowAfter(t, "failed", c)
    /\ upload' = [upload EXCEPT ![t] = SyncedUpload(t, "failed")]
    /\ file' = [file EXCEPT ![t].staging = NoBytes]
    /\ UNCHANGED <<job, exchange, faults>>

\* Too large for the request: left to maintenance.
FinalizeDefers(t, c, large) ==
    /\ FinalizeAccepted(t)
    /\ PayloadSound(t, c)
    /\ t \in Large /\ ~large
    /\ row' = RowAfter(t, "verifying", c)
    /\ UNCHANGED <<upload, file, job, exchange, faults>>

Verified(t, c, large) == Promotable(t, c, large) /\ file[t].staging = Declared(t, c)

\* Variant of FinalizeCollides: the staged bytes are removed, the session kept.
FinalizeCollidesAndDrops(t, c, large) ==
    /\ Verified(t, c, large)
    /\ exchange[NameOf[t]] # Nobody
    /\ row' = RowAfter(t, "failed", c)
    /\ file' = [file EXCEPT ![t].staging = NoBytes]
    /\ UNCHANGED <<upload, job, exchange, faults>>

\* os.link finds the name taken: failed, payload and session kept.
FinalizeCollides(t, c, large) ==
    /\ Verified(t, c, large)
    /\ exchange[NameOf[t]] # Nobody
    /\ row' = RowAfter(t, "failed", c)
    /\ UNCHANGED <<upload, file, job, exchange, faults>>

\* Variants of FinalizePublishes: rename over whatever is there; skip the hash.
FinalizeReplaces(t, c, large) ==
    /\ Verified(t, c, large)
    /\ exchange' = [exchange EXCEPT ![NameOf[t]] = t]
    /\ file' = [file EXCEPT ![t].published = file[t].staging, ![t].staging = NoBytes]
    /\ row' = RowAfter(t, "completed", c)
    /\ upload' = [upload EXCEPT ![t] = SyncedUpload(t, "completed")]
    /\ UNCHANGED <<job, faults>>

FinalizeUnhashed(t, c, large) ==
    /\ Promotable(t, c, large)
    /\ exchange[NameOf[t]] = Nobody
    /\ exchange' = [exchange EXCEPT ![NameOf[t]] = t]
    /\ file' = [file EXCEPT ![t].published = file[t].staging, ![t].staging = NoBytes]
    /\ row' = RowAfter(t, "completed", c)
    /\ upload' = [upload EXCEPT ![t] = SyncedUpload(t, "completed")]
    /\ UNCHANGED <<job, faults>>

FinalizePublishes(t, c, large) ==
    /\ Verified(t, c, large)
    /\ exchange[NameOf[t]] = Nobody
    /\ exchange' = [exchange EXCEPT ![NameOf[t]] = t]
    /\ file' = [file EXCEPT ![t].published = file[t].staging, ![t].staging = NoBytes]
    /\ row' = RowAfter(t, "completed", c)
    /\ upload' = [upload EXCEPT ![t] = SyncedUpload(t, "completed")]
    /\ UNCHANGED <<job, faults>>

\* The exchange is unavailable or refuses the write before the link.
PromotionFails(t, c, large) ==
    /\ Promotable(t, c, large)
    /\ row' = RowAfter(t, "failed", c)
    /\ UNCHANGED <<upload, file, job, exchange, faults>>

\* The link is made; unlinking the hidden name or syncing the directory then
\* raises OSError, which the handler records as a failed promotion.
FailsAfterLink(t, c, large) ==
    /\ Verified(t, c, large)
    /\ exchange[NameOf[t]] = Nobody
    /\ faults < MaxFaults
    /\ exchange' = [exchange EXCEPT ![NameOf[t]] = t]
    /\ file' = [file EXCEPT ![t].published = file[t].staging]
    /\ row' = RowAfter(t, "failed", c)
    /\ faults' = faults + 1
    /\ UNCHANGED <<upload, job>>

\* The process dies, or the commit fails, with the file system changed and
\* the rows as they were: linked (staging kept or already removed), or, on a
\* rejecting path, staging removed.
FinalizeCrash(t, c, large) ==
    /\ faults < MaxFaults
    /\ faults' = faults + 1
    /\ \/ /\ Verified(t, c, large)
          /\ exchange[NameOf[t]] = Nobody
          /\ exchange' = [exchange EXCEPT ![NameOf[t]] = t]
          /\ \E rest \in {NoBytes, file[t].staging} :
                file' = [file EXCEPT ![t].published = file[t].staging, ![t].staging = rest]
       \/ /\ FinalizeAccepted(t)
          /\ ~PayloadSound(t, c) \/ (Promotable(t, c, large) /\ ~Verified(t, c, large))
          /\ file' = [file EXCEPT ![t].staging = NoBytes]
          /\ UNCHANGED exchange
    /\ UNCHANGED <<row, upload, job>>

Finalize(t, c, large) ==
    \/ FinalizeRejects(t, c, large)
    \/ FinalizeDefers(t, c, large)
    \/ FinalizeCollides(t, c, large)
    \/ FinalizePublishes(t, c, large)
    \/ PromotionFails(t, c, large)
    \/ FailsAfterLink(t, c, large)
    \/ FinalizeCrash(t, c, large)

ClientFinalize(t) == \E c \in Sums \union {NoSum} : Finalize(t, c, FALSE)

-----------------------------------------------------------------------------
(* paxalia_transfer_maintenance.  The pass lists its rows without a lock    *)
(* and takes each again under the lock, rechecking what selected it.        *)

Expire(t) ==
    /\ row[t].status \in Active
    /\ row[t].due
    /\ row' = [row EXCEPT ![t].status = "expired", ![t].due = FALSE]
    /\ upload' = [upload EXCEPT ![t] = SyncedUpload(t, "failed")]
    /\ job' = [job EXCEPT ![t].sweep = @ \union Leftovers(t)]
    /\ UNCHANGED <<file, exchange, faults>>

\* Variant of MaintenanceVerifies: large files are deferred again.
MaintenanceDefersAgain(t) ==
    /\ row[t].status = "verifying"
    /\ Finalize(t, NoSum, FALSE)

MaintenanceVerifies(t) ==
    /\ row[t].status = "verifying"
    /\ Finalize(t, NoSum, TRUE)

\* Variant of MaintenanceGivesUp: the session stays "completed".
MaintenanceGivesUpRowOnly(t) ==
    /\ row[t].status = "verifying"
    /\ row' = [row EXCEPT ![t].status = "failed", ![t].due = FALSE]
    /\ job' = [job EXCEPT ![t].sweep = @ \union Leftovers(t)]
    /\ UNCHANGED <<upload, file, exchange, faults>>

\* The owner is gone, or sync_finalize_send raised (a capability withdrawn,
\* the upload row missing): failed, session spent, files removed later.
MaintenanceGivesUp(t) ==
    /\ row[t].status = "verifying"
    /\ row' = [row EXCEPT ![t].status = "failed", ![t].due = FALSE]
    /\ upload' = [upload EXCEPT ![t] = SyncedUpload(t, "failed")]
    /\ job' = [job EXCEPT ![t].sweep = @ \union Leftovers(t)]
    /\ UNCHANGED <<file, exchange, faults>>

\* The deletions after the commit: staging first, then the temporary file.
SweepStaging(t) ==
    /\ "staging" \in job[t].sweep
    /\ file' = [file EXCEPT ![t].staging = NoBytes]
    /\ job' = [job EXCEPT ![t].sweep = @ \ {"staging"}]
    /\ UNCHANGED <<row, upload, exchange, faults>>

SweepTemp(t) ==
    /\ job[t].sweep = {"temp"}
    /\ file' = [file EXCEPT ![t].temp = NoBytes]
    /\ job' = [job EXCEPT ![t].sweep = {}]
    /\ UNCHANGED <<row, upload, exchange, faults>>

\* A process dies with its work outside the lock undone.
Crash(t) ==
    /\ faults < MaxFaults
    /\ job[t].sweep # {} \/ job[t].undo # NoUndo \/ job[t].moveBack \/ job[t].condemned
    /\ job' = [job EXCEPT ![t].sweep = {}, ![t].undo = NoUndo, ![t].moveBack = FALSE,
                          ![t].condemned = FALSE]
    /\ faults' = faults + 1
    /\ UNCHANGED <<row, upload, file, exchange>>

-----------------------------------------------------------------------------
(* cleanup_uploads: selects by status and age only, and deletes the row it  *)
(* read without looking again.  It derives another temporary path than the  *)
(* transfers use, so a transfer's bytes stay where they are.                *)

Condemn(t) ==
    /\ CleanupScheduled
    /\ upload[t].aged /\ ~job[t].condemned
    /\ upload[t].status \in {"pending", "uploading", "failed"}
    /\ job' = [job EXCEPT ![t].condemned = TRUE]
    /\ UNCHANGED <<row, upload, file, exchange, faults>>

DeleteUpload(t) ==
    /\ job[t].condemned
    /\ upload' = [upload EXCEPT ![t] = NoUpload]
    /\ job' = [job EXCEPT ![t].condemned = FALSE]
    /\ UNCHANGED <<row, file, exchange, faults>>

-----------------------------------------------------------------------------
(* Time, and the other users of the exchange directory. *)

\* expires_at passes.
ComesDue(t) ==
    /\ row[t].status \in Active /\ ~row[t].due
    /\ row' = [row EXCEPT ![t].due = TRUE]
    /\ UNCHANGED <<upload, file, job, exchange, faults>>

\* updated_at of the upload row falls behind the cutoff of cleanup_uploads.
UploadAges(t) ==
    /\ CleanupScheduled
    /\ upload[t].status \in {"pending", "uploading", "failed"} /\ ~upload[t].aged
    /\ upload' = [upload EXCEPT ![t].aged = TRUE]
    /\ UNCHANGED <<row, file, job, exchange, faults>>

ExchangeChanges(n) ==
    /\ exchange' = [exchange EXCEPT ![n] = IF @ = Nobody THEN Outsider ELSE Nobody]
    /\ UNCHANGED <<row, upload, file, job, faults>>

-----------------------------------------------------------------------------
Request(t) ==
    \/ Preflight(t) \/ CreateRefused(t)
    \/ \E c \in Sums \union {NoSum} : Create(t, c)
    \/ StoreChunk(t) \/ ChunkRolledBack(t) \/ ChunkFailsEarly(t) \/ ChunkCrash(t)
    \/ UndoChunk(t)
    \/ CompleteUpload(t) \/ FailUpload(t) \/ CompletionRolledBack(t) \/ MoveBack(t)
    \/ Resume(t) \/ Pause(t) \/ Retry(t) \/ Cancel(t) \/ ClientFinalize(t)

Maintenance(t) ==
    \/ Expire(t) \/ MaintenanceVerifies(t) \/ MaintenanceGivesUp(t)
    \/ SweepStaging(t) \/ SweepTemp(t)
    \/ Crash(t)

Cleanup(t) == Condemn(t) \/ DeleteUpload(t)

Next ==
    \/ \E t \in Transfers : Request(t) \/ Maintenance(t) \/ Cleanup(t) \/ ComesDue(t) \/ UploadAges(t)
    \/ \E n \in Names : ExchangeChanges(n)

Spec == Init /\ [][Next]_vars

-----------------------------------------------------------------------------
(* Properties. *)

\* Every row, file and pending job has a value the models allow.
TypeOK ==
    /\ row \in [Transfers -> Row]
    /\ upload \in [Transfers -> Upload]
    /\ file \in [Transfers -> File]
    /\ job \in [Transfers -> Job]
    /\ exchange \in [Names -> Transfers \union {Nobody, Outsider}]
    /\ faults \in 0 .. MaxFaults

\* "No unbounded concurrency" (docs/transfers.md): however creations, retries
\* of failed transfers and resumes interleave, no more than MaxConcurrent
\* rows are active.
SlotBound == Cardinality(ActiveTransfers) <= MaxConcurrent

\* "No false verification success": the bytes a completed transfer put in
\* the exchange are all there and are those its recorded checksum was taken
\* over, whatever rollbacks and deaths happened to the chunk file before.
CompletedVerified ==
    \A t \in Transfers : row[t].status = "completed" =>
        /\ row[t].sum # NoSum
        /\ file[t].published = row[t].sum
        /\ Len(file[t].published) = NumChunks

\* Spent: no command can bring the transfer back to use its private files.
Spent(t) ==
    \/ row[t].status \in {"cancelled", "expired"}
    \/ row[t].status = "failed" /\ upload[t].status \in {"failed", "none"}

\* The deletions after a commit run without the row lock: while one is
\* pending no retry or resume may have given the files a new use.
SweepOnlySpent == \A t \in Transfers : job[t].sweep # {} => Spent(t)

\* A failed transfer whose session is still "completed" is offered for
\* retry: its staged bytes are complete, also after a collision, a failed
\* promotion, a crash or a pending repair of the same upload.
RetryableHasBytes ==
    \A t \in Transfers :
        row[t].status = "failed" /\ upload[t].status = "completed" =>
            /\ upload[t].stored
            /\ Len(file[t].staging) = NumChunks

\* Absent faults and a session removed by cleanup_uploads, a transfer that
\* has ended for good and been swept leaves no private file behind.
NoLeftovers ==
    faults = 0 =>
        \A t \in Transfers :
            /\ row[t].status \in {"completed", "cancelled", "expired"}
            /\ job[t].sweep = {} /\ upload[t].status # "none"
            => file[t].staging = NoBytes /\ file[t].temp = NoBytes

\* "No silent destination overwrite": a name that is held is only ever
\* vacated by its other users; and the step that completes a transfer is the
\* one that takes its free name.
NoOverwrite ==
    /\ \A n \in Names : exchange[n] # Nobody => exchange'[n] \in {exchange[n], Nobody}
    /\ \A t \in Transfers :
          row[t].status # "completed" /\ row'[t].status = "completed" =>
             exchange[NameOf[t]] = Nobody /\ exchange'[NameOf[t]] = t

NoSilentOverwrite == [][NoOverwrite]_vars

\* The send half implements the lifecycle the Transfer Center promises.
Phase(s) ==
    IF s \in Active THEN "active"
    ELSE IF s = "completed" THEN "done"
    ELSE IF s \in {"cancelled", "expired"} THEN "stopped" ELSE s

Lifecycle == INSTANCE TransferLifecycle WITH
    phase <- [t \in Transfers |-> Phase(row[t].status)],
    tries <- [t \in Transfers |-> row[t].retries]

ImplementsLifecycle == Lifecycle!Spec

\* Fairness: the maintenance command is run again and again and each pass
\* takes the oldest rows first, so a row that stays eligible is taken; the
\* clock does not stop.  Clients, other users and faults are not obliged.
\* sync_finalize_send refuses for certain only when the session is missing.
Fairness ==
    \A t \in Transfers :
        /\ WF_vars(MaintenanceVerifies(t))
        /\ WF_vars(MaintenanceGivesUp(t) /\ upload[t].status # "completed")
        /\ WF_vars(Expire(t))
        /\ WF_vars(ComesDue(t))

FairSpec == Spec /\ Fairness

\* A transfer left to background verification, a large one above all, reaches
\* a terminal status, also when its session was deleted or its bytes lost.
VerifyingSettles ==
    \A t \in Transfers : row[t].status = "verifying" ~> row[t].status \in Terminal

\* A transfer whose session was deleted can only be expired or cancelled; no
\* command may keep it alive, so its slot comes free.
StrandedReleasesSlot ==
    \A t \in Transfers :
        row[t].status \in Active /\ upload[t].status = "none" ~> row[t].status \in Terminal

-----------------------------------------------------------------------------
(* What the repository says of itself and the code does not do. *)

\* cleanup_uploads.py:13 "Remove abandoned chunked-upload sessions": the
\* session of a transfer that is active and not past its expiry is in use.
OnlyAbandonedRemoved ==
    [][\A t \in Transfers :
         upload[t].status # "none" /\ upload'[t].status = "none" =>
            row[t].status \notin Active \/ row[t].due]_vars

\* uploads.py, on the handler of a failed chunk: "Restore the previous byte
\* length before allowing the client to retry the chunk" - with no repair
\* pending, the file holds at least the chunks the row counts.
RestoredBytes ==
    \A t \in Transfers :
        /\ row[t].status \in Active
        /\ upload[t].status = "uploading" /\ upload[t].chunks < NumChunks
        /\ job[t].undo = NoUndo
        => Len(file[t].temp) >= upload[t].chunks
=============================================================================
