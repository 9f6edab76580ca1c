--------------------------- MODULE TransferReceive ---------------------------
(***************************************************************************)
(* The "Receive from Server" half of the Transfer Center: the row that      *)
(* transfer_center/service.py keeps, the source file in the exchange        *)
(* directory, which its other users may change at any time, and the browser *)
(* tabs (transfer-center.js) that fetch the file chunk by chunk, submit the *)
(* checksum of what they hold and save it once the row says "completed".    *)
(*                                                                         *)
(* A chunk request reads the file before it takes the row lock, and a tab   *)
(* repeats a request whose answer it did not get while the first one may    *)
(* still reach the row.  Everything else is one transaction.                *)
(*                                                                         *)
(* A chunk is the version of the source it was read from, and a checksum is *)
(* the sequence of chunks it was taken over (no collisions).  One read of a *)
(* chunk, and one hash of the source, sees one version.                     *)
(***************************************************************************)
EXTENDS Integers, Sequences, FiniteSets

CONSTANTS
    Transfers,      \* identities of the create requests tabs make
    Tabs,           \* browser tabs of the owner
    NumChunks,      \* total_chunks of every transfer
    NumVersions,    \* contents of the declared size the source may have
    Large,          \* transfers above TRANSFER_SYNC_VERIFY_MAX_MB
    MaxConcurrent,  \* TRANSFER_MAX_CONCURRENT
    MaxRetries,     \* TRANSFER_MAX_RETRIES, copied to every row
    Nothing,        \* the transfer of a tab that has none
    MaxChanges      \* bound: changes of a source considered

ASSUME ReceiveAssumption ==
    /\ IsFiniteSet(Transfers)
    /\ NumChunks \in Nat \ {0}
    /\ NumVersions \in Nat \ {0}
    /\ Large \subseteq Transfers
    /\ MaxConcurrent \in Nat \ {0}
    /\ MaxRetries \in Nat
    /\ Nothing \notin Transfers
    /\ MaxChanges \in Nat

VARIABLES
    row,      \* PaxaliaTransfer rows; status "none" before the insert
    source,   \* what the exchange holds under the transfer's name
    tab,      \* what each tab is doing and the chunks it holds
    late,     \* chunks whose requests are abandoned by their tab, not done
    changes   \* changes of the source so far

vars == <<row, source, tab, late, changes>>

Versions == 1 .. NumVersions
Missing == 0    \* no file of that name
Resized == -1   \* a file of another size

Active == {"queued", "preparing", "transferring", "paused", "interrupted", "verifying"}
Terminal == {"completed", "failed", "cancelled", "expired"}

Contents == Seq(Versions \union {Resized})
NoSum == <<>>

Row == [status : Active \union Terminal \union {"none"}, retries : Nat,
        sum : Contents,                    \* source_checksum
        dest : Contents,                   \* destination_checksum
        received : SUBSET (1 .. NumChunks), due : BOOLEAN]
Tab == [at : Transfers \union {Nothing},
        phase : {"idle", "fetching", "waiting", "saved", "stopped"},
        chunks : Seq(Versions),            \* held by the browser
        reading : Versions \union {0}]     \* read for the next chunk, not recorded

IdleTab == [at |-> Nothing, phase |-> "idle", chunks |-> <<>>, reading |-> 0]

Init ==
    /\ row = [t \in Transfers |-> [status |-> "none", retries |-> 0, sum |-> NoSum,
                                   dest |-> NoSum, received |-> {}, due |-> FALSE]]
    /\ source \in [Transfers -> Versions]
    /\ tab = [b \in Tabs |-> IdleTab]
    /\ late = [t \in Transfers |-> {}]
    /\ changes = 0

-----------------------------------------------------------------------------
ActiveTransfers == {t \in Transfers : row[t].status \in Active}

\* _acquire_transfer_slot
SlotFree == Cardinality(ActiveTransfers) < MaxConcurrent

\* A source of the declared size that can be read.
Readable(t) == source[t] \in Versions

Whole(v) == [i \in 1 .. NumChunks |-> v]

\* receiveFileFromInfo: a tab always starts from the first chunk.
Fetching(t) == [at |-> t, phase |-> "fetching", chunks |-> <<>>, reading |-> 0]

Stopped(b) == [tab EXCEPT ![b].phase = "stopped", ![b].reading = 0]

-----------------------------------------------------------------------------
(* Creation.  The source is looked at before the transaction; a small one   *)
(* is hashed inside it, and an error of that read makes the row "failed".   *)

Create(b, t) ==
    /\ tab[b].phase \in {"idle", "stopped"}
    /\ row[t].status = "none"
    /\ Readable(t) /\ SlotFree
    /\ row' = [row EXCEPT ![t].status = "preparing",
                          ![t].sum = IF t \in Large THEN NoSum ELSE Whole(source[t])]
    /\ tab' = [tab EXCEPT ![b] = Fetching(t)]
    /\ UNCHANGED <<source, late, changes>>

CreateUnhashed(b, t) ==
    /\ tab[b].phase \in {"idle", "stopped"}
    /\ row[t].status = "none" /\ t \notin Large
    /\ Readable(t) /\ SlotFree
    /\ row' = [row EXCEPT ![t].status = "failed"]
    /\ UNCHANGED <<source, tab, late, changes>>

-----------------------------------------------------------------------------
(* read_receive_chunk and the tab that calls it. *)

Open(t) == row[t].status \notin {"none", "paused"} \union Terminal

\* The checks and the read, before the row lock.
ReadChunk(b) ==
    LET t == tab[b].at IN
    /\ tab[b].phase = "fetching" /\ tab[b].reading = 0
    /\ Len(tab[b].chunks) < NumChunks
    /\ Open(t) /\ Readable(t)
    /\ tab' = [tab EXCEPT ![b].reading = source[t]]
    /\ UNCHANGED <<row, source, late, changes>>

\* Refused: the tab reports the error and stops.
ReadRefused(b) ==
    /\ tab[b].phase = "fetching" /\ tab[b].reading = 0
    /\ Len(tab[b].chunks) < NumChunks
    /\ ~Open(tab[b].at) \/ ~Readable(tab[b].at)
    /\ tab' = Stopped(b)
    /\ UNCHANGED <<row, source, late, changes>>

Delivered(t, i) == [row EXCEPT ![t].received = @ \union {i}, ![t].status = "transferring"]

\* Variant of RecordChunk: the row is not looked at again.
RecordChunkUnchecked(b) ==
    /\ tab[b].phase = "fetching" /\ tab[b].reading # 0
    /\ row' = Delivered(tab[b].at, Len(tab[b].chunks) + 1)
    /\ tab' = [tab EXCEPT ![b].chunks = Append(@, tab[b].reading), ![b].reading = 0]
    /\ UNCHANGED <<source, late, changes>>

\* The row is updated under its lock and the bytes reach the tab.
RecordChunk(b) ==
    /\ tab[b].phase = "fetching" /\ tab[b].reading # 0
    /\ Open(tab[b].at)
    /\ row' = Delivered(tab[b].at, Len(tab[b].chunks) + 1)
    /\ tab' = [tab EXCEPT ![b].chunks = Append(@, tab[b].reading), ![b].reading = 0]
    /\ UNCHANGED <<source, late, changes>>

RecordRefused(b) ==
    /\ tab[b].phase = "fetching" /\ tab[b].reading # 0
    /\ ~Open(tab[b].at)
    /\ tab' = Stopped(b)
    /\ UNCHANGED <<row, source, late, changes>>

\* The tab loses the connection and repeats the request; the one it lost is
\* still on its way to the row.
LoseChunk(b) ==
    /\ tab[b].phase = "fetching" /\ tab[b].reading # 0
    /\ late' = [late EXCEPT ![tab[b].at] = @ \union {Len(tab[b].chunks) + 1}]
    /\ tab' = [tab EXCEPT ![b].reading = 0]
    /\ UNCHANGED <<row, source, changes>>

RecordLate(t) ==
    \E i \in late[t] :
        /\ late' = [late EXCEPT ![t] = @ \ {i}]
        /\ row' = IF Open(t) THEN Delivered(t, i) ELSE row
        /\ UNCHANGED <<source, tab, changes>>

-----------------------------------------------------------------------------
(* complete_receive: the checksum is that of the chunks the tab holds.      *)

\* The row has every chunk and is hashed again if it is small.
Completable(t) ==
    /\ row[t].status \notin {"none"} \union Terminal
    /\ row[t].received = 1 .. NumChunks

\* Variant of CompletedRow: the checksum taken at creation is trusted.
CompletedRowInitial(t, c) ==
    IF t \in Large THEN [row[t] EXCEPT !.dest = c, !.status = "verifying"]
    ELSE [row[t] EXCEPT !.dest = c, !.status = IF row[t].sum = c THEN "completed" ELSE "failed"]

\* What the transaction makes of the row for a submitted checksum c.
CompletedRow(t, c) ==
    IF t \in Large THEN [row[t] EXCEPT !.dest = c, !.status = "verifying"]
    ELSE [row[t] EXCEPT !.dest = c, !.sum = Whole(source[t]),
                        !.status = IF Whole(source[t]) = c THEN "completed" ELSE "failed"]

Finished(b) == tab[b].phase = "fetching" /\ Len(tab[b].chunks) = NumChunks

\* The answer: "failed" ends the download, anything else makes the tab wait.
Answered(b, s) ==
    IF s = "failed" THEN Stopped(b) ELSE [tab EXCEPT ![b].phase = "waiting"]

\* A small source is hashed in the transaction: a missing one is an error.
Hashable(t) == t \in Large \/ source[t] # Missing

Complete(b) ==
    LET t == tab[b].at IN
    /\ Finished(b)
    /\ Completable(t) /\ Hashable(t)
    /\ row' = [row EXCEPT ![t] = CompletedRow(t, tab[b].chunks)]
    /\ tab' = Answered(b, row'[t].status)
    /\ UNCHANGED <<source, late, changes>>

\* The row has ended: it is returned as it is.
CompleteEnded(b) ==
    /\ Finished(b)
    /\ row[tab[b].at].status \in Terminal
    /\ tab' = Answered(b, row[tab[b].at].status)
    /\ UNCHANGED <<row, source, late, changes>>

\* Refused, or the answer is lost: a completion is not repeated by the tab.
CompleteFails(b) ==
    LET t == tab[b].at IN
    /\ Finished(b)
    /\ \/ ~Completable(t) /\ row[t].status \notin Terminal /\ UNCHANGED row
       \/ ~Hashable(t) /\ UNCHANGED row
       \/ /\ Completable(t) /\ Hashable(t)
          /\ row' = [row EXCEPT ![t] = CompletedRow(t, tab[b].chunks)]
    /\ tab' = Stopped(b)
    /\ UNCHANGED <<source, late, changes>>

\* Variant of Poll: "verifying" is taken for success.
PollEager(b) ==
    /\ tab[b].phase = "waiting"
    /\ row[tab[b].at].status \in {"completed", "failed", "verifying"}
    /\ tab' = IF row[tab[b].at].status = "failed" THEN Stopped(b)
              ELSE [tab EXCEPT ![b].phase = "saved"]
    /\ UNCHANGED <<row, source, late, changes>>

\* waitForVerification: completed saves the file and reports that the
\* checksums match, failed reports the failure, anything else polls again.
Poll(b) ==
    /\ tab[b].phase = "waiting"
    /\ row[tab[b].at].status \in {"completed", "failed"}
    /\ tab' = IF row[tab[b].at].status = "failed" THEN Stopped(b)
              ELSE [tab EXCEPT ![b].phase = "saved"]
    /\ UNCHANGED <<row, source, late, changes>>

\* The page is closed or reloaded.
Close(b) ==
    /\ tab[b].phase # "idle"
    /\ tab' = [tab EXCEPT ![b] = IdleTab]
    /\ late' = IF tab[b].reading = 0 THEN late
               ELSE [late EXCEPT ![tab[b].at] = @ \union {Len(tab[b].chunks) + 1}]
    /\ UNCHANGED <<row, source, changes>>

-----------------------------------------------------------------------------
(* The operator's commands. *)

\* resume_receive_transfer, then the tab fetches from the first chunk.
Resume(b, t) ==
    /\ tab[b].phase \in {"idle", "stopped"}
    /\ row[t].status \in Active
    /\ row' = [row EXCEPT ![t].status = "transferring", ![t].due = FALSE]
    /\ tab' = [tab EXCEPT ![b] = Fetching(t)]
    /\ UNCHANGED <<source, late, changes>>

Pause(t) ==
    /\ row[t].status \in {"preparing", "transferring", "interrupted"}
    /\ row' = [row EXCEPT ![t].status = "paused"]
    /\ UNCHANGED <<source, tab, late, changes>>

\* Variant of Retry: the retry is not counted.
RetryUncounted(t) ==
    /\ row[t].status \in {"failed", "interrupted", "paused"}
    /\ row[t].retries < MaxRetries
    /\ row[t].status \in {"failed", "interrupted"} => SlotFree
    /\ row' = [row EXCEPT ![t].status = IF row[t].received = {} THEN "preparing" ELSE "transferring",
                          ![t].due = FALSE]
    /\ UNCHANGED <<source, tab, late, changes>>

Retry(t) ==
    /\ row[t].status \in {"failed", "interrupted", "paused"}
    /\ row[t].retries < MaxRetries
    /\ row[t].status \in {"failed", "interrupted"} => SlotFree
    /\ row' = [row EXCEPT ![t].status = IF row[t].received = {} THEN "preparing" ELSE "transferring",
                          ![t].retries = @ + 1, ![t].due = FALSE]
    /\ UNCHANGED <<source, tab, late, changes>>

Cancel(t) ==
    /\ row[t].status \notin {"none", "completed", "cancelled", "expired", "verifying"}
    /\ row' = [row EXCEPT ![t].status = "cancelled", ![t].due = FALSE]
    /\ UNCHANGED <<source, tab, late, changes>>

-----------------------------------------------------------------------------
(* paxalia_transfer_maintenance. *)

Expire(t) ==
    /\ row[t].status \in Active /\ row[t].due
    /\ row' = [row EXCEPT ![t].status = "expired", ![t].due = FALSE]
    /\ UNCHANGED <<source, tab, late, changes>>

\* Variant of MaintenanceGivesUp: a source that is gone is left for the next pass.
MaintenanceWaitsForSource(t) ==
    /\ row[t].status = "verifying" /\ row[t].dest # NoSum
    /\ source[t] # Missing
    /\ row' = [row EXCEPT ![t].status = "failed", ![t].due = FALSE]
    /\ UNCHANGED <<source, tab, late, changes>>

MaintenanceVerifies(t) ==
    /\ row[t].status = "verifying" /\ row[t].dest # NoSum
    /\ source[t] # Missing
    /\ row' = [row EXCEPT ![t].sum = Whole(source[t]), ![t].due = FALSE,
                          ![t].status = IF Whole(source[t]) = row[t].dest
                                        THEN "completed" ELSE "failed"]
    /\ UNCHANGED <<source, tab, late, changes>>

\* The source cannot be read or is no longer authorized, or the owner is gone.
MaintenanceGivesUp(t) ==
    /\ row[t].status = "verifying" /\ row[t].dest # NoSum
    /\ row' = [row EXCEPT ![t].status = "failed", ![t].due = FALSE]
    /\ UNCHANGED <<source, tab, late, changes>>

-----------------------------------------------------------------------------
(* Time, and the other users of the exchange directory. *)

ComesDue(t) ==
    /\ row[t].status \in Active /\ ~row[t].due
    /\ row' = [row EXCEPT ![t].due = TRUE]
    /\ UNCHANGED <<source, tab, late, changes>>

SourceChanges(t) ==
    /\ changes < MaxChanges
    /\ \E c \in (Versions \union {Missing, Resized}) \ {source[t]} :
          source' = [source EXCEPT ![t] = c]
    /\ changes' = changes + 1
    /\ UNCHANGED <<row, tab, late>>

-----------------------------------------------------------------------------
TabStep(b) ==
    \/ \E t \in Transfers : Create(b, t) \/ CreateUnhashed(b, t) \/ Resume(b, t)
    \/ ReadChunk(b) \/ ReadRefused(b) \/ RecordChunk(b) \/ RecordRefused(b) \/ LoseChunk(b)
    \/ Complete(b) \/ CompleteEnded(b) \/ CompleteFails(b) \/ Poll(b) \/ Close(b)

ServerStep(t) ==
    \/ RecordLate(t) \/ Pause(t) \/ Retry(t) \/ Cancel(t)
    \/ Expire(t) \/ MaintenanceVerifies(t) \/ MaintenanceGivesUp(t)
    \/ ComesDue(t) \/ SourceChanges(t)

Next == (\E b \in Tabs : TabStep(b)) \/ (\E t \in Transfers : ServerStep(t))

Spec == Init /\ [][Next]_vars

-----------------------------------------------------------------------------
(* Properties. *)

\* Every row, source, tab and abandoned request has a value the models allow.
TypeOK ==
    /\ row \in [Transfers -> Row]
    /\ source \in [Transfers -> Versions \union {Missing, Resized}]
    /\ tab \in [Tabs -> Tab]
    /\ late \in [Transfers -> SUBSET (1 .. NumChunks)]
    /\ changes \in 0 .. MaxChanges

\* "No false verification success": a step that completes a transfer finds in
\* the exchange, at that moment, exactly the bytes the submitted checksum was
\* taken over, whatever the source was when the chunks were read or the
\* transfer created, and every chunk has been delivered.
VerifiedNow ==
    \A t \in Transfers :
        row[t].status # "completed" /\ row'[t].status = "completed" =>
            /\ row'[t].dest = Whole(source[t])
            /\ row'[t].sum = row'[t].dest
            /\ row'[t].received = 1 .. NumChunks

CompletesVerified == [][VerifiedNow]_vars

\* A transfer that has ended is final: a chunk request that was already
\* past its checks, or was abandoned by its tab, no longer changes it.
\* Only the retry command brings a failed transfer back.
EndedRow ==
    \A t \in Transfers : row[t].status \in Terminal =>
        \/ row'[t] = row[t]
        \/ row[t].status = "failed" /\ row'[t].status = "cancelled"
        \/ row[t].status = "failed" /\ row'[t].retries = row[t].retries + 1

EndedIsFinal == [][EndedRow]_vars

\* A tab that has saved its file and told the user that the two checksums
\* match holds the bytes the server verified.
SavedVerified ==
    \A b \in Tabs : tab[b].phase = "saved" =>
        /\ row[tab[b].at].status = "completed"
        /\ row[tab[b].at].sum = tab[b].chunks

\* The receive half implements the lifecycle the Transfer Center promises.
Phase(s) ==
    IF s \in Active THEN "active"
    ELSE IF s = "completed" THEN "done"
    ELSE IF s \in {"cancelled", "expired"} THEN "stopped" ELSE s

Lifecycle == INSTANCE TransferLifecycle WITH
    phase <- [t \in Transfers |-> Phase(row[t].status)],
    tries <- [t \in Transfers |-> row[t].retries]

ImplementsLifecycle == Lifecycle!Spec

\* Fairness: maintenance is run again and again and each pass takes the oldest
\* rows first, giving up on a source it cannot read; a waiting tab polls until
\* it is told; an open row comes due in the end and is expired.  The expiry is
\* not relied on while a row waits for verification.  Nothing obliges other
\* tabs, users or the network.
MaintenanceSettles(t) ==
    MaintenanceVerifies(t) \/ (MaintenanceGivesUp(t) /\ source[t] = Missing)

Unverified(t) == row[t].status # "verifying"

Fairness ==
    /\ \A t \in Transfers : /\ WF_vars(MaintenanceSettles(t))
                            /\ WF_vars(ComesDue(t) /\ Unverified(t))
                            /\ WF_vars(Expire(t) /\ Unverified(t))
    /\ \A b \in Tabs : WF_vars(Poll(b))

FairSpec == Spec /\ Fairness

\* A tab fetches the chunks of the transfer.
InHand(t) == \E b \in Tabs : tab[b].at = t /\ tab[b].phase = "fetching"

\* A row that waits for verification ends, without waiting for its expiry and
\* also when the source has gone, or a tab takes the transfer up again.  A late
\* chunk request makes it "transferring" again with no tab behind it and no
\* verification to come: then the expiry ends it.
VerifyingEnds ==
    \A t \in Transfers :
        row[t].status = "verifying" ~> row[t].status \in Terminal \/ InHand(t)

\* docs/transfers.md: the page "waits for the server's terminal state and reports
\* the actual result": a waiting tab is told how the transfer ended.
WaitIsAnswered ==
    \A b \in Tabs : tab[b].phase = "waiting" ~> tab[b].phase # "waiting"

=============================================================================
