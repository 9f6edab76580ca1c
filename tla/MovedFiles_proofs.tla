-------------------------- MODULE MovedFiles_proofs --------------------------
(* Safety of what moves files, and of what removes them later: the tabs that *)
(* receive (TransferReceive), for every number of transfers, tabs, chunks,   *)
(* versions and changes of the source; the scan of the staging directory     *)
(* and the budget of that pass (ResourcePrune), for any transfers; the page  *)
(* that sends (SendClient) and the uploads of the Releases page              *)
(* (ReleaseUploads), for every number of sends, requests, chunks, attempts   *)
(* and failures.                                                             *)
EXTENDS TransferReceive, ResourcePrune, SendClient, ReleaseUploads, Integers,
        SequenceTheorems, FiniteSetTheorems, TLAPS

(***************************************************************************)
(* The inductive invariant.  A tab that has work in hand has a transfer; it *)
(* never holds more than the chunks of its file, and what it is reading is  *)
(* the next of them.  A row reaches verification with every chunk           *)
(* delivered, and the delivered set never shrinks.                          *)
(***************************************************************************)
TabSound(b) ==
    /\ tab[b].phase # "idle" => tab[b].at \in Transfers
    /\ Len(tab[b].chunks) <= NumChunks
    /\ tab[b].reading # 0 =>
          tab[b].phase = "fetching" /\ Len(tab[b].chunks) < NumChunks

RowSound(t) == row[t].status = "verifying" => row[t].received = 1 .. NumChunks

Inv ==
    /\ TypeOK
    /\ \A b \in Tabs : TabSound(b)
    /\ \A t \in Transfers : RowSound(t)

-----------------------------------------------------------------------------
(* Types. *)

Statuses == Active \union Terminal \union {"none"}

LEMMA PutRow ==
    ASSUME TypeOK, NEW t \in Transfers, NEW r \in Row
    PROVE  [row EXCEPT ![t] = r] \in [Transfers -> Row]
  BY DEF TypeOK

LEMMA PutTab ==
    ASSUME TypeOK, NEW b \in Tabs, NEW r \in Tab
    PROVE  [tab EXCEPT ![b] = r] \in [Tabs -> Tab]
  BY DEF TypeOK

LEMMA RowOf ==
    ASSUME TypeOK, NEW t \in Transfers
    PROVE  /\ row[t] \in Row
           /\ \A s \in Statuses : [row[t] EXCEPT !.status = s] \in Row
           /\ \A s \in Statuses, d \in BOOLEAN : [row[t] EXCEPT !.status = s, !.due = d] \in Row
           /\ \A s \in Statuses :
                 [row[t] EXCEPT !.status = s, !.retries = row[t].retries + 1, !.due = FALSE] \in Row
           /\ \A i \in 1 .. NumChunks :
                 [row[t] EXCEPT !.received = row[t].received \union {i}, !.status = "transferring"] \in Row
<1>1. row[t] \in Row
  BY DEF TypeOK
<1>2. row[t].retries + 1 \in Nat
  BY <1>1 DEF Row
<1>3. QED
  BY <1>1, <1>2 DEF Row, Statuses, Active, Terminal

LEMMA TabOf ==
    ASSUME TypeOK, NEW b \in Tabs
    PROVE  /\ tab[b] \in Tab
           /\ IdleTab \in Tab
           /\ \A t \in Transfers : Fetching(t) \in Tab
           /\ [tab[b] EXCEPT !.phase = "stopped", !.reading = 0] \in Tab
           /\ \A p \in {"waiting", "saved"} : [tab[b] EXCEPT !.phase = p] \in Tab
           /\ \A v \in Versions \union {0} : [tab[b] EXCEPT !.reading = v] \in Tab
           /\ \A v \in Versions :
                 [tab[b] EXCEPT !.chunks = Append(tab[b].chunks, v), !.reading = 0] \in Tab
           /\ tab[b].chunks \in Seq(Versions) /\ Len(tab[b].chunks) \in Nat
           /\ tab[b].chunks \in Contents
<1>1. tab[b] \in Tab
  BY DEF TypeOK
<1>2. tab[b].chunks \in Seq(Versions)
  BY <1>1 DEF Tab
<1>3. \A v \in Versions : Append(tab[b].chunks, v) \in Seq(Versions)
  BY <1>2
<1>4. <<>> \in Seq(Versions)
  OBVIOUS
<1>5. tab[b].chunks \in Contents
  BY <1>2, SeqDef DEF Contents
<1>6. IdleTab \in Tab /\ \A t \in Transfers : Fetching(t) \in Tab
  BY <1>4 DEF IdleTab, Fetching, Tab
<1>7. /\ [tab[b] EXCEPT !.phase = "stopped", !.reading = 0] \in Tab
      /\ \A p \in {"waiting", "saved"} : [tab[b] EXCEPT !.phase = p] \in Tab
      /\ \A v \in Versions \union {0} : [tab[b] EXCEPT !.reading = v] \in Tab
  BY <1>1 DEF Tab
<1>8. ASSUME NEW v \in Versions
      PROVE  [tab[b] EXCEPT !.chunks = Append(tab[b].chunks, v), !.reading = 0] \in Tab
  <2>1. Append(tab[b].chunks, v) \in Seq(Versions)
    BY <1>3
  <2>2. QED
    BY <1>1, <2>1 DEF Tab
<1>9. Len(tab[b].chunks) \in Nat
  BY <1>2
<1>10. QED
  BY <1>1, <1>2, <1>5, <1>6, <1>7, <1>8, <1>9

LEMMA WholeType == \A v \in Versions \union {Resized} : Whole(v) \in Contents
<1> SUFFICES ASSUME NEW v \in Versions \union {Resized} PROVE Whole(v) \in Contents
  OBVIOUS
<1>1. Whole(v) \in [1 .. NumChunks -> Versions \union {Resized}]
  BY DEF Whole
<1>2. NumChunks \in Nat
  BY ReceiveAssumption
<1>3. QED
  BY <1>1, <1>2, SeqDef DEF Contents

LEMMA CompletedRowType ==
    ASSUME TypeOK, NEW t \in Transfers, NEW c \in Contents, Hashable(t)
    PROVE  CompletedRow(t, c) \in Row
<1>1. row[t] \in Row
  BY DEF TypeOK
<1>2. t \notin Large => Whole(source[t]) \in Contents
  BY WholeType DEF Hashable, TypeOK
<1>3. QED
  BY <1>1, <1>2 DEF CompletedRow, Row, Active, Terminal

-----------------------------------------------------------------------------
(* The invariant is inductive. *)

LEMMA InvInit == Init => Inv
<1>1. Init => TypeOK
  BY ReceiveAssumption DEF Init, TypeOK, Row, Tab, IdleTab, Contents, NoSum, Active, Terminal
<1>2. Init => \A b \in Tabs : TabSound(b)
  BY ReceiveAssumption DEF Init, TabSound, IdleTab
<1>3. Init => \A t \in Transfers : RowSound(t)
  BY DEF Init, RowSound
<1>4. QED
  BY <1>1, <1>2, <1>3 DEF Inv

\* Steps that change one row and no tab.
RowStep(t) ==
    \/ Pause(t) \/ Retry(t) \/ Cancel(t) \/ Expire(t) \/ MaintenanceVerifies(t)
    \/ MaintenanceGivesUp(t) \/ ComesDue(t)

LEMMA RowStepInv ==
    ASSUME Inv, NEW t \in Transfers, RowStep(t)
    PROVE  /\ \E r \in Row : row' = [row EXCEPT ![t] = r]
                             /\ (r.status = "verifying" => row[t].status = "verifying")
                             /\ r.received = row[t].received
           /\ UNCHANGED <<source, tab, late, changes>>
<1> USE DEF Statuses, Active, Terminal
<1>1. CASE Pause(t)
  <2>1. [row[t] EXCEPT !.status = "paused"] \in Row
    BY RowOf DEF Inv
  <2>2. QED
    BY <1>1, <2>1 DEF Pause, Inv, TypeOK, Row
<1>2. CASE Retry(t)
  <2>1. \A s \in {"preparing", "transferring"} :
            [row[t] EXCEPT !.status = s, !.retries = row[t].retries + 1, !.due = FALSE] \in Row
    BY RowOf DEF Inv
  <2>2. PICK s \in {"preparing", "transferring"} :
            row' = [row EXCEPT ![t].status = s, ![t].retries = row[t].retries + 1, ![t].due = FALSE]
    BY <1>2, Zenon DEF Retry
  <2>3. row' = [row EXCEPT ![t] =
                   [row[t] EXCEPT !.status = s, !.retries = row[t].retries + 1, !.due = FALSE]]
    BY <2>2
  <2>4. row[t] \in Row
    BY DEF Inv, TypeOK
  <2> DEFINE r == [row[t] EXCEPT !.status = s, !.retries = row[t].retries + 1, !.due = FALSE]
  <2>5. r \in Row
    BY <2>1
  <2>6. r.status = s /\ r.received = row[t].received
    BY <2>4 DEF Row
  <2>7. s # "verifying"
    OBVIOUS
  <2>8. UNCHANGED <<source, tab, late, changes>>
    BY <1>2 DEF Retry
  <2> HIDE DEF r
  <2>9. row' = [row EXCEPT ![t] = r]
    BY <2>3 DEF r
  <2>10. QED
    BY <2>5, <2>6, <2>7, <2>8, <2>9
<1>3. CASE Cancel(t) \/ Expire(t) \/ MaintenanceGivesUp(t)
  <2>1. \A s \in {"cancelled", "expired", "failed"} :
            [row[t] EXCEPT !.status = s, !.due = FALSE] \in Row
    BY RowOf DEF Inv
  <2>2. QED
    BY <1>3, <2>1 DEF Cancel, Expire, MaintenanceGivesUp, Inv, TypeOK, Row
<1>4. CASE MaintenanceVerifies(t)
  <2>1. Whole(source[t]) \in Contents
    BY <1>4, WholeType DEF MaintenanceVerifies, Inv, TypeOK
  <2>2. \A s \in {"completed", "failed"} :
            [row[t] EXCEPT !.sum = Whole(source[t]), !.due = FALSE, !.status = s] \in Row
    <3>1. row[t] \in Row
      BY DEF Inv, TypeOK
    <3>. QED  BY <2>1, <3>1, ZenonT(40) DEF Row
  <2>3. QED
    BY <1>4, <2>2 DEF MaintenanceVerifies, Inv, TypeOK, Row
<1>5. CASE ComesDue(t)
  <2>1. [row[t] EXCEPT !.due = TRUE] \in Row
    <3>1. row[t] \in Row
      BY Zenon DEF Inv, TypeOK
    <3>. QED  BY <3>1, Zenon DEF Row
  <2>2. QED
    BY <1>5, <2>1 DEF ComesDue, Inv, TypeOK, Row
<1>6. QED
  BY <1>1, <1>2, <1>3, <1>4, <1>5 DEF RowStep

LEMMA RowChangeKeepsInv ==
    ASSUME Inv, NEW t \in Transfers, NEW r \in Row, row' = [row EXCEPT ![t] = r],
           r.status = "verifying" => r.received = 1 .. NumChunks
    PROVE  row' \in [Transfers -> Row] /\ \A u \in Transfers : RowSound(u)'
  BY DEF Inv, TypeOK, RowSound

LEMMA TabChangeKeepsInv ==
    ASSUME Inv, NEW b \in Tabs, NEW r \in Tab, tab' = [tab EXCEPT ![b] = r],
           r.phase # "idle" => r.at \in Transfers,
           Len(r.chunks) <= NumChunks,
           r.reading # 0 => r.phase = "fetching" /\ Len(r.chunks) < NumChunks
    PROVE  tab' \in [Tabs -> Tab] /\ \A c \in Tabs : TabSound(c)'
  BY DEF Inv, TypeOK, TabSound

LEMMA RowStepKeepsInv ==
    ASSUME Inv, NEW t \in Transfers, RowStep(t)
    PROVE  Inv'
<1>1. PICK r \in Row :
          /\ row' = [row EXCEPT ![t] = r]
          /\ r.status = "verifying" => row[t].status = "verifying"
          /\ r.received = row[t].received
  BY RowStepInv
<1>2. row[t].status = "verifying" => row[t].received = 1 .. NumChunks
  BY DEF Inv, RowSound
<1>3. row' \in [Transfers -> Row] /\ \A u \in Transfers : RowSound(u)'
  BY <1>1, <1>2, RowChangeKeepsInv
<1>4. UNCHANGED <<source, tab, late, changes>>
  BY RowStepInv
<1>5. TypeOK'
  BY <1>3, <1>4 DEF Inv, TypeOK
<1>6. \A b \in Tabs : TabSound(b)'
  BY <1>4 DEF Inv, TabSound
<1>7. QED
  BY <1>3, <1>5, <1>6 DEF Inv

\* The row a chunk is recorded in.
LEMMA DeliveredKeepsInv ==
    ASSUME Inv, NEW t \in Transfers, NEW i \in 1 .. NumChunks, row' = Delivered(t, i)
    PROVE  row' \in [Transfers -> Row] /\ \A u \in Transfers : RowSound(u)'
<1> DEFINE r == [row[t] EXCEPT !.received = row[t].received \union {i}, !.status = "transferring"]
<1>1. r \in Row
  BY RowOf DEF Inv
<1>2. r.status = "transferring"
  BY DEF Inv, TypeOK, Row
<1>3. row' = [row EXCEPT ![t] = r]
  BY DEF Delivered
<1> HIDE DEF r
<1>4. QED
  BY <1>1, <1>2, <1>3, RowChangeKeepsInv

\* The row a completion leaves.
LEMMA CompletedKeepsInv ==
    ASSUME Inv, NEW t \in Transfers, NEW c \in Contents, Completable(t), Hashable(t),
           row' = [row EXCEPT ![t] = CompletedRow(t, c)]
    PROVE  row' \in [Transfers -> Row] /\ \A u \in Transfers : RowSound(u)'
<1>1. CompletedRow(t, c) \in Row
  BY CompletedRowType DEF Inv
<1>2. CompletedRow(t, c).received = row[t].received
  BY DEF CompletedRow, Inv, TypeOK, Row
<1>3. CompletedRow(t, c).received = 1 .. NumChunks
  BY <1>2 DEF Completable
<1>4. QED
  BY <1>1, <1>3, RowChangeKeepsInv

\* A tab that stops, or starts on a transfer.
LEMMA StopKeepsInv ==
    ASSUME Inv, NEW b \in Tabs, tab[b].phase # "idle", tab' = Stopped(b)
    PROVE  tab' \in [Tabs -> Tab] /\ \A c \in Tabs : TabSound(c)'
<1> DEFINE r == [tab[b] EXCEPT !.phase = "stopped", !.reading = 0]
<1>1. r \in Tab /\ tab' = [tab EXCEPT ![b] = r]
  BY TabOf DEF Inv, Stopped
<1>2. tab[b] \in Tab /\ TabSound(b)
  BY TabOf DEF Inv
<1>3. r.phase = "stopped" /\ r.at = tab[b].at /\ r.chunks = tab[b].chunks /\ r.reading = 0
  BY <1>2 DEF Tab
<1> HIDE DEF r
<1>4. QED
  BY <1>1, <1>2, <1>3, TabChangeKeepsInv DEF TabSound

LEMMA StartKeepsInv ==
    ASSUME Inv, NEW b \in Tabs, NEW t \in Transfers, tab' = [tab EXCEPT ![b] = Fetching(t)]
    PROVE  tab' \in [Tabs -> Tab] /\ \A c \in Tabs : TabSound(c)'
<1>1. Fetching(t) \in Tab
  BY TabOf DEF Inv
<1>2. /\ Fetching(t).phase = "fetching" /\ Fetching(t).at = t
      /\ Len(Fetching(t).chunks) <= NumChunks /\ Fetching(t).reading = 0
  BY ReceiveAssumption DEF Fetching
<1>3. QED
  BY <1>1, <1>2, TabChangeKeepsInv

LEMMA PhaseKeepsInv ==
    ASSUME Inv, NEW b \in Tabs, NEW p \in {"waiting", "saved"}, tab[b].phase # "idle",
           tab[b].reading = 0, tab' = [tab EXCEPT ![b].phase = p]
    PROVE  tab' \in [Tabs -> Tab] /\ \A c \in Tabs : TabSound(c)'
<1> DEFINE r == [tab[b] EXCEPT !.phase = p]
<1>1. r \in Tab /\ tab' = [tab EXCEPT ![b] = r]
  BY TabOf DEF Inv
<1>2. tab[b] \in Tab /\ TabSound(b)
  BY TabOf DEF Inv
<1>3. r.phase = p /\ r.at = tab[b].at /\ r.chunks = tab[b].chunks /\ r.reading = 0
  BY <1>2 DEF Tab
<1> HIDE DEF r
<1>4. QED
  BY <1>1, <1>2, <1>3, TabChangeKeepsInv DEF TabSound

LEMMA ReadingKeepsInv ==
    ASSUME Inv, NEW b \in Tabs, NEW v \in Versions \union {0}, tab[b].phase = "fetching",
           Len(tab[b].chunks) < NumChunks, tab' = [tab EXCEPT ![b].reading = v]
    PROVE  tab' \in [Tabs -> Tab] /\ \A c \in Tabs : TabSound(c)'
<1> DEFINE r == [tab[b] EXCEPT !.reading = v]
<1>1. r \in Tab /\ tab' = [tab EXCEPT ![b] = r]
  BY TabOf DEF Inv
<1>2. tab[b] \in Tab /\ TabSound(b)
  BY TabOf DEF Inv
<1>3. r.phase = "fetching" /\ r.at = tab[b].at /\ r.chunks = tab[b].chunks
  BY <1>2 DEF Tab
<1> HIDE DEF r
<1>4. QED
  BY <1>1, <1>2, <1>3, TabChangeKeepsInv DEF TabSound

LEMMA TypeAndParts ==
    ASSUME row' \in [Transfers -> Row], \A u \in Transfers : RowSound(u)',
           tab' \in [Tabs -> Tab], \A c \in Tabs : TabSound(c)',
           source' \in [Transfers -> Versions \union {Missing, Resized}],
           late' \in [Transfers -> SUBSET (1 .. NumChunks)], changes' \in 0 .. MaxChanges
    PROVE  Inv'
  BY DEF Inv, TypeOK

LEMMA StartStepInv ==
    ASSUME Inv, NEW b \in Tabs, NEW t \in Transfers,
           Create(b, t) \/ CreateUnhashed(b, t) \/ Resume(b, t)
    PROVE  Inv'
<1> USE DEF Statuses, Active, Terminal
<1>0. row[t] \in Row
  BY RowOf DEF Inv
<1>1. CASE Create(b, t)
  <2> DEFINE r == [row[t] EXCEPT !.status = "preparing",
                                 !.sum = IF t \in Large THEN NoSum ELSE Whole(source[t])]
  <2>1. NoSum \in Contents /\ Whole(source[t]) \in Contents
    BY <1>1, WholeType DEF Create, Readable, NoSum, Contents
  <2>2. r \in Row /\ r.status # "verifying"
    BY <1>0, <2>1 DEF Row
  <2>3. row' = [row EXCEPT ![t] = r]
    BY <1>1 DEF Create
  <2> HIDE DEF r
  <2>4. row' \in [Transfers -> Row] /\ \A u \in Transfers : RowSound(u)'
    BY <2>2, <2>3, RowChangeKeepsInv
  <2>5. tab' \in [Tabs -> Tab] /\ \A c \in Tabs : TabSound(c)'
    BY <1>1, StartKeepsInv DEF Create
  <2>6. QED
    BY <1>1, <2>4, <2>5, TypeAndParts DEF Create, Inv, TypeOK
<1>2. CASE CreateUnhashed(b, t)
  <2> DEFINE r == [row[t] EXCEPT !.status = "failed"]
  <2>1. r \in Row /\ r.status # "verifying" /\ row' = [row EXCEPT ![t] = r]
    BY <1>0, <1>2 DEF Row, CreateUnhashed
  <2> HIDE DEF r
  <2>2. row' \in [Transfers -> Row] /\ \A u \in Transfers : RowSound(u)'
    BY <2>1, RowChangeKeepsInv
  <2>3. QED
    BY <1>2, <2>2 DEF CreateUnhashed, Inv, TypeOK, TabSound
<1>3. CASE Resume(b, t)
  <2> DEFINE r == [row[t] EXCEPT !.status = "transferring", !.due = FALSE]
  <2>1. r \in Row /\ r.status # "verifying" /\ row' = [row EXCEPT ![t] = r]
    BY <1>0, <1>3 DEF Row, Resume
  <2> HIDE DEF r
  <2>2. row' \in [Transfers -> Row] /\ \A u \in Transfers : RowSound(u)'
    BY <2>1, RowChangeKeepsInv
  <2>3. tab' \in [Tabs -> Tab] /\ \A c \in Tabs : TabSound(c)'
    BY <1>3, StartKeepsInv DEF Resume
  <2>4. QED
    BY <1>3, <2>2, <2>3, TypeAndParts DEF Resume, Inv, TypeOK
<1>4. QED
  BY <1>1, <1>2, <1>3

\* Steps of a tab that is fetching chunks.
LEMMA ChunkStepInv ==
    ASSUME Inv, NEW b \in Tabs,
           \/ ReadChunk(b) \/ ReadRefused(b) \/ RecordChunk(b) \/ RecordRefused(b) \/ LoseChunk(b)
    PROVE  Inv'
<1>0. /\ TabSound(b) /\ tab[b].phase = "fetching" /\ tab[b].at \in Transfers
      /\ tab[b] \in Tab /\ Len(tab[b].chunks) \in Nat
  BY TabOf DEF Inv, TabSound, ReadChunk, ReadRefused, RecordChunk, RecordRefused, LoseChunk
<1>1. CASE ReadChunk(b)
  <2>1. source[tab[b].at] \in Versions
    BY <1>1 DEF ReadChunk, Readable
  <2>2. tab' \in [Tabs -> Tab] /\ \A c \in Tabs : TabSound(c)'
    BY <1>1, <2>1, ReadingKeepsInv DEF ReadChunk
  <2>3. QED
    BY <1>1, <2>2 DEF ReadChunk, Inv, TypeOK, RowSound
<1>2. CASE ReadRefused(b) \/ RecordRefused(b)
  <2>1. tab' \in [Tabs -> Tab] /\ \A c \in Tabs : TabSound(c)'
    BY <1>0, <1>2, StopKeepsInv DEF ReadRefused, RecordRefused
  <2>2. QED
    BY <1>2, <2>1 DEF ReadRefused, RecordRefused, Inv, TypeOK, RowSound
<1>3. CASE RecordChunk(b)
  <2> DEFINE r == [tab[b] EXCEPT !.chunks = Append(tab[b].chunks, tab[b].reading), !.reading = 0]
  <2>1. /\ tab[b].reading \in Versions /\ Len(tab[b].chunks) < NumChunks
        /\ tab[b].chunks \in Seq(Versions)
    BY <1>0, <1>3 DEF RecordChunk, Tab, TabSound
  <2>2. r \in Tab
    BY <2>1, TabOf DEF Inv
  <2>3. tab' = [tab EXCEPT ![b] = r]
    BY <1>3 DEF RecordChunk
  <2>4. Len(Append(tab[b].chunks, tab[b].reading)) = Len(tab[b].chunks) + 1
    BY <2>1
  <2>5. /\ r.phase = "fetching" /\ r.at = tab[b].at /\ r.reading = 0
        /\ r.chunks = Append(tab[b].chunks, tab[b].reading)
    BY <1>0 DEF Tab
  <2> HIDE DEF r
  <2>6. Len(tab[b].chunks) + 1 <= NumChunks /\ Len(tab[b].chunks) + 1 \in 1 .. NumChunks
    BY <1>0, <2>1, ReceiveAssumption
  <2>7. tab' \in [Tabs -> Tab] /\ \A c \in Tabs : TabSound(c)'
    BY <1>0, <2>2, <2>3, <2>4, <2>5, <2>6, TabChangeKeepsInv
  <2>8. row' \in [Transfers -> Row] /\ \A u \in Transfers : RowSound(u)'
    BY <1>0, <1>3, <2>6, DeliveredKeepsInv DEF RecordChunk
  <2>9. QED
    BY <1>3, <2>7, <2>8, TypeAndParts DEF RecordChunk, Inv, TypeOK
<1>4. CASE LoseChunk(b)
  <2>1. Len(tab[b].chunks) < NumChunks
    BY <1>0, <1>4 DEF LoseChunk, TabSound
  <2>2. tab' \in [Tabs -> Tab] /\ \A c \in Tabs : TabSound(c)'
    BY <1>4, <2>1, ReadingKeepsInv DEF LoseChunk
  <2>3. Len(tab[b].chunks) + 1 \in 1 .. NumChunks
    BY <1>0, <2>1, ReceiveAssumption
  <2>4. late' \in [Transfers -> SUBSET (1 .. NumChunks)]
    BY <1>0, <1>4, <2>3 DEF LoseChunk, Inv, TypeOK
  <2>5. QED
    BY <1>4, <2>2, <2>4 DEF LoseChunk, Inv, TypeOK, RowSound
<1>5. QED
  BY <1>1, <1>2, <1>3, <1>4

\* Steps of a tab that holds every chunk, and of one that is closed.
LEMMA EndStepInv ==
    ASSUME Inv, NEW b \in Tabs,
           Complete(b) \/ CompleteEnded(b) \/ CompleteFails(b) \/ Poll(b) \/ Close(b)
    PROVE  Inv'
<1>0. /\ TabSound(b) /\ tab[b].phase # "idle" /\ tab[b].at \in Transfers
      /\ tab[b] \in Tab /\ Len(tab[b].chunks) \in Nat /\ tab[b].chunks \in Contents
  BY TabOf DEF Inv, TabSound, Complete, CompleteEnded, CompleteFails, Finished, Poll, Close
<1>1. ASSUME ~Close(b) PROVE tab[b].reading = 0
  BY <1>0, <1>1 DEF Complete, CompleteEnded, CompleteFails, Finished, Poll, TabSound
<1>2. ASSUME ~Close(b) PROVE tab' \in [Tabs -> Tab] /\ \A c \in Tabs : TabSound(c)'
  <2>1. \/ tab' = Stopped(b)
        \/ \E p \in {"waiting", "saved"} : tab' = [tab EXCEPT ![b].phase = p]
    BY <1>2 DEF Complete, CompleteEnded, CompleteFails, Poll, Answered
  <2>2. QED
    BY <1>0, <1>1, <1>2, <2>1, StopKeepsInv, PhaseKeepsInv
<1>3. ASSUME ~Close(b) PROVE row' \in [Transfers -> Row] /\ \A u \in Transfers : RowSound(u)'
  <2> DEFINE t == tab[b].at
  <2>1. \/ row' = row
        \/ /\ Completable(t) /\ Hashable(t)
           /\ row' = [row EXCEPT ![t] = CompletedRow(t, tab[b].chunks)]
    BY <1>3 DEF Complete, CompleteEnded, CompleteFails, Poll
  <2>2. QED
    BY <1>0, <2>1, CompletedKeepsInv DEF Inv, TypeOK, RowSound
<1>4. CASE ~Close(b)
  <2>1. UNCHANGED <<source, late, changes>>
    BY <1>4 DEF Complete, CompleteEnded, CompleteFails, Poll
  <2>2. QED
    BY <1>2, <1>3, <1>4, <2>1, TypeAndParts DEF Inv, TypeOK
<1>5. CASE Close(b)
  <2>0. IdleTab \in Tab
    BY TabOf DEF Inv
  <2>1. /\ IdleTab.phase = "idle" /\ IdleTab.reading = 0
        /\ Len(IdleTab.chunks) <= NumChunks
    BY ReceiveAssumption DEF IdleTab
  <2>2. tab' \in [Tabs -> Tab] /\ \A c \in Tabs : TabSound(c)'
    BY <1>5, <2>0, <2>1, TabChangeKeepsInv DEF Close
  <2>3. tab[b].reading # 0 => Len(tab[b].chunks) + 1 \in 1 .. NumChunks
    BY <1>0, ReceiveAssumption DEF TabSound
  <2>4. late' \in [Transfers -> SUBSET (1 .. NumChunks)]
    BY <1>0, <1>5, <2>3 DEF Close, Inv, TypeOK
  <2>5. QED
    BY <1>5, <2>2, <2>4 DEF Close, Inv, TypeOK, RowSound
<1>6. QED
  BY <1>4, <1>5

LEMMA LateStepInv ==
    ASSUME Inv, NEW t \in Transfers, RecordLate(t)
    PROVE  Inv'
<1>1. PICK i \in late[t] : /\ late' = [late EXCEPT ![t] = @ \ {i}]
                           /\ row' = IF Open(t) THEN Delivered(t, i) ELSE row
  BY DEF RecordLate
<1>2. i \in 1 .. NumChunks /\ late' \in [Transfers -> SUBSET (1 .. NumChunks)]
  BY <1>1 DEF Inv, TypeOK
<1>3. row' \in [Transfers -> Row] /\ \A u \in Transfers : RowSound(u)'
  BY <1>1, <1>2, DeliveredKeepsInv DEF Inv, TypeOK, RowSound
<1>4. QED
  BY <1>2, <1>3 DEF RecordLate, Inv, TypeOK, TabSound

LEMMA SourceStepInv ==
    ASSUME Inv, NEW t \in Transfers, SourceChanges(t)
    PROVE  Inv'
<1>1. /\ source' \in [Transfers -> Versions \union {Missing, Resized}]
      /\ changes' \in 0 .. MaxChanges
  BY ReceiveAssumption DEF SourceChanges, Inv, TypeOK
<1>2. QED
  BY <1>1 DEF SourceChanges, Inv, TypeOK, TabSound, RowSound

LEMMA InvNext == Inv /\ [Next]_vars => Inv'
<1> SUFFICES ASSUME Inv, [Next]_vars PROVE Inv'
  OBVIOUS
<1>1. ASSUME NEW b \in Tabs, TabStep(b) PROVE Inv'
  BY <1>1, StartStepInv, ChunkStepInv, EndStepInv DEF TabStep
<1>2. ASSUME NEW t \in Transfers, ServerStep(t) PROVE Inv'
  BY <1>2, RowStepKeepsInv, LateStepInv, SourceStepInv DEF ServerStep, RowStep
<1>3. CASE UNCHANGED vars
  BY <1>3 DEF vars, Inv, TypeOK, TabSound, RowSound
<1>4. QED
  BY <1>1, <1>2, <1>3 DEF Next

\* Every row, tab, source and abandoned request keeps a value of its type:
\* no tab holds more chunks than its transfer has, and no chunk of a number
\* the transfer does not have is ever recorded as delivered.
THEOREM ReceiveTypeCorrect == Spec => []TypeOK
<1>1. Inv => TypeOK
  BY DEF Inv
<1>2. QED
  BY <1>1, InvInit, InvNext, PTL DEF Spec

-----------------------------------------------------------------------------
(* A transfer completes only over the bytes the exchange holds then. *)

LEMMA VerifiedStep == Inv /\ [Next]_vars => [VerifiedNow]_vars
<1> SUFFICES ASSUME Inv, Next, NEW t \in Transfers,
                    row[t].status # "completed", row'[t].status = "completed"
             PROVE  /\ row'[t].dest = Whole(source[t])
                    /\ row'[t].sum = row'[t].dest
                    /\ row'[t].received = 1 .. NumChunks
  BY DEF VerifiedNow
<1>0. row[t] \in Row /\ RowSound(t)
  BY DEF Inv, TypeOK
<1>1. ASSUME NEW b \in Tabs, TabStep(b)
      PROVE  \E c : /\ t = tab[b].at /\ Completable(t)
                    /\ row' = [row EXCEPT ![t] = CompletedRow(t, c)]
  <2>1. ASSUME NEW u \in Transfers, Create(b, u) \/ CreateUnhashed(b, u) \/ Resume(b, u)
        PROVE  FALSE
    BY <2>1 DEF Create, CreateUnhashed, Resume, Inv, TypeOK, Row
  <2>2. CASE ReadChunk(b) \/ ReadRefused(b) \/ RecordRefused(b) \/ LoseChunk(b)
             \/ CompleteEnded(b) \/ Poll(b) \/ Close(b)
    BY <2>2 DEF ReadChunk, ReadRefused, RecordRefused, LoseChunk, CompleteEnded, Poll, Close
  <2>3. CASE RecordChunk(b)
    BY <2>3 DEF RecordChunk, Delivered, Inv, TypeOK, Row
  <2>4. CASE Complete(b) \/ CompleteFails(b)
    <3>1. Completable(tab[b].at)
          /\ row' = [row EXCEPT ![tab[b].at] = CompletedRow(tab[b].at, tab[b].chunks)]
      BY <2>4 DEF Complete, CompleteFails
    <3>2. t = tab[b].at
      BY <3>1 DEF Inv, TypeOK
    <3>3. QED
      BY <3>1, <3>2
  <2>5. QED
    BY <1>1, <2>1, <2>2, <2>3, <2>4 DEF TabStep
<1>2. ASSUME NEW c, Completable(t), row' = [row EXCEPT ![t] = CompletedRow(t, c)]
      PROVE  /\ row'[t].dest = Whole(source[t])
             /\ row'[t].sum = row'[t].dest
             /\ row'[t].received = 1 .. NumChunks
  <2>1. row'[t] = CompletedRow(t, c)
    BY <1>2 DEF Inv, TypeOK
  <2>2. t \notin Large /\ Whole(source[t]) = c
    BY <1>0, <2>1 DEF CompletedRow, Row
  <2>3. QED
    BY <1>0, <1>2, <2>1, <2>2 DEF CompletedRow, Completable, Row
<1>3. ASSUME NEW u \in Transfers, ServerStep(u)
      PROVE  t = u /\ MaintenanceVerifies(t)
  <2>0. row[u] \in Row
    BY DEF Inv, TypeOK
  <2>1. ASSUME RecordLate(u) PROVE FALSE
    <3>1. PICK i \in late[u] : row' = IF Open(u) THEN Delivered(u, i) ELSE row
      BY <2>1 DEF RecordLate
    <3>2. CASE row' = row
      BY <3>2
    <3>3. CASE row' = Delivered(u, i)
      BY <2>0, <3>3 DEF Delivered, Inv, TypeOK, Row
    <3>4. QED
      BY <3>1, <3>2, <3>3
  <2>2. ASSUME SourceChanges(u) PROVE FALSE
    BY <2>2 DEF SourceChanges
  <2>3. ASSUME Retry(u) PROVE FALSE
    <3>1. PICK s \in {"preparing", "transferring"} :
              row' = [row EXCEPT ![u] = [row[u] EXCEPT !.status = s,
                                         !.retries = row[u].retries + 1, !.due = FALSE]]
      BY <2>3, Zenon DEF Retry
    <3>2. QED
      BY <2>0, <3>1 DEF Inv, TypeOK, Row
  <2>4. ASSUME Pause(u) \/ Cancel(u) PROVE FALSE
    BY <2>0, <2>4 DEF Pause, Cancel, Inv, TypeOK, Row
  <2>5. ASSUME Expire(u) \/ MaintenanceGivesUp(u) \/ ComesDue(u) PROVE FALSE
    BY <2>0, <2>5 DEF Expire, MaintenanceGivesUp, ComesDue, Active, Inv, TypeOK, Row
  <2>6. ASSUME MaintenanceVerifies(u) PROVE t = u
    BY <2>6 DEF MaintenanceVerifies, Inv, TypeOK
  <2>7. QED
    BY <1>3, <2>1, <2>2, <2>3, <2>4, <2>5, <2>6 DEF ServerStep
<1>4. ASSUME MaintenanceVerifies(t)
      PROVE  /\ row'[t].dest = Whole(source[t])
             /\ row'[t].sum = row'[t].dest
             /\ row'[t].received = 1 .. NumChunks
  <2>1. row'[t] = [row[t] EXCEPT !.sum = Whole(source[t]), !.due = FALSE,
                                 !.status = IF Whole(source[t]) = row[t].dest
                                            THEN "completed" ELSE "failed"]
    BY <1>4 DEF MaintenanceVerifies, Inv, TypeOK
  <2>2. Whole(source[t]) = row[t].dest
    BY <1>0, <2>1 DEF Row
  <2>3. row[t].received = 1 .. NumChunks
    BY <1>0, <1>4 DEF MaintenanceVerifies, RowSound
  <2>4. QED
    BY <1>0, <2>1, <2>2, <2>3 DEF Row
<1>5. QED
  BY <1>1, <1>2, <1>3, <1>4 DEF Next

\* "No false verification success": whatever the users of the exchange do to
\* a source between its creation, its chunks and its verification, a step
\* that completes a transfer finds there the very bytes the submitted
\* checksum was taken over (complete_receive, verify_pending_transfers).
THEOREM CompletesOnlyVerified == Spec => CompletesVerified
<1>1. QED
  BY InvInit, InvNext, VerifiedStep, PTL DEF Spec, CompletesVerified

-----------------------------------------------------------------------------
(* The moves of a row.  Every step changes at most one, in one of four ways. *)

Starts(t, r) ==
    /\ row[t].status = "none" /\ SlotFree
    /\ r.status \in {"preparing", "failed"} /\ r.retries = row[t].retries

Works(t, r) ==
    /\ row[t].status \in Active
    /\ r.status \in Active \union Terminal /\ r.retries = row[t].retries

Withdraws(t, r) ==
    /\ row[t].status = "failed"
    /\ r.status = "cancelled" /\ r.retries = row[t].retries

Retries(t, r) ==
    /\ row[t].status \in {"failed", "interrupted", "paused"}
    /\ row[t].status = "failed" => SlotFree
    /\ row[t].retries < MaxRetries
    /\ r.status \in {"preparing", "transferring"} /\ r.retries = row[t].retries + 1

Move(t, r) == Starts(t, r) \/ Works(t, r) \/ Withdraws(t, r) \/ Retries(t, r)

MovesOne == \E t \in Transfers : \E r \in Row : row' = [row EXCEPT ![t] = r] /\ Move(t, r)

LEMMA OpenWorks == \A t \in Transfers : Inv /\ Open(t) => row[t].status \in Active
  BY DEF Inv, TypeOK, Row, Open

\* The row a step leaves is again a row, so naming it as row'[t] loses nothing.
LEMMA NameMove ==
    ASSUME Inv, Inv', NEW t \in Transfers, NEW r, row' = [row EXCEPT ![t] = r], Move(t, r)
    PROVE  MovesOne
  BY DEF MovesOne, Inv, TypeOK

LEMMA TabMoves ==
    ASSUME Inv, Inv', NEW b \in Tabs, TabStep(b)
    PROVE  row' = row \/ MovesOne
<1>1. ASSUME NEW t \in Transfers, Create(b, t) \/ CreateUnhashed(b, t) \/ Resume(b, t)
      PROVE  MovesOne
  <2>0. row[t] \in Row /\ row'[t] \in Row /\ row' = [row EXCEPT ![t] = row'[t]]
    BY <1>1 DEF Create, CreateUnhashed, Resume, Inv, TypeOK
  <2>1. CASE Create(b, t)
    <3>1. Starts(t, row'[t])
      BY <2>0, <2>1 DEF Create, Starts, Inv, TypeOK, Row
    <3>2. QED
      BY <2>0, <3>1, NameMove DEF Move
  <2>2. CASE CreateUnhashed(b, t)
    <3>1. Starts(t, row'[t])
      BY <2>0, <2>2 DEF CreateUnhashed, Starts, Inv, TypeOK, Row
    <3>2. QED
      BY <2>0, <3>1, NameMove DEF Move
  <2>3. CASE Resume(b, t)
    <3>1. Works(t, row'[t])
      BY <2>0, <2>3 DEF Resume, Works, Active, Inv, TypeOK, Row
    <3>2. QED
      BY <2>0, <3>1, NameMove DEF Move
  <2>4. QED
    BY <1>1, <2>1, <2>2, <2>3
<1>2. CASE ReadChunk(b) \/ ReadRefused(b) \/ RecordRefused(b) \/ LoseChunk(b)
           \/ CompleteEnded(b) \/ Poll(b) \/ Close(b)
  BY <1>2 DEF ReadChunk, ReadRefused, RecordRefused, LoseChunk, CompleteEnded, Poll, Close
<1>3. CASE RecordChunk(b)
  <2> DEFINE t == tab[b].at
  <2>1. t \in Transfers /\ Open(t) /\ row' = Delivered(t, Len(tab[b].chunks) + 1)
    BY <1>3 DEF RecordChunk, Inv, TabSound
  <2> HIDE DEF t
  <2>2. row[t] \in Row /\ row'[t] \in Row /\ row' = [row EXCEPT ![t] = row'[t]]
    BY <2>1 DEF Delivered, Inv, TypeOK
  <2>3. Works(t, row'[t])
    BY <2>1, <2>2, OpenWorks DEF Delivered, Works, Active, Inv, TypeOK, Row
  <2>4. QED
    BY <2>1, <2>2, <2>3, NameMove DEF Move
<1>4. CASE Complete(b) \/ CompleteFails(b)
  <2> DEFINE t == tab[b].at
             r == CompletedRow(t, tab[b].chunks)
  <2>1. t \in Transfers
    BY <1>4 DEF Complete, CompleteFails, Finished, Inv, TabSound
  <2>2. row' = row \/ (Completable(t) /\ row' = [row EXCEPT ![t] = r])
    BY <1>4 DEF Complete, CompleteFails
  <2>3. ASSUME Completable(t) PROVE Works(t, r)
    <3>1. row[t] \in Row /\ row[t].status \in Active
      BY <2>1, <2>3 DEF Completable, Inv, TypeOK, Row
    <3>2. QED
      BY <3>1 DEF CompletedRow, Works, Active, Terminal, Row
  <2> HIDE DEF t, r
  <2>4. QED
    BY <2>1, <2>2, <2>3, NameMove DEF Move
<1>5. QED
  BY <1>1, <1>2, <1>3, <1>4 DEF TabStep

LEMMA ServerMoves ==
    ASSUME Inv, Inv', NEW t \in Transfers, ServerStep(t)
    PROVE  row' = row \/ MovesOne
<1>0. row[t] \in Row
  BY DEF Inv, TypeOK
<1>1. CASE RecordLate(t)
  <2>1. PICK i \in late[t] : row' = IF Open(t) THEN Delivered(t, i) ELSE row
    BY <1>1 DEF RecordLate
  <2>2. CASE Open(t)
    <3>1. row'[t] \in Row /\ row' = [row EXCEPT ![t] = row'[t]]
      BY <2>1, <2>2 DEF Delivered, Inv, TypeOK
    <3>2. Works(t, row'[t])
      BY <1>0, <2>1, <2>2, OpenWorks DEF Delivered, Works, Active, Inv, TypeOK, Row
    <3>3. QED
      BY <3>1, <3>2, NameMove DEF Move
  <2>3. QED
    BY <2>1, <2>2
<1>2. CASE SourceChanges(t)
  BY <1>2 DEF SourceChanges
<1>3. CASE Retry(t)
  <2>1. PICK s \in {"preparing", "transferring"} :
            row' = [row EXCEPT ![t] = [row[t] EXCEPT !.status = s,
                                       !.retries = row[t].retries + 1, !.due = FALSE]]
    BY <1>3, Zenon DEF Retry
  <2> DEFINE r == [row[t] EXCEPT !.status = s, !.retries = row[t].retries + 1, !.due = FALSE]
  <2>2. r.status = s /\ r.retries = row[t].retries + 1
    BY <1>0 DEF Row
  <2>3. row' = [row EXCEPT ![t] = r]
    BY <2>1
  <2> HIDE DEF r
  <2>4. Retries(t, r)
    BY <1>3, <2>2 DEF Retry, Retries
  <2>5. QED
    BY <2>3, <2>4, NameMove DEF Move
<1>4. CASE Pause(t) \/ Expire(t) \/ ComesDue(t)
  <2>1. row' = [row EXCEPT ![t] = row'[t]]
    BY <1>4 DEF Pause, Expire, ComesDue, Inv, TypeOK
  <2>2. Works(t, row'[t])
    BY <1>0, <1>4 DEF Pause, Expire, ComesDue, Works, Active, Terminal, Inv, TypeOK, Row
  <2>3. QED
    BY <2>1, <2>2, NameMove DEF Move
<1>5. CASE MaintenanceVerifies(t) \/ MaintenanceGivesUp(t)
  <2>1. row' = [row EXCEPT ![t] = row'[t]]
    BY <1>5 DEF MaintenanceVerifies, MaintenanceGivesUp, Inv, TypeOK
  <2>2. Works(t, row'[t])
    BY <1>0, <1>5 DEF MaintenanceVerifies, MaintenanceGivesUp, Works, Active, Terminal, Inv, TypeOK, Row
  <2>3. QED
    BY <2>1, <2>2, NameMove DEF Move
<1>6. CASE Cancel(t)
  <2>1. row' = [row EXCEPT ![t] = row'[t]]
    BY <1>6 DEF Cancel, Inv, TypeOK
  <2>2. Works(t, row'[t]) \/ Withdraws(t, row'[t])
    BY <1>0, <1>6 DEF Cancel, Works, Withdraws, Active, Terminal, Inv, TypeOK, Row
  <2>3. QED
    BY <2>1, <2>2, NameMove DEF Move
<1>7. QED
  BY <1>1, <1>2, <1>3, <1>4, <1>5, <1>6 DEF ServerStep

LEMMA NextMoves == Inv /\ Inv' /\ [Next]_vars => row' = row \/ MovesOne
<1> SUFFICES ASSUME Inv, Inv', [Next]_vars PROVE row' = row \/ MovesOne
  OBVIOUS
<1>1. QED
  BY TabMoves, ServerMoves DEF Next, vars

LEMMA EndedStep == Inv /\ Inv' /\ [Next]_vars => [EndedRow]_vars
<1> SUFFICES ASSUME Inv, Inv', [Next]_vars, NEW u \in Transfers, row[u].status \in Terminal
             PROVE  \/ row'[u] = row[u]
                    \/ row[u].status = "failed" /\ row'[u].status = "cancelled"
                    \/ row[u].status = "failed" /\ row'[u].retries = row[u].retries + 1
  BY DEF EndedRow
<1>1. ASSUME NEW t \in Transfers, NEW r \in Row, row' = [row EXCEPT ![t] = r], Move(t, r)
      PROVE  \/ row'[u] = row[u]
             \/ row[u].status = "failed" /\ row'[u].status = "cancelled"
             \/ row[u].status = "failed" /\ row'[u].retries = row[u].retries + 1
  <2>1. u # t => row'[u] = row[u]
    BY <1>1 DEF Inv, TypeOK
  <2>2. u = t => row'[u] = r
    BY <1>1 DEF Inv, TypeOK
  <2>3. QED
    BY <1>1, <2>1, <2>2 DEF Move, Starts, Works, Withdraws, Retries, Active, Terminal
<1>2. QED
  BY <1>1, NextMoves DEF MovesOne

\* A transfer that has ended stays as it is against chunk requests that were
\* under way or abandoned, completions, maintenance and commands; a failed one
\* can be cancelled, or spend a retry (read_receive_chunk's second look at
\* the row under its lock).
THEOREM EndedStaysEnded == Spec => EndedIsFinal
<1>1. QED
  BY InvInit, InvNext, EndedStep, PTL DEF Spec, EndedIsFinal

-----------------------------------------------------------------------------
(* The receive half implements TransferLifecycle. *)

PhaseOf == [t \in Transfers |-> Phase(row[t].status)]
TriesOf == [t \in Transfers |-> row[t].retries]

\* The instance has its own copy of Cardinality.
LEMMA SameCardinality == \A S : Lifecycle!Cardinality(S) = Cardinality(S)
  BY DEF Cardinality, Lifecycle!Cardinality

LEMMA SlotMeansSlot == TypeOK /\ SlotFree => Lifecycle!HasSlot
<1> SUFFICES ASSUME TypeOK, SlotFree PROVE Lifecycle!HasSlot
  OBVIOUS
<1>1. \A s \in Statuses : Phase(s) = "active" <=> s \in Active
  BY DEF Phase, Statuses, Active, Terminal
<1>2. {t \in Transfers : PhaseOf[t] = "active"} = ActiveTransfers
  BY <1>1 DEF PhaseOf, ActiveTransfers, TypeOK, Row, Statuses
<1>3. QED
  BY <1>2, SameCardinality DEF SlotFree, Lifecycle!HasSlot, Lifecycle!Running, PhaseOf

LEMMA MoveMaps ==
    ASSUME Inv, NEW t \in Transfers, NEW r \in Row, row' = [row EXCEPT ![t] = r], Move(t, r)
    PROVE  Lifecycle!Next \/ (PhaseOf' = PhaseOf /\ TriesOf' = TriesOf)
<1>1. row[t] \in Row /\ row[t].status \in Statuses /\ r.status \in Statuses
  BY DEF Inv, TypeOK, Row, Statuses
<1>2. /\ PhaseOf' = [PhaseOf EXCEPT ![t] = Phase(r.status)]
      /\ TriesOf' = [TriesOf EXCEPT ![t] = r.retries]
      /\ PhaseOf[t] = Phase(row[t].status) /\ TriesOf[t] = row[t].retries
  BY DEF PhaseOf, TriesOf, Inv, TypeOK
<1>3. r.retries = row[t].retries => TriesOf' = TriesOf
  BY <1>2 DEF TriesOf
<1>4. CASE Starts(t, r)
  <2>1. PhaseOf[t] = "none" /\ Lifecycle!HasSlot /\ TriesOf' = TriesOf
    BY <1>2, <1>3, <1>4, SlotMeansSlot DEF Starts, Phase, Active, Inv
  <2>2. PhaseOf' = [PhaseOf EXCEPT ![t] = "active"] \/ PhaseOf' = [PhaseOf EXCEPT ![t] = "failed"]
    BY <1>2, <1>4 DEF Starts, Phase, Active
  <2>3. Lifecycle!Start(t) \/ Lifecycle!StartFailed(t)
    BY <2>1, <2>2 DEF Lifecycle!Start, Lifecycle!StartFailed, PhaseOf, TriesOf
  <2>4. QED
    BY <2>3 DEF Lifecycle!Next
<1>5. CASE Works(t, r)
  <2>1. PhaseOf[t] = "active" /\ TriesOf' = TriesOf
    BY <1>2, <1>3, <1>5 DEF Works, Phase
  <2>2. Phase(r.status) \in {"active", "failed", "done", "stopped"}
    BY <1>5 DEF Works, Phase, Terminal
  <2>3. CASE Phase(r.status) = "active"
    BY <1>2, <2>1, <2>3 DEF PhaseOf
  <2>4. CASE Phase(r.status) # "active"
    <3>1. Lifecycle!Fail(t) \/ Lifecycle!Finish(t) \/ Lifecycle!Stop(t)
      BY <1>2, <2>1, <2>2, <2>4
         DEF Lifecycle!Fail, Lifecycle!Finish, Lifecycle!Stop, PhaseOf, TriesOf
    <3>2. QED
      BY <3>1 DEF Lifecycle!Next
  <2>5. QED
    BY <2>3, <2>4
<1>6. CASE Withdraws(t, r)
  <2>1. PhaseOf[t] = "failed" /\ TriesOf' = TriesOf /\ Phase(r.status) = "stopped"
    BY <1>2, <1>3, <1>6 DEF Withdraws, Phase, Active
  <2>2. Lifecycle!Stop(t)
    BY <1>2, <2>1 DEF Lifecycle!Stop, PhaseOf, TriesOf
  <2>3. QED
    BY <2>2 DEF Lifecycle!Next
<1>7. CASE Retries(t, r)
  <2>1. Phase(r.status) = "active"
    BY <1>7 DEF Retries, Phase, Active
  <2>2. PhaseOf[t] = "active" \/ (PhaseOf[t] = "failed" /\ Lifecycle!HasSlot)
    BY <1>2, <1>7, SlotMeansSlot DEF Retries, Phase, Active, Inv
  <2>3. TriesOf[t] < MaxRetries /\ r.retries = TriesOf[t] + 1
    BY <1>2, <1>7 DEF Retries
  <2>4. Lifecycle!Spend(t)
    BY <1>2, <2>1, <2>2, <2>3 DEF Lifecycle!Spend, PhaseOf, TriesOf
  <2>5. QED
    BY <2>4 DEF Lifecycle!Next
<1>8. QED
  BY <1>4, <1>5, <1>6, <1>7 DEF Move

LEMMA InitMaps == Init => Lifecycle!Init
  BY DEF Init, Lifecycle!Init, Phase, Active

LEMMA NextMaps == Inv /\ Inv' /\ [Next]_vars => [Lifecycle!Next]_<<PhaseOf, TriesOf>>
<1> SUFFICES ASSUME Inv, Inv', [Next]_vars
             PROVE  Lifecycle!Next \/ (PhaseOf' = PhaseOf /\ TriesOf' = TriesOf)
  OBVIOUS
<1>1. CASE row' = row
  BY <1>1 DEF PhaseOf, TriesOf
<1>2. CASE MovesOne
  BY <1>2, MoveMaps DEF MovesOne
<1>3. QED
  BY <1>1, <1>2, NextMoves

\* The receive half, too, is an implementation of the lifecycle promised for
\* every transfer: a slot to start or to come back, final ends, bounded retries.
THEOREM ReceiveImplementsLifecycle == Spec => ImplementsLifecycle
<1>1. Inv /\ Inv' /\ [Next]_vars
      => [Lifecycle!Next]_<<[t \in Transfers |-> Phase(row[t].status)],
                            [t \in Transfers |-> row[t].retries]>>
  BY NextMaps DEF PhaseOf, TriesOf
<1>2. QED
  BY <1>1, InitMaps, InvInit, InvNext, PTL DEF Spec, ImplementsLifecycle, Lifecycle!Spec

-----------------------------------------------------------------------------
(* One tab.  The second half of "no false verification success": what a tab *)
(* saves is what the server verified, as long as no other tab of the owner  *)
(* works on the same transfer.                                              *)

\* While the tab fetches, nothing has been submitted for its transfer; once it
\* waits, what was submitted is what it holds.
TabTrue(b) ==
    LET r == row[tab[b].at] IN
    /\ tab[b].phase = "fetching" => r.status \notin {"verifying", "completed"}
    /\ tab[b].phase = "waiting" /\ r.status = "verifying" => r.dest = tab[b].chunks
    /\ tab[b].phase \in {"waiting", "saved"} /\ r.status = "completed" => r.sum = tab[b].chunks
    /\ tab[b].phase = "saved" => r.status = "completed"

\* What a step of the server may do to a row, as far as its contents go.
LEMMA ServerRow ==
    ASSUME Inv, NEW t \in Transfers, ServerStep(t), NEW a \in Transfers
    PROVE  /\ tab' = tab
           /\ \/ row'[a] = row[a]
              \/ /\ row[a].status # "completed"
                 /\ \/ row'[a].status \notin {"verifying", "completed"}
                    \/ /\ row'[a].status = row[a].status
                       /\ row'[a].dest = row[a].dest /\ row'[a].sum = row[a].sum
                    \/ /\ row[a].status = "verifying"
                       /\ row'[a].status = "completed" /\ row'[a].sum = row[a].dest
<1>0. row[a] \in Row /\ row[t] \in Row
  BY DEF Inv, TypeOK
<1>1. CASE RecordLate(t)
  <2>1. PICK i \in late[t] : row' = IF Open(t) THEN Delivered(t, i) ELSE row
    BY <1>1 DEF RecordLate
  <2>2. tab' = tab
    BY <1>1 DEF RecordLate
  <2>3. Open(t) => row[t].status # "completed"
    BY DEF Open, Terminal
  <2>4. QED
    BY <1>0, <2>1, <2>2, <2>3 DEF Delivered, Inv, TypeOK, Row
<1>2. CASE SourceChanges(t)
  BY <1>2 DEF SourceChanges
<1>3. CASE Retry(t)
  <2>1. PICK s \in {"preparing", "transferring"} :
            row' = [row EXCEPT ![t] = [row[t] EXCEPT !.status = s,
                                       !.retries = row[t].retries + 1, !.due = FALSE]]
    BY <1>3, Zenon DEF Retry
  <2>2. tab' = tab /\ row[t].status # "completed"
    BY <1>3 DEF Retry
  <2>3. QED
    BY <1>0, <2>1, <2>2 DEF Inv, TypeOK, Row
<1>4. CASE Pause(t) \/ Cancel(t) \/ Expire(t) \/ MaintenanceGivesUp(t)
  BY <1>0, <1>4 DEF Pause, Cancel, Expire, MaintenanceGivesUp, Active, Inv, TypeOK, Row
<1>5. CASE ComesDue(t)
  BY <1>0, <1>5 DEF ComesDue, Active, Inv, TypeOK, Row
<1>6. CASE MaintenanceVerifies(t)
  BY <1>0, <1>6 DEF MaintenanceVerifies, Inv, TypeOK, Row
<1>7. QED
  BY <1>1, <1>2, <1>3, <1>4, <1>5, <1>6 DEF ServerStep

LEMMA TrueServer ==
    ASSUME Inv, NEW b \in Tabs, TabTrue(b), NEW t \in Transfers, ServerStep(t)
    PROVE  TabTrue(b)'
<1>1. CASE tab[b].phase \in {"idle", "stopped"}
  <2>1. tab' = tab
    BY DEF ServerStep, RecordLate, Pause, Retry, Cancel, Expire, MaintenanceVerifies,
       MaintenanceGivesUp, ComesDue, SourceChanges
  <2>2. QED
    BY <1>1, <2>1 DEF TabTrue
<1>2. CASE tab[b].phase \notin {"idle", "stopped"}
  <2>1. tab[b].at \in Transfers
    BY <1>2 DEF Inv, TabSound
  <2>2. QED
    BY <2>1, ServerRow DEF TabTrue
<1>3. QED
  BY <1>1, <1>2

LEMMA TrueTab ==
    ASSUME Inv, NEW b \in Tabs, TabTrue(b), TabStep(b)
    PROVE  TabTrue(b)'
<1>0. tab[b] \in Tab /\ TabSound(b)
  BY DEF Inv, TypeOK
<1>1. ASSUME NEW t \in Transfers, Create(b, t) \/ Resume(b, t) PROVE TabTrue(b)'
  <2>1. tab'[b] = Fetching(t) /\ row'[t].status \in {"preparing", "transferring"}
    BY <1>1 DEF Create, Resume, Inv, TypeOK, Row
  <2>2. tab'[b].at = t /\ tab'[b].phase = "fetching"
    BY <2>1 DEF Fetching
  <2>3. QED
    BY <2>1, <2>2 DEF TabTrue
<1>2. ASSUME NEW t \in Transfers, CreateUnhashed(b, t) PROVE TabTrue(b)'
  BY <1>2 DEF CreateUnhashed, TabTrue
<1>3. CASE ReadChunk(b) \/ LoseChunk(b)
  <2>1. row' = row /\ tab[b].phase = "fetching"
    BY <1>3 DEF ReadChunk, LoseChunk
  <2>2. \E v : tab' = [tab EXCEPT ![b].reading = v]
    BY <1>3 DEF ReadChunk, LoseChunk
  <2>3. tab'[b].at = tab[b].at /\ tab'[b].phase = "fetching"
    BY <1>0, <2>1, <2>2 DEF Inv, TypeOK, Tab
  <2>4. QED
    BY <2>1, <2>3 DEF TabTrue
<1>4. CASE ReadRefused(b) \/ RecordRefused(b)
  BY <1>0, <1>4 DEF ReadRefused, RecordRefused, Stopped, TabTrue, Inv, TypeOK, Tab
<1>5. CASE RecordChunk(b)
  <2>1. tab[b].at \in Transfers
    BY <1>5 DEF RecordChunk, Inv, TabSound
  <2>2. row'[tab[b].at].status = "transferring"
    BY <1>5, <2>1 DEF RecordChunk, Delivered, Inv, TypeOK, Row
  <2>3. tab'[b] = [tab[b] EXCEPT !.chunks = Append(tab[b].chunks, tab[b].reading), !.reading = 0]
    <3>1. DOMAIN tab = Tabs
      BY DEF Inv, TypeOK
    <3>. QED  BY <1>5, <3>1 DEF RecordChunk
  <2>4. tab'[b].at = tab[b].at /\ tab'[b].phase = "fetching"
    <3>1. tab[b].phase = "fetching"
      BY <1>5, Zenon DEF RecordChunk
    <3>2. tab[b] \in Tab
      BY <1>0, Zenon DEF Inv, TypeOK
    <3>. QED  BY <2>3, <3>1, <3>2, SMT DEF Tab
  <2>5. QED
    BY <2>2, <2>4 DEF TabTrue
<1>6. CASE Complete(b)
  <2> DEFINE t == tab[b].at
  <2>1. t \in Transfers /\ row[t] \in Row
    BY <1>6 DEF Complete, Finished, Inv, TypeOK, TabSound
  <2>2. row'[t] = CompletedRow(t, tab[b].chunks)
    BY <1>6, <2>1 DEF Complete, Inv, TypeOK
  <2>3. /\ row'[t].status \in {"verifying", "completed", "failed"}
        /\ row'[t].dest = tab[b].chunks
        /\ row'[t].status = "completed" => row'[t].sum = tab[b].chunks
    BY <2>1, <2>2 DEF CompletedRow, Row
  <2>4. \/ tab'[b].phase = "stopped"
        \/ tab'[b].phase = "waiting" /\ tab'[b].at = t /\ tab'[b].chunks = tab[b].chunks
    BY <1>0, <1>6 DEF Complete, Answered, Stopped, Inv, TypeOK, Tab
  <2>5. QED
    BY <2>3, <2>4 DEF TabTrue
<1>7. CASE CompleteFails(b)
  <2>1. tab'[b].phase = "stopped"
    BY <1>0, <1>7 DEF CompleteFails, Stopped, Inv, TypeOK, Tab
  <2>2. QED
    BY <2>1 DEF TabTrue
<1>8. CASE CompleteEnded(b)
  <2>1. row[tab[b].at].status \notin {"verifying", "completed"} /\ row' = row
    BY <1>8 DEF CompleteEnded, Finished, TabTrue
  <2>2. \/ tab'[b].phase = "stopped"
        \/ tab'[b].phase = "waiting" /\ tab'[b].at = tab[b].at
    BY <1>0, <1>8 DEF CompleteEnded, Answered, Stopped, Inv, TypeOK, Tab
  <2>3. QED
    BY <2>1, <2>2 DEF TabTrue
<1>9. CASE Poll(b)
  BY <1>0, <1>9 DEF Poll, Stopped, TabTrue, Inv, TypeOK, Tab
<1>10. CASE Close(b)
  <2>1. tab'[b] = IdleTab
    BY <1>10 DEF Close, Inv, TypeOK
  <2>2. QED
    BY <2>1 DEF IdleTab, TabTrue
<1>11. QED
  BY <1>1, <1>2, <1>3, <1>4, <1>5, <1>6, <1>7, <1>8, <1>9, <1>10 DEF TabStep

\* "No false verification success", as the user sees it: with one tab, what
\* is saved and reported as matching is what the server verified
\* (waitForVerification in transfer-center.js).
THEOREM OneTabSavesVerified ==
    ASSUME NEW b, Tabs = {b}
    PROVE  Spec => []SavedVerified
<1> DEFINE OneTab == Inv /\ TabTrue(b)
<1>1. Init => OneTab
  BY InvInit DEF Init, TabTrue, IdleTab
<1>2. OneTab /\ [Next]_vars => OneTab'
  <2> SUFFICES ASSUME OneTab, [Next]_vars PROVE TabTrue(b)'
    BY InvNext
  <2>1. CASE UNCHANGED vars
    BY <2>1 DEF vars, TabTrue
  <2>2. CASE TabStep(b)
    BY <2>2, TrueTab
  <2>3. ASSUME NEW t \in Transfers, ServerStep(t) PROVE TabTrue(b)'
    BY <2>3, TrueServer
  <2>4. QED
    BY <2>1, <2>2, <2>3 DEF Next
<1>3. OneTab => SavedVerified
  BY DEF TabTrue, SavedVerified
<1> HIDE DEF OneTab
<1>4. QED
  BY <1>1, <1>2, <1>3, PTL DEF Spec
-----------------------------------------------------------------------------
(* The scan of the staging directory. *)

SentRow == [status : {"none", "active", "ended"}, old : BOOLEAN]

\* A chosen path is still nobody's.  A transfer cannot be created over it: a final
\* path is still there, and so is a temporary one unless the row of a transfer that
\* has lost its upload row is.
Unclaimed(paths) ==
  \A t \in Pieces :
    /\ Final(t) \in paths => sent[t].status = "none" /\ Final(t) \in DOMAIN staged
    /\ Temp(t) \in paths => /\ chunked[t] = "none"
                            /\ Temp(t) \in DOMAIN staged \/ sent[t].status # "none"

PruneTypes ==
  /\ sent \in [Pieces -> SentRow] /\ chunked \in [Pieces -> {"none", "recent", "old"}]
  /\ DOMAIN pass = {"step", "dry", "left", "ids", "paths"}

PruneInv == PruneTypes /\ Unclaimed(pass.paths)

LEMMA TwoPaths == \A t, u \in Pieces : /\ Temp(t) # Final(u)
                                       /\ Temp(t) = Temp(u) => t = u
                                       /\ Final(t) = Final(u) => t = u
BY DEF Temp, Final

LEMMA SentRows ==
  /\ Absent \in SentRow /\ [status |-> "ended", old |-> FALSE] \in SentRow
  /\ [status |-> "active", old |-> FALSE] \in SentRow
  /\ \A r \in SentRow : [r EXCEPT !.status = "active"] \in SentRow
BY DEF SentRow, Absent

\* Where the budget is counted, nothing chosen is left.
LEMMA ConsumeClears ==
  ASSUME PruneTypes, NEW n, Consume(n)
  PROVE  pass'.paths = {} /\ DOMAIN pass' = DOMAIN pass
<1>1. ASSUME NEW p, DOMAIN p = {"step", "dry", "left", "ids", "paths"}, NEW a, NEW b
      PROVE  /\ [p EXCEPT !.step = a, !.left = b, !.ids = {}, !.paths = {}].paths = {}
             /\ DOMAIN [p EXCEPT !.step = a, !.left = b, !.ids = {}, !.paths = {}] = DOMAIN p
  BY <1>1, SMT
<1>. QED  BY <1>1, SMT DEF Consume, PruneTypes

LEMMA NoPassClears == NoPass.paths = {} /\ DOMAIN NoPass = {"step", "dry", "left", "ids", "paths"}
BY DEF NoPass

LEMMA ClearedSafe ==
  ASSUME PruneTypes', pass'.paths = {}
  PROVE  PruneInv'
BY Zenon DEF PruneInv, Unclaimed

LEMMA CountedSafe ==
  ASSUME PruneInv, \E n : Consume(n), UNCHANGED <<sent, chunked>>
  PROVE  PruneInv'
<1>1. pass'.paths = {} /\ DOMAIN pass' = DOMAIN pass
  BY ConsumeClears, Zenon DEF PruneInv
<1>2. PruneTypes'
  BY <1>1, Zenon DEF PruneInv, PruneTypes
<1>. QED  BY <1>1, <1>2, ClearedSafe, Zenon

LEMMA PassSteps ==
  ASSUME PruneInv, Retention \/ PrunedLogs \/ LogStorage \/ CountRows \/ Unlink \/ CapTable \/ CountCapped
  PROVE  PruneInv'
BY CountedSafe, Zenon DEF Retention, PrunedLogs, LogStorage, CountRows, Unlink, CapTable, CountCapped

LEMMA RowSteps ==
  ASSUME PruneInv, Maintain \/ DeleteRows \/ DeleteCapped
  PROVE  PruneInv'
<1>1. pass'.paths = {} /\ DOMAIN pass' = DOMAIN pass
  <2>1. \E n : Consume(n)
    BY Zenon DEF Maintain, DeleteRows, DeleteCapped
  <2>. QED  BY <2>1, ConsumeClears, Zenon DEF PruneInv
<1>2. sent \in [Pieces -> SentRow] /\ chunked \in [Pieces -> {"none", "recent", "old"}]
  BY Zenon DEF PruneInv, PruneTypes
<1>3. /\ \A T : EndedStatuses(T) \in [Pieces -> SentRow]
      /\ [t \in Pieces |-> IF t \in pass.ids THEN Absent ELSE sent[t]] \in [Pieces -> SentRow]
      /\ [t \in Pieces |-> IF t \in pass.ids THEN "none" ELSE chunked[t]]
           \in [Pieces -> {"none", "recent", "old"}]
  BY <1>2, SentRows, Zenon DEF EndedStatuses
<1>4. PruneTypes'
  <2>1. CASE Maintain
    <3>1. chunked' = chunked /\ (sent' = sent \/ \E T : sent' = EndedStatuses(T))
      BY <2>1, Zenon DEF Maintain
    <3>2. sent' \in [Pieces -> SentRow]
      BY <1>2, <1>3, <3>1, Zenon
    <3>. QED  BY <1>1, <1>2, <3>1, <3>2, Zenon DEF PruneInv, PruneTypes
  <2>2. CASE DeleteRows
    <3>1. sent' \in [Pieces -> SentRow] /\ chunked' \in [Pieces -> {"none", "recent", "old"}]
      <4>1. CASE pass.step = "history"
        <5>1. /\ sent' = [t \in Pieces |-> IF t \in pass.ids THEN Absent ELSE sent[t]]
              /\ chunked' = chunked
          BY <2>2, <4>1, Zenon DEF DeleteRows
        <5>. QED  BY <1>2, <1>3, <5>1, Zenon
      <4>2. CASE pass.step # "history"
        <5>1. /\ chunked' = [t \in Pieces |-> IF t \in pass.ids THEN "none" ELSE chunked[t]]
              /\ sent' = sent
          BY <2>2, <4>2, Zenon DEF DeleteRows
        <5>. QED  BY <1>2, <1>3, <5>1, Zenon
      <4>. QED  BY <4>1, <4>2
    <3>. QED  BY <1>1, <3>1, Zenon DEF PruneInv, PruneTypes
  <2>3. CASE DeleteCapped
    BY <1>1, <1>2, <1>3, <2>3, Zenon DEF DeleteCapped, PruneInv, PruneTypes
  <2>. QED  BY <2>1, <2>2, <2>3
<1>. QED  BY <1>1, <1>4, ClearedSafe, Zenon

LEMMA EdgeSteps ==
  ASSUME PruneInv,
         Spent \/ LowValueOperations \/ \E dry \in BOOLEAN : BeginPass(dry) \/ BeginOperations(dry)
  PROVE  PruneInv'
<1>1. pass'.paths = {} /\ DOMAIN pass' = {"step", "dry", "left", "ids", "paths"}
  <2>1. CASE Spent \/ LowValueOperations
    BY <2>1, NoPassClears, Zenon DEF Spent, LowValueOperations
  <2>2. ASSUME NEW dry \in BOOLEAN, BeginPass(dry) \/ BeginOperations(dry)
        PROVE  pass'.paths = {} /\ DOMAIN pass' = {"step", "dry", "left", "ids", "paths"}
    <3>1. ASSUME NEW p, DOMAIN p = {"step", "dry", "left", "ids", "paths"}, p.paths = {},
                 NEW a, NEW b, NEW c
          PROVE  /\ [p EXCEPT !.step = a, !.dry = b, !.left = c].paths = {}
                 /\ DOMAIN [p EXCEPT !.step = a, !.dry = b, !.left = c] = DOMAIN p
      BY <3>1, SMT
    <3>2. PICK step : pass' = [NoPass EXCEPT !.step = step, !.dry = dry, !.left = Budget]
      BY <2>2, Zenon DEF BeginPass, BeginOperations
    <3>3. PICK p : p = NoPass
      OBVIOUS
    <3>4. p.paths = {} /\ DOMAIN p = {"step", "dry", "left", "ids", "paths"}
      BY <3>3, NoPassClears, Zenon
    <3>5. pass' = [p EXCEPT !.step = step, !.dry = dry, !.left = Budget]
      BY <3>2, <3>3, Zenon
    <3>. QED  BY <3>4, <3>5, SMT
  <2>. QED  BY <2>1, <2>2
<1>2. UNCHANGED <<sent, chunked>>
  BY Zenon DEF Spent, LowValueOperations, BeginPass, BeginOperations
<1>3. PruneTypes'
  BY <1>1, <1>2, Zenon DEF PruneInv, PruneTypes
<1>. QED  BY <1>1, <1>3, ClearedSafe, Zenon

\* Transfers are listed, and the paths stay as they are.
LEMMA ListSteps ==
  ASSUME PruneInv, ListRows \/ ListCapped
  PROVE  PruneInv'
<1>1. PICK T : pass' = [pass EXCEPT !.ids = T]
  BY Zenon DEF ListRows, ListCapped
<1>2. pass'.paths = pass.paths /\ DOMAIN pass' = DOMAIN pass
  BY <1>1, SMT DEF PruneInv, PruneTypes
<1>3. UNCHANGED <<sent, chunked, staged>>
  BY Zenon DEF ListRows, ListCapped
<1>. QED  BY <1>2, <1>3, Zenon DEF PruneInv, PruneTypes, Unclaimed

\* The expired operations go, and no path is chosen or given up.
LEMMA ExpiredSafe ==
  ASSUME PruneInv, ExpiredOperations
  PROVE  PruneInv'
<1>1. PICK step, left : pass' = [pass EXCEPT !.step = step, !.left = left]
  BY Zenon DEF ExpiredOperations
<1>2. pass'.paths = pass.paths /\ DOMAIN pass' = DOMAIN pass
  BY <1>1, SMT DEF PruneInv, PruneTypes
<1>3. UNCHANGED <<sent, chunked, staged>>
  BY Zenon DEF ExpiredOperations
<1>. QED  BY <1>2, <1>3, Zenon DEF PruneInv, PruneTypes, Unclaimed

LEMMA ScanSafe ==
  ASSUME PruneInv, Scan
  PROVE  PruneInv'
<1>1. PICK seen \in SUBSET DOMAIN staged :
        pass' = [pass EXCEPT !.step = "unlink",
                             !.paths = {p \in seen : staged[p] /\ ~Referenced(p)}]
  BY Zenon DEF Scan
<1>2. PICK stale : stale = {p \in seen : staged[p] /\ ~Referenced(p)}
  OBVIOUS
<1>3. pass'.paths = stale /\ DOMAIN pass' = DOMAIN pass
  <2>1. pass' = [pass EXCEPT !.step = "unlink", !.paths = stale]
    BY <1>1, <1>2, Zenon
  <2>2. DOMAIN pass = {"step", "dry", "left", "ids", "paths"}
    BY Zenon DEF PruneInv, PruneTypes
  <2>. QED  BY <2>1, <2>2, SMT
<1>4. UNCHANGED <<sent, chunked, staged>>
  BY Zenon DEF Scan
<1>5. \A t \in Pieces :
        /\ Final(t) \in stale => sent[t].status = "none" /\ Final(t) \in DOMAIN staged
        /\ Temp(t) \in stale => chunked[t] = "none" /\ Temp(t) \in DOMAIN staged
  BY <1>1, <1>2, Zenon DEF Referenced
<1>6. Unclaimed(pass.paths)'
  BY <1>3, <1>4, <1>5, Zenon DEF Unclaimed
<1>. QED  BY <1>3, <1>4, <1>6, Zenon DEF PruneInv, PruneTypes

\* A transfer that is created, written, moved, ended or retried claims nothing chosen.
LEMMA CreateSafe ==
  ASSUME PruneInv, NEW t \in Pieces, CreateTransfer(t)
  PROVE  PruneInv'
<1>1. /\ sent[t].status = "none" /\ chunked[t] = "none" /\ UNCHANGED <<staged, pass>>
      /\ {Temp(t), Final(t)} \cap DOMAIN staged = {}
      /\ sent \in [Pieces -> SentRow] /\ chunked \in [Pieces -> {"none", "recent", "old"}]
  BY Zenon DEF CreateTransfer, PruneInv, PruneTypes
<1>2. Final(t) \notin pass.paths /\ Temp(t) \notin pass.paths
  BY <1>1, Zenon DEF PruneInv, Unclaimed
<1>3. /\ sent' \in [Pieces -> SentRow]
      /\ \A u \in Pieces : u # t => sent'[u] = sent[u]
  <2>1. sent' = [sent EXCEPT ![t] = [sent[t] EXCEPT !.status = "active"]]
    BY Zenon DEF CreateTransfer
  <2>2. [sent[t] EXCEPT !.status = "active"] \in SentRow
    BY <1>1, SentRows, Zenon
  <2>. QED  BY <1>1, <2>1, <2>2, Zenon
<1>4. /\ chunked' \in [Pieces -> {"none", "recent", "old"}]
      /\ \A u \in Pieces : u # t => chunked'[u] = chunked[u]
  BY <1>1, Zenon DEF CreateTransfer
<1>5. Unclaimed(pass.paths)'
  BY <1>1, <1>2, <1>3, <1>4, Zenon DEF PruneInv, Unclaimed
<1>. QED  BY <1>1, <1>3, <1>4, <1>5, Zenon DEF PruneInv, PruneTypes

LEMMA RunningSafe ==
  ASSUME PruneInv, NEW t \in Pieces, WriteChunk(t) \/ MoveUpload(t)
  PROVE  PruneInv'
<1>1. sent[t].status = "active" /\ UNCHANGED <<sent, chunked, pass>>
  BY Zenon DEF WriteChunk, MoveUpload
<1>2. Final(t) \notin pass.paths
  BY <1>1, Zenon DEF PruneInv, Unclaimed
<1>3. \A p \in DOMAIN staged : p # Temp(t) => p \in DOMAIN staged'
  BY Zenon DEF WriteChunk, MoveUpload
<1>4. \A u \in Pieces : u # t => Temp(u) # Temp(t) /\ Final(u) # Temp(t)
  BY TwoPaths, Zenon
<1>5. sent[t].status # "none"
  BY <1>1, Zenon
<1>6. ASSUME NEW u \in Pieces
      PROVE  /\ Final(u) \in pass.paths => sent[u].status = "none" /\ Final(u) \in DOMAIN staged'
             /\ Temp(u) \in pass.paths => /\ chunked[u] = "none"
                                          /\ Temp(u) \in DOMAIN staged' \/ sent[u].status # "none"
  BY <1>2, <1>3, <1>4, <1>5, Zenon DEF PruneInv, Unclaimed
<1>. QED  BY <1>1, <1>6, Zenon DEF PruneInv, PruneTypes, Unclaimed

LEMMA EndSafe ==
  ASSUME PruneInv, NEW t \in Pieces, EndTransfer(t)
  PROVE  PruneInv'
<1>1. /\ sent[t].status = "active" /\ sent' = EndedStatuses({t}) /\ UNCHANGED <<chunked, pass>>
      /\ sent \in [Pieces -> SentRow]
  BY Zenon DEF EndTransfer, PruneInv, PruneTypes
<1>2. Final(t) \notin pass.paths
  BY <1>1, Zenon DEF PruneInv, Unclaimed
<1>3. /\ sent' \in [Pieces -> SentRow] /\ sent'[t].status # "none"
      /\ \A u \in Pieces : u # t => sent'[u] = sent[u]
  <2>1. [status |-> "ended", old |-> FALSE].status # "none"
    OBVIOUS
  <2>2. sent' = [u \in Pieces |-> IF u \in {t} THEN [status |-> "ended", old |-> FALSE] ELSE sent[u]]
    BY <1>1, Zenon DEF EndedStatuses
  <2>. QED  BY <1>1, <2>1, <2>2, SentRows, Zenon
<1>4. ASSUME NEW u \in Pieces, u # t
      PROVE  /\ Final(u) \in DOMAIN staged => Final(u) \in DOMAIN staged'
             /\ Temp(u) \in DOMAIN staged => Temp(u) \in DOMAIN staged'
  <2>1. PICK lost \in {{}, BytesOf({t})} : staged' = Keep(Paths \ lost)
    BY Zenon DEF EndTransfer
  <2>2. Final(u) \in Paths /\ Temp(u) \in Paths
    BY Zenon DEF Paths
  <2>3. Final(u) \notin lost /\ Temp(u) \notin lost
    BY <1>4, <2>1, TwoPaths, Zenon DEF BytesOf
  <2>. QED  BY <2>1, <2>2, <2>3, Zenon DEF Keep
<1>5. ASSUME NEW u \in Pieces
      PROVE  /\ Final(u) \in pass.paths => sent'[u].status = "none" /\ Final(u) \in DOMAIN staged'
             /\ Temp(u) \in pass.paths => /\ chunked[u] = "none"
                                          /\ Temp(u) \in DOMAIN staged' \/ sent'[u].status # "none"
  <2>1. /\ Final(u) \in pass.paths => sent[u].status = "none" /\ Final(u) \in DOMAIN staged
        /\ Temp(u) \in pass.paths => /\ chunked[u] = "none"
                                     /\ Temp(u) \in DOMAIN staged \/ sent[u].status # "none"
    BY Zenon DEF PruneInv, Unclaimed
  <2>2. CASE u = t
    BY <1>2, <1>3, <2>1, <2>2, Zenon
  <2>3. CASE u # t
    <3>1. sent'[u] = sent[u]
      BY <1>3, <2>3, Zenon
    <3>. QED  BY <1>4, <2>1, <2>3, <3>1, Zenon
  <2>. QED  BY <2>2, <2>3
<1>. QED  BY <1>1, <1>3, <1>5, Zenon DEF PruneInv, PruneTypes, Unclaimed

LEMMA RetrySafe ==
  ASSUME PruneInv, NEW t \in Pieces, RetryTransfer(t)
  PROVE  PruneInv'
<1>1. /\ sent[t].status = "ended" /\ chunked[t] # "none" /\ UNCHANGED <<chunked, staged, pass>>
      /\ sent' = [sent EXCEPT ![t] = [status |-> "active", old |-> FALSE]]
      /\ sent \in [Pieces -> SentRow]
  BY Zenon DEF RetryTransfer, PruneInv, PruneTypes
<1>2. Final(t) \notin pass.paths /\ Temp(t) \notin pass.paths
  BY <1>1, Zenon DEF PruneInv, Unclaimed
<1>3. sent' \in [Pieces -> SentRow] /\ \A u \in Pieces : u # t => sent'[u] = sent[u]
  BY <1>1, SentRows, Zenon
<1>. QED  BY <1>1, <1>2, <1>3, Zenon DEF PruneInv, PruneTypes, Unclaimed

LEMMA TimeSafe ==
  ASSUME PruneInv, TimePasses
  PROVE  PruneInv'
<1>1. DOMAIN staged' = DOMAIN staged /\ UNCHANGED <<sent, chunked, pass>>
  BY Zenon DEF TimePasses
<1>. QED  BY <1>1, Zenon DEF PruneInv, PruneTypes, Unclaimed

LEMMA InitPrune == PruneInit => PruneInv
<1>. SUFFICES ASSUME PruneInit PROVE PruneInv
  OBVIOUS
<1>1. /\ sent \in [Pieces -> SentRow] /\ chunked \in [Pieces -> {"none", "recent", "old"}]
  <2>1. {Absent, [status |-> "active", old |-> FALSE], [status |-> "ended", old |-> FALSE],
         [status |-> "ended", old |-> TRUE]} \subseteq SentRow
    BY DEF SentRow, Absent
  <2>2. /\ sent \in [Pieces -> {Absent, [status |-> "active", old |-> FALSE],
                               [status |-> "ended", old |-> FALSE],
                               [status |-> "ended", old |-> TRUE]}]
        /\ chunked \in [Pieces -> {"none", "recent", "old"}]
    BY Zenon DEF PruneInit
  <2>. QED  BY <2>1, <2>2, Zenon
<1>2. pass.paths = {} /\ DOMAIN pass = {"step", "dry", "left", "ids", "paths"}
  BY NoPassClears, Zenon DEF PruneInit
<1>. QED  BY <1>1, <1>2, Zenon DEF PruneInv, PruneTypes, Unclaimed

LEMMA PruneInvStep ==
  ASSUME PruneInv, [PruneNext]_pruneVars
  PROVE  PruneInv'
<1>1. CASE UNCHANGED pruneVars
  <2>1. UNCHANGED <<sent, chunked, staged, pass>>
    BY <1>1, Zenon DEF pruneVars
  <2>. QED  BY <2>1, Zenon DEF PruneInv, PruneTypes, Unclaimed
<1>2. ASSUME NEW t \in Pieces,
             CreateTransfer(t) \/ WriteChunk(t) \/ MoveUpload(t) \/ EndTransfer(t)
               \/ RetryTransfer(t)
      PROVE  PruneInv'
  BY <1>2, CreateSafe, RunningSafe, EndSafe, RetrySafe, Zenon
<1>. QED  BY <1>1, <1>2, PassSteps, RowSteps, EdgeSteps, ListSteps, ExpiredSafe, ScanSafe,
             TimeSafe, Zenon DEF PruneNext

\* "A file is not an orphan merely because it is old": what the scan chose belongs to no
\* transfer and no upload when it is unlinked, whatever transfers did in between.
THEOREM ChosenStaysUnclaimed == PruneSpec => []StagedIsKept
<1>1. PruneInv => StagedIsKept
  BY Zenon DEF PruneInv, Unclaimed, StagedIsKept
<1>. QED  BY <1>1, InitPrune, PruneInvStep, PTL DEF PruneSpec

-----------------------------------------------------------------------------
(* The budget of an invocation. *)

TableRow == [old : Nat, recent : Nat, held : Nat]

\* The steps of the pass that count what they process, and go on with the next.
CountedSteps == {Order[i] : i \in 1 .. 17}
PruneSteps == {Order[i] : i \in 1 .. 18} \cup {"expired", "lowValue"}
PassRows == [step : PruneSteps, dry : BOOLEAN, left : 0 .. Budget, ids : SUBSET Pieces,
             paths : SUBSET Paths]

\* What was removed and what the budget has left never exceed the budget, and neither
\* does what was listed and is still there exceed what is left.  The command that
\* prunes the operations lists nothing.
BudgetKept ==
  /\ pass \in PassRows /\ gone \in Nat
  /\ gone + pass.left <= Budget
  /\ Cardinality(pass.ids) <= pass.left /\ Cardinality(pass.paths) <= pass.left
  /\ pass.step \in {"expired", "lowValue"} => pass.ids = {} /\ pass.paths = {}

DirectoryTyped ==
  DOMAIN staged \subseteq Paths /\ \A p \in DOMAIN staged : staged[p] \in BOOLEAN

BudgetInv ==
  /\ tables \in [Tables -> TableRow] /\ moves \in 0 .. MaxMoves
  /\ DirectoryTyped /\ BudgetKept

LEMMA PruneBounds ==
  IsFiniteSet(Pieces) /\ Budget \in Nat /\ MaxRecords \in Nat /\ MaxMoves \in Nat
BY PruneAssumption

LEMMA LeastOf ==
  ASSUME NEW a \in Nat, NEW b \in Nat
  PROVE  Least(a, b) \in Nat /\ Least(a, b) <= a /\ Least(a, b) <= b
BY DEF Least

LEMMA OrderNames ==
  /\ \A i \in 1 .. 18 : Order[i] # "expired" /\ Order[i] # "lowValue"
  /\ \A i \in 1 .. 17 : Order[i] # "done"
BY DEF Order

\* Every step but the last has a next one.
LEMMA StepGoesOn ==
  ASSUME pass.step \in CountedSteps
  PROVE  NextStep \in PruneSteps /\ NextStep \notin {"expired", "lowValue"}
<1> DEFINE i == CHOOSE j \in 1 .. 17 : Order[j] = pass.step
<1>1. \E j \in 1 .. 17 : Order[j] = pass.step
  BY Zenon DEF CountedSteps
<1>2. i \in 1 .. 17
  BY <1>1, Zenon
<1>3. 1 + i \in 1 .. 18 /\ NextStep = Order[1 + i]
  <2>1. NextStep = Order[1 + i]
    BY Zenon DEF NextStep
  <2> HIDE DEF i
  <2>. QED  BY <1>2, <2>1, SMT
<1> HIDE DEF i
<1>. QED  BY <1>3, OrderNames, Zenon DEF PruneSteps

LEMMA CountingSteps ==
  /\ {"retention", "records", "storage", "groups", "maintain", "checks", "incidents",
      "metrics", "history", "uploads", "orphans", "scan", "unlink", "capChecks",
      "capIncidents", "capMetrics", "capHistory"} \subseteq CountedSteps
  /\ "done" \in PruneSteps /\ CountedSteps \subseteq PruneSteps
<1>1. /\ Order[1] = "retention" /\ Order[2] = "records" /\ Order[3] = "storage"
      /\ Order[4] = "groups" /\ Order[5] = "maintain" /\ Order[6] = "checks"
      /\ Order[7] = "incidents" /\ Order[8] = "metrics" /\ Order[9] = "history"
  BY DEF Order
<1>2. /\ Order[10] = "uploads" /\ Order[11] = "orphans" /\ Order[12] = "scan"
      /\ Order[13] = "unlink" /\ Order[14] = "capChecks" /\ Order[15] = "capIncidents"
      /\ Order[16] = "capMetrics" /\ Order[17] = "capHistory" /\ Order[18] = "done"
  BY DEF Order
<1>. QED  BY <1>1, <1>2, SMT DEF CountedSteps, PruneSteps

LEMMA NothingListed == Cardinality({}) = 0
BY FS_EmptySet

\* What a part processes within what is left is taken from what is left.
LEMMA CountedWithin ==
  ASSUME BudgetKept, pass.step \in CountedSteps, NEW n \in Nat, n <= pass.left, Consume(n),
         gone' \in Nat, gone' <= gone + n
  PROVE  BudgetKept'
<1>1. PICK step, left : step = NextStep /\ left = pass.left - Least(n, pass.left)
  OBVIOUS
<1>2. pass' = [pass EXCEPT !.step = step, !.left = left, !.ids = {}, !.paths = {}]
  BY <1>1, Zenon DEF Consume
<1>3. pass \in PassRows /\ pass.left \in 0 .. Budget /\ Budget \in Nat
  BY PruneBounds, SMT DEF BudgetKept, PassRows
<1>4. left = pass.left - n /\ left \in 0 .. Budget
  BY <1>1, <1>3, SMT DEF Least
<1>5. step \in PruneSteps /\ step \notin {"expired", "lowValue"}
  BY <1>1, StepGoesOn
<1>6. pass' \in PassRows
  BY <1>2, <1>3, <1>4, <1>5, Zenon DEF PassRows
<1>7. pass'.left = left /\ pass'.ids = {} /\ pass'.paths = {} /\ pass'.step = step
  BY <1>2, <1>3, SMT DEF PassRows
<1>8. gone' + pass'.left <= Budget
  BY <1>3, <1>4, <1>7, SMT DEF BudgetKept
<1>9. Cardinality(pass'.ids) <= pass'.left /\ Cardinality(pass'.paths) <= pass'.left
  BY <1>4, <1>7, NothingListed, SMT
<1>. QED  BY <1>5, <1>6, <1>7, <1>8, <1>9, Zenon DEF BudgetKept

LEMMA CountedRows ==
  ASSUME NEW n \in Nat, gone \in Nat, CountOf(n)
  PROVE  gone' \in Nat /\ gone' <= gone + n
<1>1. CASE pass.dry
  BY <1>1, SMT DEF CountOf
<1>2. CASE ~pass.dry
  BY <1>2, SMT DEF CountOf
<1>. QED  BY <1>1, <1>2

\* No table goes below nothing.
LEMMA TakenRows ==
  ASSUME tables \in [Tables -> TableRow], NEW k \in Tables, NEW n \in Nat,
         n <= tables[k].old + tables[k].recent, TakeRows(k, n)
  PROVE  tables' \in [Tables -> TableRow]
<1>1. CASE pass.dry
  BY <1>1, Zenon DEF TakeRows
<1>2. CASE ~pass.dry
  <2> DEFINE o == tables[k].old - Least(n, tables[k].old)
             r == tables[k].recent - (n - Least(n, tables[k].old))
  <2>1. tables[k] \in TableRow
    OBVIOUS
  <2>2. tables[k].old \in Nat /\ tables[k].recent \in Nat
    BY <2>1, SMT DEF TableRow
  <2>3. o \in Nat /\ r \in Nat
    BY <2>2, SMT DEF Least
  <2>9. PICK first : first = [tables[k] EXCEPT !.old = o]
    OBVIOUS
  <2>4. first \in TableRow /\ first.recent = tables[k].recent
    <3>1. first \in TableRow
      BY <2>1, <2>3, <2>9, Zenon DEF TableRow
    <3> HIDE DEF o
    <3>2. first.recent = tables[k].recent
      BY <2>1, <2>9, SMT DEF TableRow
    <3>. QED  BY <3>1, <3>2
  <2>5. PICK between : between = [tables EXCEPT ![k] = first]
    OBVIOUS
  <2>6. between \in [Tables -> TableRow] /\ between[k] = first
    BY <2>4, <2>5, Zenon
  <2>7. tables' = [between EXCEPT ![k] = [first EXCEPT !.recent = r]]
    <3>1. tables' = [[tables EXCEPT ![k] = [tables[k] EXCEPT !.old = o]]
                       EXCEPT ![k] = [[tables EXCEPT ![k] = [tables[k] EXCEPT !.old = o]][k]
                         EXCEPT !.recent = [tables EXCEPT ![k] = [tables[k] EXCEPT !.old = o]][k].recent
                                             - (n - Least(n, tables[k].old))]]
      BY <1>2, Zenon DEF TakeRows
    <3> HIDE DEF o
    <3>2. tables' = [between EXCEPT ![k] = [between[k] EXCEPT !.recent = between[k].recent - (n - Least(n, tables[k].old))]]
      BY <2>9, <2>5, <3>1, Zenon
    <3>. QED  BY <2>4, <2>6, <3>2, Zenon
  <2> HIDE DEF o, r
  <2>8. [first EXCEPT !.recent = r] \in TableRow
    BY <2>3, <2>4, Zenon DEF TableRow
  <2>. QED  BY <2>6, <2>7, <2>8, Zenon
<1>. QED  BY <1>1, <1>2

\* A part that processes n rows of a table, whatever it is: the table, the budget.
LEMMA RowsProcessed ==
  ASSUME BudgetInv, pass.step \in CountedSteps, NEW k \in Tables, NEW n \in Nat, n <= pass.left,
         n <= tables[k].old + tables[k].recent,
         TakeRows(k, n), Consume(n), CountOf(n), UNCHANGED <<staged, moves>>
  PROVE  BudgetInv'
<1>1. gone' \in Nat /\ gone' <= gone + n
  BY CountedRows, Zenon DEF BudgetInv, BudgetKept
<1>2. BudgetKept'
  BY <1>1, CountedWithin, Zenon DEF BudgetInv
<1>3. tables' \in [Tables -> TableRow]
  BY TakenRows, Zenon DEF BudgetInv
<1>. QED  BY <1>2, <1>3, Zenon DEF BudgetInv, DirectoryTyped

LEMMA PassTyped ==
  ASSUME BudgetInv
  PROVE  /\ pass.left \in Nat /\ pass.left <= Budget /\ pass.dry \in BOOLEAN /\ gone \in Nat
         /\ pass.ids \subseteq Pieces /\ pass.paths \subseteq Paths /\ pass.step \in PruneSteps
         /\ \A k \in Tables : /\ tables[k].old \in Nat /\ tables[k].recent \in Nat
                              /\ tables[k].held \in Nat
<1>1. pass \in PassRows /\ gone \in Nat /\ \A k \in Tables : tables[k] \in TableRow
  BY Zenon DEF BudgetInv, BudgetKept
<1>. QED  BY <1>1, PruneBounds, SMT DEF PassRows, TableRow

LEMMA BatchOf ==
  ASSUME BudgetInv, NEW n \in Nat
  PROVE  Batch(n) \in Nat /\ Batch(n) <= n /\ Batch(n) <= pass.left
<1>1. pass.left \in Nat
  BY PassTyped
<1>. QED  BY <1>1, LeastOf, Zenon DEF Batch

LEMMA RetentionWithin ==
  ASSUME BudgetInv, Retention
  PROVE  BudgetInv'
<1>1. PICK k : k = TableOf[pass.step]
  OBVIOUS
<1>2. pass.step \in DOMAIN TableOf
  BY Zenon DEF Retention
<1>3. k \in Tables /\ pass.step \in CountedSteps
  <2>1. pass.step \in {"retention", "groups", "checks", "incidents", "metrics"}
    BY <1>2, SMT DEF TableOf
  <2>2. pass.step \in CountedSteps
    BY <2>1, CountingSteps, Zenon
  <2>3. k \in Tables
    BY <1>1, <2>1, SMT DEF TableOf, Tables
  <2>. QED  BY <2>2, <2>3
<1>4. PICK n : n = Batch(tables[k].old)
  OBVIOUS
<1>5. TakeRows(k, n) /\ Consume(n) /\ CountOf(n) /\ UNCHANGED <<staged, moves>>
  BY <1>1, <1>4, Zenon DEF Retention
<1>6. tables[k].old \in Nat /\ tables[k].recent \in Nat
  BY <1>3, PassTyped, Zenon
<1>7. n \in Nat /\ n <= tables[k].old /\ n <= pass.left
  BY <1>4, <1>6, BatchOf, Zenon
<1>8. n <= tables[k].old + tables[k].recent
  BY <1>6, <1>7, SMT
<1>. QED  BY <1>3, <1>5, <1>7, <1>8, RowsProcessed, Zenon

LEMMA LogsWithin ==
  ASSUME BudgetInv, PrunedLogs \/ LogStorage
  PROVE  BudgetInv'
<1>1. "events" \in Tables
  BY DEF Tables
<1>2. PICK e : e = tables["events"]
  OBVIOUS
<1>3. /\ e.old \in Nat /\ e.recent \in Nat /\ e.held \in Nat /\ e.old + e.recent \in Nat
      /\ MaxRecords \in Nat
  <2>1. e.old \in Nat /\ e.recent \in Nat /\ e.held \in Nat
    BY <1>1, <1>2, PassTyped, Zenon
  <2>. QED  BY <2>1, PruneBounds, SMT
<1>4. PICK n \in Nat : /\ n <= pass.left /\ n <= e.old + e.recent
                       /\ TakeRows("events", n) /\ Consume(n) /\ CountOf(n)
  <2>1. CASE PrunedLogs
    <3> DEFINE all == e.old + e.recent + e.held
               many == IF all > MaxRecords THEN Least(Batch(all - MaxRecords), e.old + e.recent)
                       ELSE 0
    <3>1. TakeRows("events", many) /\ Consume(many) /\ CountOf(many)
      BY <1>2, <2>1, Zenon DEF PrunedLogs
    <3>2. many \in Nat /\ many <= pass.left /\ many <= e.old + e.recent
      <4>1. CASE all > MaxRecords
        <5>1. all - MaxRecords \in Nat
          BY <1>3, <4>1, SMT
        <5>2. Batch(all - MaxRecords) \in Nat /\ Batch(all - MaxRecords) <= pass.left
          BY <5>1, BatchOf, Zenon
        <5>3. /\ many \in Nat /\ many <= e.old + e.recent /\ many <= Batch(all - MaxRecords)
          BY <1>3, <4>1, <5>2, LeastOf, Zenon
        <5>. QED  BY <5>2, <5>3, PassTyped, SMT
      <4>2. CASE ~(all > MaxRecords)
        <5>1. many = 0
          BY <4>2, Zenon
        <5>. QED  BY <1>3, <5>1, PassTyped, SMT
      <4>. QED  BY <4>1, <4>2
    <3>. QED  BY <3>1, <3>2, Zenon
  <2>2. CASE LogStorage
    <3>1. PICK tooBig \in BOOLEAN :
            LET many == IF tooBig THEN Batch(e.old + e.recent) ELSE 0
            IN  TakeRows("events", many) /\ Consume(many) /\ CountOf(many)
      BY <1>2, <2>2, Zenon DEF LogStorage
    <3>2. PICK many : /\ many = 0 \/ many = Batch(e.old + e.recent)
                      /\ TakeRows("events", many) /\ Consume(many) /\ CountOf(many)
      <4>1. CASE tooBig
        BY <3>1, <4>1, Zenon
      <4>2. CASE ~tooBig
        BY <3>1, <4>2, Zenon
      <4>. QED  BY <3>1, <4>1, <4>2, Zenon
    <3>3. Batch(e.old + e.recent) \in Nat /\ Batch(e.old + e.recent) <= e.old + e.recent
          /\ Batch(e.old + e.recent) <= pass.left
      BY <1>3, BatchOf, Zenon
    <3>4. many \in Nat /\ many <= pass.left /\ many <= e.old + e.recent
      BY <1>3, <3>2, <3>3, PassTyped, SMT
    <3>. QED  BY <3>2, <3>4, Zenon
  <2>. QED  BY <2>1, <2>2
<1>5. pass.step \in CountedSteps
  <2>1. pass.step \in {"records", "storage"}
    BY Zenon DEF PrunedLogs, LogStorage, At
  <2>. QED  BY <2>1, CountingSteps, Zenon
<1>6. UNCHANGED <<staged, moves>>
  BY Zenon DEF PrunedLogs, LogStorage
<1>. QED  BY <1>1, <1>2, <1>4, <1>5, <1>6, RowsProcessed, Zenon

\* A cap takes no more rows than there are, and no more than the budget has left.
LEMMA CappedWithin ==
  ASSUME BudgetInv, NEW n \in Nat
  PROVE  Capped(n) \in Nat /\ Capped(n) <= n /\ Capped(n) <= pass.left
<1>1. CASE n <= MaxRecords
  <2>1. Capped(n) = 0
    BY <1>1, Zenon DEF Capped
  <2>. QED  BY <2>1, PassTyped, SMT
<1>2. CASE ~(n <= MaxRecords) /\ pass.dry
  <2>1. Capped(n) = Batch(n - MaxRecords) /\ n - MaxRecords \in Nat /\ n - MaxRecords <= n
    <3>1. Capped(n) = Batch(n - MaxRecords)
      BY <1>2, Zenon DEF Capped
    <3>2. n - MaxRecords \in Nat /\ n - MaxRecords <= n
      BY <1>2, PruneBounds, SMT
    <3>. QED  BY <3>1, <3>2
  <2>2. Batch(n - MaxRecords) \in Nat /\ Batch(n - MaxRecords) <= n - MaxRecords
        /\ Batch(n - MaxRecords) <= pass.left
    BY <2>1, BatchOf, Zenon
  <2>. QED  BY <2>1, <2>2, SMT
<1>3. CASE ~(n <= MaxRecords) /\ ~pass.dry
  BY <1>3, BatchOf, Zenon DEF Capped
<1>. QED  BY <1>1, <1>2, <1>3

LEMMA CapsWithin ==
  ASSUME BudgetInv, CapTable
  PROVE  BudgetInv'
<1>1. PICK k : k = CapTableOf[pass.step]
  OBVIOUS
<1>2. pass.step \in DOMAIN CapTableOf
  BY Zenon DEF CapTable
<1>3. k \in Tables /\ pass.step \in CountedSteps
  <2>1. pass.step \in {"capChecks", "capIncidents", "capMetrics"}
    BY <1>2, SMT DEF CapTableOf
  <2>2. pass.step \in CountedSteps
    BY <2>1, CountingSteps, Zenon
  <2>3. k \in Tables
    BY <1>1, <2>1, SMT DEF CapTableOf, Tables
  <2>. QED  BY <2>2, <2>3
<1>4. PICK n : n = Capped(tables[k].old + tables[k].recent)
  OBVIOUS
<1>5. TakeRows(k, n) /\ Consume(n) /\ CountOf(n) /\ UNCHANGED <<staged, moves>>
  BY <1>1, <1>4, Zenon DEF CapTable
<1>6. tables[k].old + tables[k].recent \in Nat
  <2>1. tables[k].old \in Nat /\ tables[k].recent \in Nat
    BY <1>3, PassTyped, Zenon
  <2>. QED  BY <2>1, SMT
<1>7. n \in Nat /\ n <= tables[k].old + tables[k].recent /\ n <= pass.left
  BY <1>4, <1>6, CappedWithin, Zenon
<1>. QED  BY <1>3, <1>5, <1>7, RowsProcessed, Zenon

LEMMA SomePieces ==
  ASSUME NEW T \in SUBSET Pieces
  PROVE  IsFiniteSet(T) /\ Cardinality(T) \in Nat
BY PruneBounds, FS_Subset, FS_CardinalityType

\* There are two paths to a transfer.
LEMMA FinitePaths == IsFiniteSet(Paths)
<1>1. IsFiniteSet({Temp(t) : t \in Pieces})
  <2> DEFINE f == [t \in Pieces |-> Temp(t)]
  <2>1. f \in Surjection(Pieces, {Temp(t) : t \in Pieces})
    BY DEF Surjection
  <2>. QED  BY <2>1, PruneBounds, FS_Surjection
<1>2. IsFiniteSet({Final(t) : t \in Pieces})
  <2> DEFINE f == [t \in Pieces |-> Final(t)]
  <2>1. f \in Surjection(Pieces, {Final(t) : t \in Pieces})
    BY DEF Surjection
  <2>. QED  BY <2>1, PruneBounds, FS_Surjection
<1>. QED  BY <1>1, <1>2, FS_Union, Zenon DEF Paths

LEMMA KeptTyped ==
  ASSUME DirectoryTyped, NEW P, staged' = Keep(P)
  PROVE  DirectoryTyped'
<1>1. DOMAIN staged' = DOMAIN staged \cap P /\ \A p \in DOMAIN staged' : staged'[p] = staged[p]
  BY Zenon DEF Keep
<1>. QED  BY <1>1, Zenon DEF DirectoryTyped

\* What is processed by the rows of the transfers, or by the files.
LEMMA ListedProcessed ==
  ASSUME BudgetInv, pass.step \in CountedSteps, NEW n \in Nat, n <= pass.left, Consume(n),
         CountOf(n) \/ gone' = gone, UNCHANGED <<tables, moves>>,
         staged' = staged \/ \E P : staged' = Keep(P)
  PROVE  BudgetInv'
<1>1. gone' \in Nat /\ gone' <= gone + n
  <2>1. CASE CountOf(n)
    BY <2>1, CountedRows, Zenon DEF BudgetInv, BudgetKept
  <2>2. CASE gone' = gone
    <3>1. gone \in Nat
      BY PassTyped
    <3>. QED  BY <2>2, <3>1, SMT
  <2>. QED  BY <2>1, <2>2
<1>2. BudgetKept'
  BY <1>1, CountedWithin, Zenon DEF BudgetInv
<1>3. DirectoryTyped'
  <2>1. CASE staged' = staged
    BY <2>1, Zenon DEF BudgetInv, DirectoryTyped
  <2>2. CASE \E P : staged' = Keep(P)
    BY <2>2, KeptTyped, Zenon DEF BudgetInv
  <2>. QED  BY <2>1, <2>2
<1>. QED  BY <1>2, <1>3, Zenon DEF BudgetInv

LEMMA MaintainWithin ==
  ASSUME BudgetInv, Maintain
  PROVE  BudgetInv'
<1>1. PICK T \in SUBSET {t \in Pieces : sent[t].status = "active"} :
        /\ Cardinality(T) <= pass.left
        /\ IF pass.dry THEN UNCHANGED <<sent, staged>>
           ELSE sent' = EndedStatuses(T) /\ staged' = Keep(Paths \ BytesOf(T))
        /\ Consume(Cardinality(T))
  BY Zenon DEF Maintain
<1>2. T \in SUBSET Pieces
  OBVIOUS
<1>3. Cardinality(T) \in Nat
  BY <1>2, SomePieces
<1>4. pass.step \in CountedSteps
  BY CountingSteps, Zenon DEF Maintain, At
<1>5. staged' = staged \/ \E P : staged' = Keep(P)
  BY <1>1, Zenon
<1>6. gone' = gone /\ UNCHANGED <<tables, moves>>
  BY Zenon DEF Maintain
<1>. QED  BY <1>1, <1>3, <1>4, <1>5, <1>6, ListedProcessed, Zenon

LEMMA DeletesWithin ==
  ASSUME BudgetInv, DeleteRows \/ DeleteCapped \/ Unlink
  PROVE  BudgetInv'
<1>1. PICK n : /\ n = Cardinality(pass.ids) \/ n = Cardinality(pass.paths)
               /\ Consume(n) /\ CountOf(n)
  BY Zenon DEF DeleteRows, DeleteCapped, Unlink
<1>2. n \in Nat /\ n <= pass.left
  <2>1. pass.ids \in SUBSET Pieces /\ pass.paths \in SUBSET Paths
    BY PassTyped, Zenon
  <2>2. Cardinality(pass.ids) \in Nat /\ Cardinality(pass.paths) \in Nat
    BY <2>1, SomePieces, FinitePaths, FS_Subset, FS_CardinalityType
  <2>. QED  BY <1>1, <2>2, Zenon DEF BudgetInv, BudgetKept
<1>3. pass.step \in CountedSteps
  <2>1. pass.step \in {"history", "uploads", "orphans", "capHistory", "unlink"}
    BY Zenon DEF DeleteRows, DeleteCapped, Unlink, At
  <2>. QED  BY <2>1, CountingSteps, Zenon
<1>4. UNCHANGED <<tables, moves>> /\ (staged' = staged \/ \E P : staged' = Keep(P))
  BY Zenon DEF DeleteRows, DeleteCapped, Unlink
<1>. QED  BY <1>1, <1>2, <1>3, <1>4, ListedProcessed, Zenon

LEMMA CountsWithin ==
  ASSUME BudgetInv, CountRows \/ CountCapped
  PROVE  BudgetInv'
<1>1. PICK n : /\ \/ n = Batch(Cardinality(Overdue)) /\ pass.step \in {"history", "uploads", "orphans"}
                  \/ n = Capped(Cardinality(EndedTransfers)) /\ pass.step = "capHistory"
               /\ Consume(n)
  BY Zenon DEF CountRows, CountCapped, At
<1>2. n \in Nat /\ n <= pass.left
  <2>1. CASE n = Batch(Cardinality(Overdue)) /\ pass.step \in {"history", "uploads", "orphans"}
    <3>1. Overdue \in SUBSET Pieces
      <4>1. CASE pass.step = "history"
        BY <4>1, SMT DEF Overdue, OldTransfers
      <4>2. CASE pass.step = "uploads"
        BY <4>2, SMT DEF Overdue, OldUploads, OldTransfers
      <4>3. CASE pass.step = "orphans"
        BY <4>3, SMT DEF Overdue, OrphanUploads
      <4>. QED  BY <2>1, <4>1, <4>2, <4>3
    <3>. QED  BY <2>1, <3>1, SomePieces, BatchOf, Zenon
  <2>2. CASE n = Capped(Cardinality(EndedTransfers))
    <3>1. EndedTransfers \in SUBSET Pieces
      BY Zenon DEF EndedTransfers
    <3>. QED  BY <2>2, <3>1, SomePieces, CappedWithin, Zenon
  <2>. QED  BY <1>1, <2>1, <2>2, Zenon
<1>3. pass.step \in CountedSteps
  <2>1. pass.step \in {"history", "uploads", "orphans", "capHistory"}
    BY <1>1, Zenon
  <2>. QED  BY <2>1, CountingSteps, Zenon
<1>4. UNCHANGED <<tables, staged, gone, moves>>
  BY Zenon DEF CountRows, CountCapped
<1>. QED  BY <1>1, <1>2, <1>3, <1>4, ListedProcessed, Zenon

\* What is listed is no more than the budget has left.
LEMMA ListsWithin ==
  ASSUME BudgetInv, ListRows \/ ListCapped
  PROVE  BudgetInv'
<1>1. PICK T : T \in SUBSET Pieces /\ Cardinality(T) <= pass.left /\ pass' = [pass EXCEPT !.ids = T]
  <2>1. CASE ListRows
    <3>1. Overdue \in SUBSET Pieces
      <4>0. pass.step \in {"history", "uploads", "orphans"}
        BY <2>1, Zenon DEF ListRows
      <4>1. CASE pass.step = "history"
        BY <4>1, SMT DEF Overdue, OldTransfers
      <4>2. CASE pass.step = "uploads"
        BY <4>2, SMT DEF Overdue, OldUploads, OldTransfers
      <4>3. CASE pass.step = "orphans"
        BY <4>3, SMT DEF Overdue, OrphanUploads
      <4>. QED  BY <4>0, <4>1, <4>2, <4>3
    <3>2. PICK T \in SUBSET Overdue : /\ Cardinality(T) = Batch(Cardinality(Overdue))
                                      /\ pass' = [pass EXCEPT !.ids = T]
      BY <2>1, Zenon DEF ListRows
    <3>3. Batch(Cardinality(Overdue)) <= pass.left
      BY <3>1, SomePieces, BatchOf, Zenon
    <3>. QED  BY <3>1, <3>2, <3>3, Zenon
  <2>2. CASE ListCapped
    <3>1. EndedTransfers \in SUBSET Pieces
      BY Zenon DEF EndedTransfers
    <3>2. PICK T \in SUBSET EndedTransfers :
            /\ Cardinality(T) = Capped(Cardinality(EndedTransfers))
            /\ pass' = [pass EXCEPT !.ids = T]
      BY <2>2, Zenon DEF ListCapped
    <3>3. Capped(Cardinality(EndedTransfers)) <= pass.left
      BY <3>1, SomePieces, CappedWithin, Zenon
    <3>. QED  BY <3>1, <3>2, <3>3, Zenon
  <2>. QED  BY <2>1, <2>2
<1>2. pass.step \notin {"expired", "lowValue"}
  <2>1. pass.step \in {"history", "uploads", "orphans", "capHistory"}
    BY Zenon DEF ListRows, ListCapped, At
  <2>. QED  BY <2>1
<1>3. pass' \in PassRows
  BY <1>1, Zenon DEF BudgetInv, BudgetKept, PassRows
<1>4. /\ pass'.ids = T /\ pass'.left = pass.left /\ pass'.paths = pass.paths
      /\ pass'.step = pass.step
  BY <1>1, SMT DEF BudgetInv, BudgetKept, PassRows
<1>5. UNCHANGED <<tables, staged, gone, moves>>
  BY Zenon DEF ListRows, ListCapped
<1>6. BudgetKept'
  BY <1>1, <1>2, <1>3, <1>4, <1>5, Zenon DEF BudgetInv, BudgetKept
<1>. QED  BY <1>5, <1>6, Zenon DEF BudgetInv, DirectoryTyped

LEMMA ScanWithin ==
  ASSUME BudgetInv, Scan
  PROVE  BudgetInv'
<1>1. PICK seen \in SUBSET DOMAIN staged :
        /\ Cardinality(seen) = Batch(Cardinality(DOMAIN staged))
        /\ pass' = [pass EXCEPT !.step = "unlink",
                                !.paths = {p \in seen : staged[p] /\ ~Referenced(p)}]
  BY Zenon DEF Scan
<1>2. PICK stale : stale = {p \in seen : staged[p] /\ ~Referenced(p)}
  OBVIOUS
<1>3. IsFiniteSet(DOMAIN staged) /\ DOMAIN staged \in SUBSET Paths
  <2>1. DOMAIN staged \in SUBSET Paths
    BY Zenon DEF BudgetInv, DirectoryTyped
  <2>. QED  BY <2>1, FinitePaths, FS_Subset
<1>4. Cardinality(stale) <= pass.left /\ stale \in SUBSET Paths
  <2>1. stale \in SUBSET seen /\ stale \in SUBSET Paths
    BY <1>1, <1>2, <1>3, Zenon
  <2>2. IsFiniteSet(seen) /\ Cardinality(DOMAIN staged) \in Nat
    BY <1>3, FS_Subset, FS_CardinalityType
  <2>3. Cardinality(stale) <= Cardinality(seen)
    BY <2>1, <2>2, FS_Subset
  <2>4. Cardinality(seen) \in Nat /\ Cardinality(stale) \in Nat
    BY <2>1, <2>2, FS_Subset, FS_CardinalityType
  <2>5. Cardinality(seen) <= pass.left
    BY <1>1, <2>2, BatchOf, Zenon
  <2>. QED  BY <2>1, <2>3, <2>4, <2>5, PassTyped, SMT
<1>5. pass' = [pass EXCEPT !.step = "unlink", !.paths = stale]
  BY <1>1, <1>2, Zenon
<1>6. "unlink" \in PruneSteps
  BY CountingSteps, Zenon
<1>7. pass' \in PassRows
  BY <1>4, <1>5, <1>6, Zenon DEF BudgetInv, BudgetKept, PassRows
<1>8. pass'.ids = pass.ids /\ pass'.left = pass.left /\ pass'.paths = stale /\ pass'.step = "unlink"
  BY <1>5, SMT DEF BudgetInv, BudgetKept, PassRows
<1>9. UNCHANGED <<tables, staged, gone, moves>>
  BY Zenon DEF Scan
<1>10. BudgetKept'
  BY <1>4, <1>7, <1>8, <1>9, Zenon DEF BudgetInv, BudgetKept
<1>. QED  BY <1>9, <1>10, Zenon DEF BudgetInv, DirectoryTyped

LEMMA NoPassTyped ==
  /\ NoPass \in PassRows /\ NoPass.left = 0 /\ NoPass.ids = {} /\ NoPass.paths = {}
  /\ NoPass.step = "done"
<1>1. "done" \in PruneSteps /\ 0 \in 0 .. Budget
  BY CountingSteps, PruneBounds, SMT
<1>. QED  BY <1>1, SMT DEF NoPass, PassRows

LEMMA SpentWithin ==
  ASSUME BudgetInv, Spent
  PROVE  BudgetInv'
<1>1. pass' = NoPass /\ UNCHANGED <<tables, staged, gone, moves>>
  BY Zenon DEF Spent
<1>2. gone' + 0 <= Budget /\ gone' \in Nat
  BY <1>1, PassTyped, PruneBounds, SMT DEF BudgetInv, BudgetKept
<1>3. Cardinality({}) <= 0
  BY NothingListed, SMT
<1>4. BudgetKept'
  BY <1>1, <1>2, <1>3, NoPassTyped, Zenon DEF BudgetKept
<1>. QED  BY <1>1, <1>4, Zenon DEF BudgetInv, DirectoryTyped

LEMMA BeginsWithin ==
  ASSUME BudgetInv, NEW dry \in BOOLEAN, BeginPass(dry) \/ BeginOperations(dry)
  PROVE  BudgetInv'
<1>1. PICK step \in {"retention", "expired"} :
        pass' = [NoPass EXCEPT !.step = step, !.dry = dry, !.left = Budget]
  BY Zenon DEF BeginPass, BeginOperations
<1>2. gone' = 0 /\ UNCHANGED <<tables, staged, moves>>
  BY Zenon DEF BeginPass, BeginOperations
<1>3. step \in PruneSteps /\ Budget \in 0 .. Budget
  <2>1. "retention" \in PruneSteps
    BY CountingSteps, Zenon
  <2>2. "expired" \in PruneSteps
    BY Zenon DEF PruneSteps
  <2>3. Budget \in 0 .. Budget
    BY PruneBounds, SMT
  <2>. QED  BY <1>1, <2>1, <2>2, <2>3, Zenon
<1>4. pass' \in PassRows
  BY <1>1, <1>3, NoPassTyped, Zenon DEF PassRows
<1>5. pass'.left = Budget /\ pass'.ids = {} /\ pass'.paths = {}
  <2>1. PICK p \in PassRows : p = NoPass /\ p.ids = {} /\ p.paths = {}
    BY NoPassTyped, Zenon
  <2>2. pass' = [p EXCEPT !.step = step, !.dry = dry, !.left = Budget]
    BY <1>1, <2>1, Zenon
  <2>. QED  BY <2>1, <2>2, SMT DEF PassRows
<1>6. gone' \in Nat /\ gone' + pass'.left <= Budget
      /\ Cardinality(pass'.ids) <= pass'.left /\ Cardinality(pass'.paths) <= pass'.left
  BY <1>2, <1>5, PruneBounds, NothingListed, SMT
<1>7. BudgetKept'
  BY <1>4, <1>5, <1>6, Zenon DEF BudgetKept
<1>. QED  BY <1>2, <1>7, Zenon DEF BudgetInv, DirectoryTyped

\* What the command that prunes the operations takes of their table.
LEMMA OperationsTaken ==
  ASSUME BudgetInv, NEW n \in Nat, n <= pass.left, TakeRows("operations", n), CountOf(n),
         n <= tables["operations"].old \/ n <= tables["operations"].recent
  PROVE  /\ tables' \in [Tables -> TableRow]
         /\ gone' \in Nat /\ gone' + (pass.left - n) <= Budget /\ pass.left - n \in 0 .. Budget
         /\ gone' <= Budget
<1>1. "operations" \in Tables
  BY DEF Tables
<1>2. tables["operations"].old \in Nat /\ tables["operations"].recent \in Nat
  BY <1>1, PassTyped, Zenon
<1>3. n <= tables["operations"].old + tables["operations"].recent
  BY <1>2, SMT
<1>4. tables' \in [Tables -> TableRow]
  BY <1>1, <1>3, TakenRows, Zenon DEF BudgetInv
<1>5. gone' \in Nat /\ gone' <= gone + n
  BY PassTyped, CountedRows, Zenon
<1>6. gone + pass.left <= Budget
  BY Zenon DEF BudgetInv, BudgetKept
<1>. QED  BY <1>4, <1>5, <1>6, PassTyped, PruneBounds, SMT

LEMMA ExpiredWithin ==
  ASSUME BudgetInv, ExpiredOperations
  PROVE  BudgetInv'
<1>1. PICK n : n = Batch(tables["operations"].old)
  OBVIOUS
<1>2. /\ TakeRows("operations", n) /\ CountOf(n)
      /\ pass' = [pass EXCEPT !.step = "lowValue", !.left = pass.left - n]
      /\ pass.step = "expired" /\ UNCHANGED <<staged, moves>>
  BY <1>1, Zenon DEF ExpiredOperations, At
<1>3. n \in Nat /\ n <= tables["operations"].old /\ n <= pass.left
  <2>1. "operations" \in Tables
    BY DEF Tables
  <2>. QED  BY <1>1, <2>1, PassTyped, BatchOf, Zenon
<1>4. PICK left : left = pass.left - n
  OBVIOUS
<1>5. /\ tables' \in [Tables -> TableRow]
      /\ gone' \in Nat /\ gone' + left <= Budget /\ left \in 0 .. Budget
  BY <1>2, <1>3, <1>4, OperationsTaken, Zenon
<1>6. pass' = [pass EXCEPT !.step = "lowValue", !.left = left]
  BY <1>2, <1>4, Zenon
<1>7. pass' \in PassRows
  <2>1. "lowValue" \in PruneSteps
    BY Zenon DEF PruneSteps
  <2>. QED  BY <1>5, <1>6, <2>1, Zenon DEF BudgetInv, BudgetKept, PassRows
<1>8. pass'.ids = {} /\ pass'.paths = {} /\ pass'.left = left
  <2>1. pass'.ids = pass.ids /\ pass'.paths = pass.paths /\ pass'.left = left
    BY <1>6, SMT DEF BudgetInv, BudgetKept, PassRows
  <2>. QED  BY <1>2, <2>1, Zenon DEF BudgetInv, BudgetKept
<1>9. Cardinality({}) <= left
  BY <1>5, NothingListed, SMT
<1>10. BudgetKept'
  BY <1>5, <1>7, <1>8, <1>9, Zenon DEF BudgetKept
<1>. QED  BY <1>2, <1>5, <1>10, Zenon DEF BudgetInv, DirectoryTyped

LEMMA LowValueWithin ==
  ASSUME BudgetInv, LowValueOperations
  PROVE  BudgetInv'
<1>1. PICK o : o = tables["operations"]
  OBVIOUS
<1>2. o.old \in Nat /\ o.recent \in Nat /\ o.held \in Nat /\ MaxRecords \in Nat
  <2>1. "operations" \in Tables
    BY DEF Tables
  <2>. QED  BY <1>1, <2>1, PassTyped, PruneBounds, Zenon
<1>3. PICK all, excess, n :
        /\ all = o.recent + o.held + IF pass.dry THEN 0 ELSE o.old
        /\ excess = IF all > MaxRecords THEN all - MaxRecords ELSE 0
        /\ n = Least(Batch(excess), o.recent)
        /\ TakeRows("operations", n) /\ CountOf(n)
  BY <1>1, Zenon DEF LowValueOperations
<1>4. excess \in Nat
  <2>1. CASE pass.dry
    BY <1>2, <1>3, <2>1, SMT
  <2>2. CASE ~pass.dry
    BY <1>2, <1>3, <2>2, SMT
  <2>. QED  BY <2>1, <2>2
<1>5. Batch(excess) \in Nat /\ Batch(excess) <= pass.left
  BY <1>4, BatchOf, Zenon
<1>6. n \in Nat /\ n <= o.recent /\ n <= Batch(excess)
  BY <1>2, <1>3, <1>5, LeastOf, Zenon
<1>7. n <= pass.left
  BY <1>5, <1>6, PassTyped, SMT
<1>8. tables' \in [Tables -> TableRow] /\ gone' \in Nat /\ gone' <= Budget
  BY <1>1, <1>3, <1>6, <1>7, OperationsTaken, Zenon
<1>9. pass' = NoPass /\ UNCHANGED <<staged, moves>>
  BY Zenon DEF LowValueOperations
<1>10. gone' + 0 <= Budget /\ Cardinality({}) <= 0
  <2>1. ASSUME NEW g \in Nat, g <= Budget PROVE g + 0 <= Budget
    BY <2>1, PruneBounds, SMT
  <2>2. Cardinality({}) <= 0
    BY NothingListed, SMT
  <2>. QED  BY <1>8, <2>1, <2>2, Zenon
<1>11. BudgetKept'
  BY <1>8, <1>9, <1>10, NoPassTyped, Zenon DEF BudgetKept
<1>. QED  BY <1>8, <1>9, <1>11, Zenon DEF BudgetInv, DirectoryTyped

\* The transfers and time change no row of the pass, and put files where they belong.
LEMMA MeanwhileWithin ==
  ASSUME BudgetInv,
         TimePasses \/ \E t \in Pieces : CreateTransfer(t) \/ WriteChunk(t) \/ MoveUpload(t)
                                          \/ EndTransfer(t) \/ RetryTransfer(t)
  PROVE  BudgetInv'
<1>1. UNCHANGED <<tables, pass, gone>> /\ moves < MaxMoves /\ moves' = moves + 1
  BY Zenon DEF TimePasses, CreateTransfer, WriteChunk, MoveUpload, EndTransfer, RetryTransfer,
               Meanwhile
<1>2. moves' \in 0 .. MaxMoves
  BY <1>1, PruneBounds, SMT DEF BudgetInv
<1>3. DirectoryTyped
  BY Zenon DEF BudgetInv
<1>4. DirectoryTyped'
  <2>1. CASE TimePasses
    <3>1. DOMAIN staged' = DOMAIN staged /\ \A p \in DOMAIN staged' : staged'[p] = TRUE
      BY <2>1, Zenon DEF TimePasses
    <3>. QED  BY <1>3, <3>1, Zenon DEF DirectoryTyped
  <2>2. ASSUME NEW t \in Pieces, CreateTransfer(t) \/ RetryTransfer(t)
        PROVE  DirectoryTyped'
    BY <1>3, <2>2, Zenon DEF CreateTransfer, RetryTransfer, DirectoryTyped
  <2>3. ASSUME NEW t \in Pieces, WriteChunk(t)
        PROVE  DirectoryTyped'
    <3>1. staged' = [p \in DOMAIN staged \cup {Temp(t)} |->
                       IF p = Temp(t) THEN FALSE ELSE staged[p]]
      BY <2>3, Zenon DEF WriteChunk
    <3>2. Temp(t) \in Paths
      BY Zenon DEF Paths
    <3>3. /\ DOMAIN staged' = DOMAIN staged \cup {Temp(t)}
          /\ \A p \in DOMAIN staged' :
               \/ staged'[p] = FALSE
               \/ p \in DOMAIN staged /\ staged'[p] = staged[p]
      BY <3>1, Zenon
    <3>. QED  BY <1>3, <3>2, <3>3, Zenon DEF DirectoryTyped
  <2>4. ASSUME NEW t \in Pieces, MoveUpload(t)
        PROVE  DirectoryTyped'
    <3>1. /\ staged' = [p \in (DOMAIN staged \ {Temp(t)}) \cup {Final(t)} |->
                          IF p = Final(t) THEN staged[Temp(t)] ELSE staged[p]]
          /\ Temp(t) \in DOMAIN staged
      BY <2>4, Zenon DEF MoveUpload
    <3>2. Final(t) \in Paths
      BY Zenon DEF Paths
    <3>3. /\ DOMAIN staged' = (DOMAIN staged \ {Temp(t)}) \cup {Final(t)}
          /\ \A p \in DOMAIN staged' : \E q \in DOMAIN staged : staged'[p] = staged[q]
      BY <3>1, Zenon
    <3>. QED  BY <1>3, <3>2, <3>3, Zenon DEF DirectoryTyped
  <2>5. ASSUME NEW t \in Pieces, EndTransfer(t)
        PROVE  DirectoryTyped'
    <3>1. \E P : staged' = Keep(P)
      BY <2>5, Zenon DEF EndTransfer
    <3>. QED  BY <1>3, <3>1, KeptTyped, Zenon
  <2>. QED  BY <2>1, <2>2, <2>3, <2>4, <2>5
<1>. QED  BY <1>1, <1>2, <1>4, Zenon DEF BudgetInv, BudgetKept

LEMMA InitBudget == PruneInit => BudgetInv
<1>. SUFFICES ASSUME PruneInit PROVE BudgetInv
  OBVIOUS
<1>1. tables \in [Tables -> TableRow]
  <2>1. /\ [old |-> 2, recent |-> 2, held |-> 1] \in TableRow
        /\ [old |-> 1, recent |-> 0, held |-> 1] \in TableRow
    BY DEF TableRow
  <2>2. PICK crowded \in Tables :
          tables = [k \in Tables |-> IF k = crowded THEN [old |-> 2, recent |-> 2, held |-> 1]
                                     ELSE [old |-> 1, recent |-> 0, held |-> 1]]
    BY Zenon DEF PruneInit
  <2>. QED  BY <2>1, <2>2, Zenon
<1>2. DirectoryTyped
  <2>1. PICK S \in SUBSET Paths, aged \in SUBSET Paths : staged = [p \in S |-> p \in aged]
    BY Zenon DEF PruneInit
  <2>2. DOMAIN staged = S /\ \A p \in S : staged[p] = (p \in aged)
    BY <2>1, Zenon
  <2>3. \A p \in S : (p \in aged) \in BOOLEAN
    OBVIOUS
  <2>. QED  BY <2>2, <2>3, Zenon DEF DirectoryTyped
<1>3. pass = NoPass /\ gone = 0 /\ moves = 0
  BY Zenon DEF PruneInit
<1>4. moves \in 0 .. MaxMoves /\ gone \in Nat /\ gone + 0 <= Budget /\ Cardinality({}) <= 0
  BY <1>3, PruneBounds, NothingListed, SMT
<1>5. BudgetKept
  BY <1>3, <1>4, NoPassTyped, Zenon DEF BudgetKept
<1>. QED  BY <1>1, <1>2, <1>4, <1>5, Zenon DEF BudgetInv

LEMMA BudgetSteps ==
  ASSUME BudgetInv, [PruneNext]_pruneVars
  PROVE  BudgetInv'
<1>1. CASE UNCHANGED pruneVars
  BY <1>1, Zenon DEF pruneVars, BudgetInv, BudgetKept, DirectoryTyped
<1>2. CASE PruneNext
  <2>1. ASSUME NEW dry \in BOOLEAN, BeginPass(dry) \/ BeginOperations(dry)
        PROVE  BudgetInv'
    BY <2>1, BeginsWithin
  <2>. QED  BY <1>2, <2>1, SpentWithin, RetentionWithin, LogsWithin, MaintainWithin, ListsWithin,
               DeletesWithin, CountsWithin, ScanWithin, CapsWithin, ExpiredWithin,
               LowValueWithin, MeanwhileWithin, Zenon DEF PruneNext
<1>. QED  BY <1>1, <1>2

\* "One maintenance invocation, shared bounded budget": whatever the parts of the command
\* find, one invocation removes no more rows and files than its budget.
THEOREM BudgetStaysShared == PruneSpec => []BudgetIsShared
<1>1. BudgetInv => BudgetIsShared
  BY PassTyped, PruneBounds, SMT DEF BudgetInv, BudgetKept, BudgetIsShared
<1>. QED  BY <1>1, BudgetSteps, InitBudget, PTL DEF PruneSpec

\* The pass never takes from a table more rows than it holds, and never leaves its steps:
\* the state keeps its types for every number of transfers, every budget and every cap.
THEOREM PruneTypeCorrect == PruneSpec => []PruneTypeOK
<1>1. ASSUME PruneInv, BudgetInv PROVE PruneTypeOK
  <2>1. sent \in [Pieces -> SentRow] /\ chunked \in [Pieces -> {"none", "recent", "old"}]
    BY <1>1, Zenon DEF PruneInv, PruneTypes
  <2>2. /\ tables \in [Tables -> TableRow] /\ moves \in 0 .. MaxMoves /\ DirectoryTyped
        /\ pass \in PassRows /\ gone \in Nat
    BY <1>1, Zenon DEF BudgetInv, BudgetKept
  <2>3. /\ pass.step \in {Order[i] : i \in 1 .. 18} \cup {"expired", "lowValue"}
        /\ pass.left \in 0 .. Budget /\ pass.ids \subseteq Pieces /\ pass.paths \subseteq Paths
    <3>1. /\ pass.step \in PruneSteps /\ pass.left \in 0 .. Budget
          /\ pass.ids \subseteq Pieces /\ pass.paths \subseteq Paths
      BY <2>2, SMT DEF PassRows
    <3>. QED  BY <3>1, Zenon DEF PruneSteps
  <2>. QED  BY <2>1, <2>2, <2>3, Zenon DEF PruneTypeOK, SentRow, TableRow, DirectoryTyped
<1>. QED  BY <1>1, BudgetSteps, InitBudget, PruneInvStep, InitPrune, PTL DEF PruneSpec

-----------------------------------------------------------------------------
(* SendClient: the page that sends a file. *)

\* What the provers need to know of the values.
HeldRows == [status : Waiting \cup Ended \cup {"verifying", "gone"},
             chunks : 0 .. FileChunks, staged : BOOLEAN]
FlowSteps == {"idle", "init", "ask", "prime", "chunk", "complete", "finalize"}
FlowRows == [step : FlowSteps, id : Nat, next : 0 .. FileChunks + 1, hash : Seq(Nat),
             left : 0 .. ChunkRetries]

ClientTypes ==
  /\ held \in [DOMAIN held -> HeldRows] /\ DOMAIN held \subseteq Sends
  /\ saved \in Nat /\ flow \in [Flows -> FlowRows]

\* What a flow has hashed: the chunks before the one it is at.
Hashed(w) ==
  /\ w.step = "prime" => w.next <= FileChunks
  /\ w.step = "chunk" => w.next \in 1 .. FileChunks /\ w.hash = Primed(w.next - 1)
  /\ w.step \in {"complete", "finalize"} => w.hash = WholeFile

\* The id in localStorage is that of the flow the form started, unless the other
\* flow ended its turn; only the form creates a transfer, while no id is saved.
OwnSaved(w, id) ==
  /\ w.step = "init" => id = NoSend
  /\ w.step \notin {"idle", "init"} => id \in {NoSend, w.id}

SavedIsItsOwn == flow["resume"].step # "init" /\ OwnSaved(flow["submit"], saved)

\* A transfer that is being verified has all its bytes; what waits for bytes is
\* what is saved.
StagedRow(h) == h.status = "verifying" => h.staged
WaitingIsSaved ==
  \A t \in DOMAIN held \ orphaned : held[t].status \in Waiting => saved = t

ClientInv ==
  /\ ClientTypes /\ SavedIsItsOwn /\ WaitingIsSaved
  /\ \A f \in Flows : Hashed(flow[f])
  /\ \A t \in DOMAIN held : StagedRow(held[t])

-----------------------------------------------------------------------------
(* What a step does to a flow and to the rows. *)

LEMMA PrimedIsSeq ==
  ASSUME NEW n \in Nat
  PROVE  Primed(n) \in Seq(Nat) /\ Len(Primed(n)) = n
  BY SMT DEF Primed

LEMMA PrimedAppend ==
  ASSUME NEW n \in Nat, n # 0
  PROVE  Append(Primed(n - 1), n) = Primed(n)
<1>1. n - 1 \in Nat /\ (n - 1) + 1 = n
  BY SMT
<1>2. /\ Primed(n - 1) \in Seq(Nat) /\ Len(Primed(n - 1)) = n - 1
      /\ Primed(n) \in Seq(Nat) /\ Len(Primed(n)) = n
  BY <1>1, PrimedIsSeq
<1>3. /\ Append(Primed(n - 1), n) \in Seq(Nat) /\ Len(Append(Primed(n - 1), n)) = n
      /\ Append(Primed(n - 1), n)[n] = n
      /\ \A i \in 1 .. (n - 1) : Append(Primed(n - 1), n)[i] = Primed(n - 1)[i]
  BY <1>1, <1>2, SMT
<1>4. ASSUME NEW i \in 1 .. n PROVE Append(Primed(n - 1), n)[i] = Primed(n)[i]
  <2>1. Primed(n)[i] = i
    BY Zenon DEF Primed
  <2>2. CASE i = n
    BY <1>3, <2>1, <2>2, Zenon
  <2>3. CASE i # n
    <3>1. i \in 1 .. (n - 1)
      BY <2>3, SMT
    <3>2. Primed(n - 1)[i] = i
      BY <3>1, Zenon DEF Primed
    <3>. QED  BY <1>3, <2>1, <3>1, <3>2, Zenon
  <2>. QED  BY <2>2, <2>3, Zenon
<1>. DEFINE p == Append(Primed(n - 1), n)
            q == Primed(n)
<1>5. p \in Seq(Nat) /\ q \in Seq(Nat) /\ Len(p) = Len(q) /\ \A i \in 1 .. Len(p) : p[i] = q[i]
  BY <1>2, <1>3, <1>4, Zenon
<1>. HIDE DEF p, q
<1>6. p = q
  BY <1>5, SeqEqual, Zenon
<1>. QED  BY <1>6 DEF p, q

LEMMA WholeIsPrimed == WholeFile = Primed(FileChunks)
  BY Zenon DEF WholeFile, Primed

LEMMA StillFlow == Still \in FlowRows /\ Hashed(Still) /\ Still.step = "idle"
                   /\ Still.id = NoSend /\ Still.next = 0
<1>1. <<>> \in Seq(Nat) /\ NoSend \in Nat /\ 0 \in 0 .. FileChunks + 1 /\ 0 \in 0 .. ChunkRetries
      /\ "idle" \in FlowSteps
  BY ClientAssumption, SMT DEF NoSend, FlowSteps
<1>2. Still \in FlowRows
  BY <1>1, Zenon DEF Still, FlowRows
<1>3. Still.step = "idle" /\ Still.id = NoSend /\ Still.next = 0
  BY Zenon DEF Still
<1>. QED  BY <1>2, <1>3, Zenon DEF Hashed

\* A flow moves: a sound row replaces its own.
LEMMA FlowMoves ==
  ASSUME ClientInv, NEW f \in Flows, NEW w \in FlowRows, Hashed(w),
         flow' = [flow EXCEPT ![f] = w]
  PROVE  /\ flow' \in [Flows -> FlowRows] /\ \A g \in Flows : Hashed(flow'[g])
         /\ flow'[f] = w /\ \A g \in Flows : g # f => flow'[g] = flow[g]
<1>1. flow \in [Flows -> FlowRows] /\ \A g \in Flows : Hashed(flow[g])
  BY Zenon DEF ClientInv, ClientTypes
<1>2. flow'[f] = w /\ \A g \in Flows : g # f => flow'[g] = flow[g]
  BY <1>1, Zenon
<1>3. flow' \in [Flows -> FlowRows]
  BY <1>1, Zenon
<1>4. ASSUME NEW g \in Flows PROVE Hashed(flow'[g])
  BY <1>1, <1>2, Zenon
<1>. QED  BY <1>2, <1>3, <1>4, Zenon

\* What a step does to the row of a transfer: nothing starts to wait for bytes.
Quiet(h, k) == StagedRow(h) => StagedRow(k) /\ (k.status \in Waiting => h.status \in Waiting)

HeldQuiet ==
  /\ held' \in [DOMAIN held -> HeldRows]
  /\ \A t \in DOMAIN held : Quiet(held[t], held'[t])

LEMMA RowChanges ==
  ASSUME ClientInv, NEW t, NEW k, held' = [held EXCEPT ![t] = k],
         t \in DOMAIN held => k \in HeldRows /\ Quiet(held[t], k)
  PROVE  HeldQuiet /\ (t \in DOMAIN held => held'[t] = k)
<1>1. held \in [DOMAIN held -> HeldRows]
  BY Zenon DEF ClientInv, ClientTypes
<1>2. held' \in [DOMAIN held -> HeldRows]
  BY <1>1, Zenon
<1>3. ASSUME NEW x \in DOMAIN held PROVE Quiet(held[x], held'[x])
  <2>1. CASE x = t
    <3>1. held'[x] = k
      BY <1>1, <2>1, Zenon
    <3>. QED  BY <2>1, <3>1, Zenon
  <2>2. CASE x # t
    <3>1. held'[x] = held[x]
      BY <1>1, <2>2, Zenon
    <3>. QED  BY <3>1, Zenon DEF Quiet
  <2>. QED  BY <2>1, <2>2
<1>4. t \in DOMAIN held => held'[t] = k
  BY <1>1, Zenon
<1>. QED  BY <1>2, <1>3, <1>4, Zenon DEF HeldQuiet

LEMMA HeldSame ==
  ASSUME ClientInv, held' = held
  PROVE  HeldQuiet
<1>1. held \in [DOMAIN held -> HeldRows]
  BY Zenon DEF ClientInv, ClientTypes
<1>. QED  BY <1>1, Zenon DEF HeldQuiet, Quiet

\* A quiet step leaves waiting what waited; who is saved may change, but not from a
\* transfer that still waits.
LEMMA QuietKeeps ==
  ASSUME ClientInv, HeldQuiet, orphaned' = orphaned,
         \A t \in DOMAIN held \ orphaned :
           saved = t /\ held'[t].status \in Waiting => saved' = t
  PROVE  /\ held' \in [DOMAIN held' -> HeldRows] /\ DOMAIN held' \subseteq Sends
         /\ WaitingIsSaved' /\ \A t \in DOMAIN held' : StagedRow(held'[t])
<1>1. /\ held \in [DOMAIN held -> HeldRows] /\ DOMAIN held \subseteq Sends
      /\ \A t \in DOMAIN held : StagedRow(held[t])
      /\ \A t \in DOMAIN held \ orphaned : held[t].status \in Waiting => saved = t
  BY Zenon DEF ClientInv, ClientTypes, WaitingIsSaved
<1>2. DOMAIN held' = DOMAIN held
  BY Zenon DEF HeldQuiet
<1>3. \A t \in DOMAIN held : StagedRow(held'[t]) /\ (held'[t].status \in Waiting => held[t].status \in Waiting)
  BY <1>1, Zenon DEF HeldQuiet, Quiet
<1>4. \A t \in DOMAIN held' \ orphaned' : held'[t].status \in Waiting => saved' = t
  BY <1>1, <1>2, <1>3, Zenon
<1>5. held' \in [DOMAIN held' -> HeldRows]
  BY <1>2, Zenon DEF HeldQuiet
<1>. QED  BY <1>1, <1>2, <1>3, <1>4, <1>5, Zenon DEF WaitingIsSaved

\* The row a step may leave a flow with, next to the saved id.
FlowGoes(f, w) ==
  /\ flow' = [flow EXCEPT ![f] = w] /\ w \in FlowRows /\ Hashed(w)
  /\ f = "resume" => w.step # "init" /\ saved' \in {saved, NoSend}
  /\ f = "submit" => OwnSaved(w, saved')

LEMMA FlowKeeps ==
  ASSUME ClientInv, NEW f \in Flows, NEW w, FlowGoes(f, w)
  PROVE  /\ flow' \in [Flows -> FlowRows] /\ \A g \in Flows : Hashed(flow'[g])
         /\ SavedIsItsOwn'
<1>1. /\ flow' \in [Flows -> FlowRows] /\ \A g \in Flows : Hashed(flow'[g])
      /\ flow'[f] = w /\ \A g \in Flows : g # f => flow'[g] = flow[g]
  BY FlowMoves, Zenon DEF FlowGoes
<1>2. CASE f = "resume"
  <2>1. flow'["submit"] = flow["submit"] /\ flow'["resume"] = w
    BY <1>1, <1>2, Zenon DEF Flows
  <2>2. w.step # "init" /\ saved' \in {saved, NoSend}
    BY <1>2, Zenon DEF FlowGoes
  <2>3. OwnSaved(flow["submit"], saved)
    BY Zenon DEF ClientInv, SavedIsItsOwn
  <2>4. OwnSaved(flow["submit"], saved')
    BY <2>2, <2>3, Zenon DEF OwnSaved
  <2>. QED  BY <1>1, <2>1, <2>2, <2>4, Zenon DEF SavedIsItsOwn
<1>3. CASE f = "submit"
  <2>1. flow'["resume"] = flow["resume"] /\ flow'["submit"] = w
    BY <1>1, <1>3, Zenon DEF Flows
  <2>2. flow["resume"].step # "init"
    BY Zenon DEF ClientInv, SavedIsItsOwn
  <2>. QED  BY <1>1, <1>3, <2>1, <2>2, Zenon DEF SavedIsItsOwn, FlowGoes
<1>. QED  BY <1>2, <1>3, Zenon DEF Flows

LEMMA FlowFails ==
  ASSUME NEW f \in Flows, Fail(f), saved' \in {saved, NoSend}
  PROVE  FlowGoes(f, Still)
<1>1. flow' = [flow EXCEPT ![f] = Still]
  BY Zenon DEF Fail
<1>2. OwnSaved(Still, saved')
  BY StillFlow, Zenon DEF OwnSaved
<1>. QED  BY <1>1, <1>2, StillFlow, Zenon DEF FlowGoes

\* The two together.
LEMMA ClientKeeps ==
  ASSUME ClientInv, NEW f \in Flows, NEW w, FlowGoes(f, w), HeldQuiet, orphaned' = orphaned,
         saved' \in Nat,
         \A t \in DOMAIN held \ orphaned :
           saved = t /\ held'[t].status \in Waiting => saved' = t
  PROVE  ClientInv'
<1>1. /\ flow' \in [Flows -> FlowRows] /\ \A g \in Flows : Hashed(flow'[g])
      /\ SavedIsItsOwn'
  BY FlowKeeps, Zenon
<1>2. /\ held' \in [DOMAIN held' -> HeldRows] /\ DOMAIN held' \subseteq Sends
      /\ WaitingIsSaved' /\ \A t \in DOMAIN held' : StagedRow(held'[t])
  BY QuietKeeps, Zenon
<1>. QED  BY <1>1, <1>2, Zenon DEF ClientInv, ClientTypes

-----------------------------------------------------------------------------
(* Each action. *)

LEMMA SavedIsNat == ClientInv => saved \in Nat /\ NoSend \in Nat /\ Sends \subseteq Nat /\ 0 \notin Sends
  BY ClientAssumption, SMT DEF ClientInv, ClientTypes, NoSend, Sends

\* A flow that begins, at a transfer or without one.
LEMMA StartsFlow ==
  ASSUME NEW step \in FlowSteps, step \in {"init", "ask", "prime"}, NEW t \in Nat
  PROVE  LET w == [Still EXCEPT !.step = step, !.id = t] IN
           w \in FlowRows /\ Hashed(w) /\ w.step = step /\ w.id = t
<1>. DEFINE w == [Still EXCEPT !.step = step, !.id = t]
<1>1. w \in FlowRows
  BY StillFlow, Zenon DEF FlowRows
<1>2. w.step = step /\ w.id = t /\ w.next = 0
  BY StillFlow, SMT DEF FlowRows
<1>3. 0 <= FileChunks
  BY ClientAssumption, SMT
<1>4. Hashed(w)
  BY <1>2, <1>3, SMT DEF Hashed
<1>. QED  BY <1>1, <1>2, <1>4, Zenon

LEMMA SubmitKeeps == ASSUME ClientInv, SubmitForm PROVE ClientInv'
<1>. DEFINE step == IF saved = NoSend THEN "init" ELSE "ask"
            w == [Still EXCEPT !.step = step, !.id = saved]
<1>1. step \in FlowSteps /\ step \in {"init", "ask", "prime"} /\ saved \in Nat
  BY SavedIsNat, Zenon DEF FlowSteps
<1>3. flow' = [flow EXCEPT !["submit"] = w] /\ saved' = saved /\ held' = held /\ orphaned' = orphaned
  BY Zenon DEF SubmitForm
<1>4. step = "init" => saved = NoSend
  BY Zenon
<1>. HIDE DEF step
<1>2. w \in FlowRows /\ Hashed(w) /\ w.step = step /\ w.id = saved
  BY <1>1, StartsFlow, Zenon
<1>. HIDE DEF w
<1>5. OwnSaved(w, saved')
  BY <1>2, <1>3, <1>4, Zenon DEF OwnSaved
<1>6. "submit" \in Flows /\ FlowGoes("submit", w)
  BY <1>2, <1>3, <1>5, Zenon DEF FlowGoes, Flows
<1>7. HeldQuiet
  BY <1>3, HeldSame, Zenon
<1>. QED  BY <1>1, <1>3, <1>6, <1>7, ClientKeeps, Zenon

LEMMA PressKeeps == ASSUME ClientInv, NEW t \in Sends, PressResume(t) PROVE ClientInv'
<1>. DEFINE w == [Still EXCEPT !.step = "ask", !.id = t]
<1>1. "ask" \in FlowSteps /\ t \in Nat /\ saved \in Nat
  BY SavedIsNat, Zenon DEF FlowSteps
<1>2. w \in FlowRows /\ Hashed(w) /\ w.step = "ask" /\ w.id = t
  BY <1>1, StartsFlow, Zenon
<1>3. flow' = [flow EXCEPT !["resume"] = w] /\ saved' = saved /\ held' = held /\ orphaned' = orphaned
  BY Zenon DEF PressResume
<1>. HIDE DEF w
<1>6. "resume" \in Flows /\ FlowGoes("resume", w)
  BY <1>2, <1>3, Zenon DEF FlowGoes, Flows
<1>7. HeldQuiet
  BY <1>3, HeldSame, Zenon
<1>. QED  BY <1>1, <1>3, <1>6, <1>7, ClientKeeps, Zenon

\* A transfer is created: nothing else waits while no id is saved.
LEMMA CreatedRows ==
  ASSUME ClientInv, saved = NoSend, NEW t \in Sends, held' = Created(t),
         orphaned \subseteq orphaned', saved' = t \/ t \in orphaned'
  PROVE  /\ held' \in [DOMAIN held' -> HeldRows] /\ DOMAIN held' \subseteq Sends
         /\ WaitingIsSaved' /\ \A x \in DOMAIN held' : StagedRow(held'[x])
<1>. DEFINE k == [status |-> "preparing", chunks |-> 0, staged |-> FALSE]
<1>1. /\ held \in [DOMAIN held -> HeldRows] /\ DOMAIN held \subseteq Sends
      /\ \A x \in DOMAIN held : StagedRow(held[x])
      /\ \A x \in DOMAIN held \ orphaned : held[x].status \in Waiting => saved = x
  BY Zenon DEF ClientInv, ClientTypes, WaitingIsSaved
<1>2. k \in HeldRows
  <2>1. "preparing" \in Waiting \cup Ended \cup {"verifying", "gone"} /\ 0 \in 0 .. FileChunks
        /\ FALSE \in BOOLEAN
    BY ClientAssumption, SMT DEF Waiting
  <2>. QED  BY <2>1, Zenon DEF HeldRows
<1>3. StagedRow(k)
  BY SMT DEF StagedRow
<1>4. held' = [x \in DOMAIN held \cup {t} |-> IF x = t THEN k ELSE held[x]]
  BY Zenon DEF Created
<1>. HIDE DEF k
<1>5. DOMAIN held' = DOMAIN held \cup {t} /\ held'[t] = k
      /\ \A x \in DOMAIN held : x # t => held'[x] = held[x]
  BY <1>4, Zenon
<1>6. ASSUME NEW x \in DOMAIN held' PROVE held'[x] \in HeldRows /\ StagedRow(held'[x])
  <2>1. CASE x = t
    BY <1>2, <1>3, <1>5, <2>1, Zenon
  <2>2. CASE x # t
    BY <1>1, <1>5, <2>2, Zenon
  <2>. QED  BY <2>1, <2>2, Zenon
<1>7. held' \in [DOMAIN held' -> HeldRows]
  <2>1. held' = [x \in DOMAIN held' |-> held'[x]]
    BY <1>4, Zenon
  <2>. QED  BY <1>6, <2>1, Zenon
<1>8. ASSUME NEW x \in DOMAIN held' \ orphaned', held'[x].status \in Waiting PROVE saved' = x
  <2>1. CASE x = t
    BY <2>1, Zenon
  <2>2. CASE x # t
    <3>1. saved = x /\ x \in Sends
      BY <1>1, <1>5, <1>8, <2>2, Zenon
    <3>. QED  BY <3>1, SavedIsNat, Zenon DEF NoSend
  <2>. QED  BY <2>1, <2>2, Zenon
<1>9. DOMAIN held' \subseteq Sends
  BY <1>1, <1>5, Zenon
<1>10. WaitingIsSaved'
  BY <1>8, Zenon DEF WaitingIsSaved
<1>. QED  BY <1>6, <1>7, <1>9, <1>10, Zenon

LEMMA InitKeeps == ASSUME ClientInv, NEW f \in Flows, InitSend(f) PROVE ClientInv'
<1>. DEFINE t == 1 + Cardinality(DOMAIN held)
            w == [Still EXCEPT !.step = "prime", !.id = t]
<1>1. f = "submit" /\ saved = NoSend
  BY Zenon DEF ClientInv, SavedIsItsOwn, OwnSaved, InitSend, Doing, Flows
<1>2. t \in Sends
  BY Zenon DEF InitSend
<1>3. t \in Nat /\ saved \in Nat
  BY <1>2, SavedIsNat, Zenon
<1>4. PICK fate \in Possible :
        /\ IF fate = "refused" THEN UNCHANGED held ELSE held' = Created(t)
        /\ IF fate = "answered"
             THEN saved' = t /\ flow' = [flow EXCEPT ![f] = w]
             ELSE Fail(f) /\ UNCHANGED saved
        /\ orphaned' = IF fate = "lost" THEN orphaned \cup {t} ELSE orphaned
  BY Zenon DEF InitSend
<1>. HIDE DEF t
<1>5. CASE fate = "answered"
  <2>1. w \in FlowRows /\ Hashed(w) /\ w.step = "prime" /\ w.id = t
    BY <1>3, StartsFlow, Zenon DEF FlowSteps
  <2>. HIDE DEF w
  <2>2. held' = Created(t) /\ saved' = t /\ flow' = [flow EXCEPT ![f] = w] /\ orphaned' = orphaned
    BY <1>4, <1>5, Zenon
  <2>3. OwnSaved(w, saved')
    BY <2>1, <2>2, Zenon DEF OwnSaved
  <2>4. FlowGoes(f, w)
    BY <1>1, <2>1, <2>2, <2>3, Zenon DEF FlowGoes
  <2>5. /\ flow' \in [Flows -> FlowRows] /\ \A g \in Flows : Hashed(flow'[g]) /\ SavedIsItsOwn'
    BY <2>4, FlowKeeps, Zenon
  <2>6. /\ held' \in [DOMAIN held' -> HeldRows] /\ DOMAIN held' \subseteq Sends
        /\ WaitingIsSaved' /\ \A x \in DOMAIN held' : StagedRow(held'[x])
    BY <1>1, <1>2, <2>2, CreatedRows, Zenon
  <2>. QED  BY <1>3, <2>2, <2>5, <2>6, Zenon DEF ClientInv, ClientTypes
<1>6. CASE fate = "lost"
  <2>1. held' = Created(t) /\ saved' = saved /\ Fail(f) /\ orphaned' = orphaned \cup {t}
    BY <1>4, <1>6, Zenon
  <2>4. FlowGoes(f, Still)
    BY <2>1, FlowFails, Zenon
  <2>5. /\ flow' \in [Flows -> FlowRows] /\ \A g \in Flows : Hashed(flow'[g]) /\ SavedIsItsOwn'
    BY <2>4, FlowKeeps, Zenon
  <2>6. /\ held' \in [DOMAIN held' -> HeldRows] /\ DOMAIN held' \subseteq Sends
        /\ WaitingIsSaved' /\ \A x \in DOMAIN held' : StagedRow(held'[x])
    BY <1>1, <1>2, <2>1, CreatedRows, Zenon
  <2>. QED  BY <1>3, <2>1, <2>5, <2>6, Zenon DEF ClientInv, ClientTypes
<1>7. CASE fate = "refused"
  <2>1. held' = held /\ saved' = saved /\ Fail(f) /\ orphaned' = orphaned
    BY <1>4, <1>7, Zenon
  <2>4. FlowGoes(f, Still)
    BY <2>1, FlowFails, Zenon
  <2>5. HeldQuiet
    BY <2>1, HeldSame, Zenon
  <2>. QED  BY <1>3, <2>1, <2>4, <2>5, ClientKeeps, Zenon
<1>8. fate \in {"answered", "lost", "refused"}
  BY <1>4, Zenon DEF Possible
<1>. QED  BY <1>5, <1>6, <1>7, <1>8, Zenon

LEMMA FlowRow ==
  ASSUME ClientInv, NEW f \in Flows
  PROVE  /\ flow[f] \in FlowRows /\ Hashed(flow[f])
         /\ flow[f].step \in FlowSteps /\ flow[f].id \in Nat /\ flow[f].next \in 0 .. FileChunks + 1
         /\ flow[f].hash \in Seq(Nat) /\ flow[f].left \in 0 .. ChunkRetries
<1>1. flow[f] \in FlowRows /\ Hashed(flow[f])
  BY Zenon DEF ClientInv, ClientTypes
<1>. QED  BY <1>1, Zenon DEF FlowRows

LEMMA HeldRow ==
  ASSUME ClientInv, NEW t \in DOMAIN held
  PROVE  /\ held[t] \in HeldRows /\ StagedRow(held[t]) /\ t \in Nat
         /\ held[t].status \in Waiting \cup Ended \cup {"verifying", "gone"}
         /\ held[t].chunks \in 0 .. FileChunks /\ held[t].staged \in BOOLEAN
<1>1. held[t] \in HeldRows /\ StagedRow(held[t]) /\ t \in Nat
  BY SavedIsNat, Zenon DEF ClientInv, ClientTypes
<1>. QED  BY <1>1, Zenon DEF HeldRows

LEMMA PrimeKeeps == ASSUME ClientInv, NEW f \in Flows, PrimeHash(f) PROVE ClientInv'
<1>. DEFINE n == flow[f].next
            step == IF n >= FileChunks THEN "complete" ELSE "chunk"
            w == [flow[f] EXCEPT !.hash = Primed(n), !.next = n + 1, !.left = ChunkRetries, !.step = step]
<1>1. flow[f] \in FlowRows /\ Hashed(flow[f]) /\ n \in 0 .. FileChunks + 1 /\ flow[f].step = "prime"
      /\ flow[f].id \in Nat
  BY FlowRow, Zenon DEF PrimeHash, Doing
<1>2. n <= FileChunks
  BY <1>1, Zenon DEF Hashed
<1>3. flow' = [flow EXCEPT ![f] = w] /\ saved' = saved /\ held' = held /\ orphaned' = orphaned
  <2>1. flow' = [flow EXCEPT ![f].hash = Primed(n), ![f].next = n + 1, ![f].left = ChunkRetries, ![f].step = step]
    BY Zenon DEF PrimeHash
  <2>2. flow \in [Flows -> FlowRows]
    BY Zenon DEF ClientInv, ClientTypes
  <2>. QED  BY <2>1, <2>2, Zenon DEF PrimeHash
<1>4. n \in Nat /\ n + 1 \in 0 .. FileChunks + 1 /\ ChunkRetries \in 0 .. ChunkRetries
  BY <1>1, <1>2, ClientAssumption, SMT
<1>5. Primed(n) \in Seq(Nat)
  BY <1>4, PrimedIsSeq, Zenon
<1>6. step \in FlowSteps
  BY Zenon DEF FlowSteps
<1>7. w \in FlowRows
  BY <1>1, <1>4, <1>5, <1>6, Zenon DEF FlowRows
<1>8. w.step = step /\ w.id = flow[f].id /\ w.hash = Primed(n) /\ w.next = n + 1
  BY <1>1, SMT DEF FlowRows
<1>9. Hashed(w)
  <2>1. CASE n >= FileChunks
    <3>1. n = FileChunks
      BY <1>2, <1>4, <2>1, ClientAssumption, SMT
    <3>2. w.step = "complete" /\ w.hash = WholeFile
      BY <1>8, <2>1, <3>1, WholeIsPrimed, Zenon
    <3>. QED  BY <3>2, Zenon DEF Hashed
  <2>2. CASE ~(n >= FileChunks)
    <3>1. w.step = "chunk" /\ w.next \in 1 .. FileChunks /\ w.next - 1 = n
      BY <1>4, <1>8, <2>2, ClientAssumption, SMT
    <3>. QED  BY <1>8, <3>1, Zenon DEF Hashed
  <2>. QED  BY <2>1, <2>2, Zenon
<1>. HIDE DEF n
<1>10. step # "init" /\ step # "idle"
  BY Zenon
<1>. HIDE DEF w, step
<1>11. f = "submit" => OwnSaved(flow[f], saved)
  BY Zenon DEF ClientInv, SavedIsItsOwn
<1>12. f = "submit" => OwnSaved(w, saved')
  BY <1>1, <1>3, <1>8, <1>10, <1>11, Zenon DEF OwnSaved
<1>13. FlowGoes(f, w)
  BY <1>3, <1>7, <1>8, <1>9, <1>10, <1>12, Zenon DEF FlowGoes
<1>14. HeldQuiet
  BY <1>3, HeldSame, Zenon
<1>15. saved \in Nat
  BY SavedIsNat, Zenon
<1>. QED  BY <1>3, <1>13, <1>14, <1>15, ClientKeeps, Zenon

\* A flow goes on with its own transfer.
LEMMA SendGoesOn ==
  ASSUME ClientInv, NEW f \in Flows, NEW w \in FlowRows, Hashed(w),
         flow' = [flow EXCEPT ![f] = w], w.id = flow[f].id, w.step # "init",
         flow[f].step \notin {"idle", "init"}, saved' = saved
  PROVE  FlowGoes(f, w)
<1>1. f = "submit" => OwnSaved(flow[f], saved)
  BY Zenon DEF ClientInv, SavedIsItsOwn
<1>2. f = "submit" => OwnSaved(w, saved')
  BY <1>1, Zenon DEF OwnSaved
<1>. QED  BY <1>2, Zenon DEF FlowGoes

LEMMA ResumeIsQuiet ==
  ASSUME ClientInv, NEW t, Resumable(t), held' = Resumed(t)
  PROVE  HeldQuiet
<1>. DEFINE k == [held[t] EXCEPT !.status = ResumedStatus(t)]
<1>1. t \in DOMAIN held /\ held[t].status \notin Ended \cup {"gone"}
  BY Zenon DEF Resumable
<1>2. held[t] \in HeldRows /\ StagedRow(held[t])
      /\ held[t].status \in Waiting \cup Ended \cup {"verifying", "gone"}
      /\ held[t].staged \in BOOLEAN
  BY <1>1, HeldRow, Zenon
<1>3. ResumedStatus(t) \in Waiting \cup Ended \cup {"verifying", "gone"}
  BY Zenon DEF ResumedStatus, Waiting
<1>4. k \in HeldRows
  BY <1>2, <1>3, Zenon DEF HeldRows
<1>5. k.status = ResumedStatus(t) /\ k.staged = held[t].staged
  BY <1>2, SMT DEF HeldRows
<1>6. held' = [held EXCEPT ![t] = k]
  <2>1. held' = [held EXCEPT ![t].status = ResumedStatus(t)]
    BY Zenon DEF Resumed
  <2>. QED  BY <2>1, Zenon
<1>7. CASE held[t].staged
  <2>1. ResumedStatus(t) = "verifying"
    BY <1>7, Zenon DEF ResumedStatus
  <2>2. Quiet(held[t], k)
    BY <1>5, <1>7, <2>1, Zenon DEF Quiet, StagedRow, Waiting
  <2>. HIDE DEF k
  <2>. QED  BY <1>4, <1>6, <2>2, RowChanges, Zenon
<1>8. CASE ~held[t].staged
  <2>1. ResumedStatus(t) \in {"transferring", "preparing"}
    BY <1>8, Zenon DEF ResumedStatus
  <2>2. held[t].status \in Waiting
    BY <1>1, <1>2, <1>8, Zenon DEF StagedRow
  <2>3. Quiet(held[t], k)
    BY <1>5, <2>1, <2>2, Zenon DEF Quiet, StagedRow
  <2>. HIDE DEF k
  <2>. QED  BY <1>4, <1>6, <2>3, RowChanges, Zenon
<1>. QED  BY <1>7, <1>8, Zenon

LEMMA AskKeeps == ASSUME ClientInv, NEW f \in Flows, AskResume(f) PROVE ClientInv'
<1>. DEFINE t == flow[f].id
            w == [flow[f] EXCEPT !.step = "prime", !.next = held[t].chunks]
<1>1. flow[f] \in FlowRows /\ Hashed(flow[f]) /\ flow[f].step = "ask" /\ t \in Nat
  BY FlowRow, Zenon DEF AskResume, Doing
<1>2. PICK fate \in Possible :
        /\ IF fate # "refused" /\ Resumable(t) THEN held' = Resumed(t) ELSE UNCHANGED held
        /\ IF fate = "answered" /\ Resumable(t)
             THEN /\ flow' = [flow EXCEPT ![f].step = "prime", ![f].next = held[t].chunks]
                  /\ saved' = IF f = "submit" THEN t ELSE saved
             ELSE flow' = AfterRefusal(f) /\ UNCHANGED saved
  BY Zenon DEF AskResume
<1>3. HeldQuiet
  BY <1>2, HeldSame, ResumeIsQuiet, Zenon
<1>4. orphaned' = orphaned
  BY Zenon DEF AskResume
<1>5. saved \in Nat
  BY SavedIsNat, Zenon
<1>6. f = "submit" => saved \in {NoSend, t}
  BY <1>1, Zenon DEF ClientInv, SavedIsItsOwn, OwnSaved
<1>7. CASE fate = "answered" /\ Resumable(t)
  <2>1. t \in DOMAIN held
    BY <1>7, Zenon DEF Resumable
  <2>2. held[t].chunks \in 0 .. FileChunks
    BY <2>1, HeldRow, Zenon
  <2>3. held[t].chunks \in 0 .. FileChunks + 1 /\ held[t].chunks <= FileChunks
    BY <2>2, ClientAssumption, SMT
  <2>4. flow' = [flow EXCEPT ![f] = w]
    <3>1. flow' = [flow EXCEPT ![f].step = "prime", ![f].next = held[t].chunks]
      BY <1>2, <1>7, Zenon
    <3>2. flow \in [Flows -> FlowRows]
      BY Zenon DEF ClientInv, ClientTypes
    <3>. QED  BY <3>1, <3>2, Zenon
  <2>5. w \in FlowRows
    <3>1. "prime" \in FlowSteps
      BY Zenon DEF FlowSteps
    <3>. QED  BY <1>1, <2>3, <3>1, Zenon DEF FlowRows
  <2>6. w.step = "prime" /\ w.id = t /\ w.next = held[t].chunks
    BY <1>1, SMT DEF FlowRows
  <2>7. saved' = IF f = "submit" THEN t ELSE saved
    BY <1>2, <1>7, Zenon
  <2>. HIDE DEF w
  <2>8. Hashed(w)
    BY <2>3, <2>6, Zenon DEF Hashed
  <2>9. f = "submit" => OwnSaved(w, saved')
    BY <2>6, <2>7, Zenon DEF OwnSaved
  <2>10. FlowGoes(f, w)
    BY <2>4, <2>5, <2>6, <2>7, <2>8, <2>9, Zenon DEF FlowGoes
  <2>11. ASSUME NEW x \in DOMAIN held \ orphaned, saved = x /\ held'[x].status \in Waiting
         PROVE  saved' = x
    <3>1. x # NoSend
      BY SavedIsNat, Zenon DEF ClientInv, ClientTypes, NoSend
    <3>. QED  BY <1>6, <2>7, <2>11, <3>1, Zenon
  <2>12. saved' \in Nat
    BY <1>1, <1>5, <2>7, Zenon
  <2>. QED  BY <1>3, <1>4, <2>10, <2>11, <2>12, ClientKeeps, Zenon
<1>8. CASE ~(fate = "answered" /\ Resumable(t))
  <2>1. Fail(f) /\ saved' = saved
    BY <1>2, <1>8, Zenon DEF AfterRefusal, Fail
  <2>2. FlowGoes(f, Still)
    BY <2>1, FlowFails, Zenon
  <2>. QED  BY <1>3, <1>4, <1>5, <2>1, <2>2, ClientKeeps, Zenon
<1>. QED  BY <1>7, <1>8, Zenon

LEMMA ChunkKeeps == ASSUME ClientInv, NEW f \in Flows, SendChunk(f) PROVE ClientInv'
<1>. DEFINE t == flow[f].id
            i == flow[f].next
            step == IF i = FileChunks THEN "complete" ELSE "chunk"
            w == [flow[f] EXCEPT !.hash = Append(flow[f].hash, i), !.next = i + 1,
                                 !.left = ChunkRetries, !.step = step]
            again == [flow[f] EXCEPT !.left = flow[f].left - 1]
            k == [held[t] EXCEPT !.chunks = i]
<1>1. /\ flow[f] \in FlowRows /\ Hashed(flow[f]) /\ flow[f].step = "chunk" /\ t \in Nat
      /\ flow[f].left \in 0 .. ChunkRetries /\ flow[f].hash \in Seq(Nat)
  BY FlowRow, Zenon DEF SendChunk, Doing
<1>2. i \in 1 .. FileChunks /\ flow[f].hash = Primed(i - 1)
  BY <1>1, Zenon DEF Hashed
<1>3. PICK fate \in Possible :
        /\ IF fate # "refused" /\ Takes(t, i) /\ i = held[t].chunks + 1
             THEN held' = [held EXCEPT ![t].chunks = i] ELSE UNCHANGED held
        /\ IF fate = "answered"
             THEN IF Takes(t, i)
                    THEN flow' = [flow EXCEPT ![f].hash = Append(@, i), ![f].next = i + 1,
                           ![f].left = ChunkRetries, ![f].step = step]
                    ELSE Fail(f)
             ELSE IF flow[f].left > 0
                    THEN flow' = [flow EXCEPT ![f].left = @ - 1] ELSE Fail(f)
  BY Zenon DEF SendChunk
<1>4. saved' = saved /\ orphaned' = orphaned /\ saved \in Nat
  BY SavedIsNat, Zenon DEF SendChunk
<1>5. flow \in [Flows -> FlowRows]
  BY Zenon DEF ClientInv, ClientTypes
<1>6. HeldQuiet
  <2>1. CASE held' = [held EXCEPT ![t].chunks = i]
    <3>1. held' = [held EXCEPT ![t] = k]
      BY <2>1, Zenon
    <3>2. ASSUME t \in DOMAIN held PROVE k \in HeldRows /\ Quiet(held[t], k)
      <4>1. held[t] \in HeldRows
        BY <3>2, HeldRow, Zenon
      <4>2. i \in 0 .. FileChunks
        BY <1>2, SMT
      <4>3. k \in HeldRows
        BY <4>1, <4>2, Zenon DEF HeldRows
      <4>4. k.status = held[t].status /\ k.staged = held[t].staged
        BY <4>1, SMT DEF HeldRows
      <4>. HIDE DEF k
      <4>. QED  BY <4>3, <4>4, Zenon DEF Quiet, StagedRow
    <3>. HIDE DEF k, i, t
    <3>. QED  BY <3>1, <3>2, RowChanges, Zenon
  <2>. QED  BY <1>3, <2>1, HeldSame, Zenon
<1>7. CASE flow' = [flow EXCEPT ![f].hash = Append(@, i), ![f].next = i + 1,
                      ![f].left = ChunkRetries, ![f].step = step]
  <2>1. flow' = [flow EXCEPT ![f] = w]
    BY <1>5, <1>7, Zenon
  <2>2. i \in Nat /\ i # 0 /\ i + 1 \in 0 .. FileChunks + 1 /\ ChunkRetries \in 0 .. ChunkRetries
    BY <1>2, ClientAssumption, SMT
  <2>3. Append(flow[f].hash, i) = Primed(i) /\ Primed(i) \in Seq(Nat)
    BY <1>2, <2>2, PrimedAppend, PrimedIsSeq, Zenon
  <2>4. step \in FlowSteps
    BY Zenon DEF FlowSteps
  <2>5. w \in FlowRows
    BY <1>1, <2>2, <2>3, <2>4, Zenon DEF FlowRows
  <2>6. w.step = step /\ w.id = t /\ w.hash = Append(flow[f].hash, i) /\ w.next = i + 1
    BY <1>1, SMT DEF FlowRows
  <2>7. w.hash = Primed(i)
    BY <2>3, <2>6, Zenon
  <2>. HIDE DEF w
  <2>8. Hashed(w)
    <3>1. CASE i = FileChunks
      <4>1. w.step = "complete"
        BY <2>6, <3>1, Zenon
      <4>. QED  BY <2>7, <3>1, <4>1, WholeIsPrimed, Zenon DEF Hashed
    <3>2. CASE i # FileChunks
      <4>1. w.step = "chunk"
        BY <2>6, <3>2, Zenon
      <4>2. w.next \in 1 .. FileChunks /\ w.next - 1 = i
        <5>. HIDE DEF i
        <5>. QED  BY <1>2, <2>6, <3>2, ClientAssumption, SMT
      <4>. QED  BY <2>7, <4>1, <4>2, Zenon DEF Hashed
    <3>. QED  BY <3>1, <3>2, Zenon
  <2>9. w.step # "init" /\ flow[f].step \notin {"idle", "init"}
    BY <1>1, <2>6, Zenon
  <2>10. FlowGoes(f, w)
    BY <1>4, <2>1, <2>5, <2>6, <2>8, <2>9, SendGoesOn, Zenon
  <2>. QED  BY <1>4, <1>6, <2>10, ClientKeeps, Zenon
<1>8. CASE flow[f].left > 0 /\ flow' = [flow EXCEPT ![f].left = @ - 1]
  <2>1. flow' = [flow EXCEPT ![f] = again]
    BY <1>5, <1>8, Zenon
  <2>2. flow[f].left - 1 \in 0 .. ChunkRetries
    BY <1>1, <1>8, ClientAssumption, SMT
  <2>3. again \in FlowRows
    BY <1>1, <2>2, Zenon DEF FlowRows
  <2>4. /\ again.step = flow[f].step /\ again.id = flow[f].id /\ again.hash = flow[f].hash
        /\ again.next = flow[f].next
    BY <1>1, SMT DEF FlowRows
  <2>. HIDE DEF again
  <2>5. Hashed(again)
    BY <1>1, <2>4, Zenon DEF Hashed
  <2>6. again.step # "init" /\ flow[f].step \notin {"idle", "init"}
    BY <1>1, <2>4, Zenon
  <2>7. FlowGoes(f, again)
    BY <1>4, <2>1, <2>3, <2>4, <2>5, <2>6, SendGoesOn, Zenon
  <2>. QED  BY <1>4, <1>6, <2>7, ClientKeeps, Zenon
<1>9. CASE Fail(f)
  <2>1. FlowGoes(f, Still)
    BY <1>4, <1>9, FlowFails, Zenon
  <2>. QED  BY <1>4, <1>6, <2>1, ClientKeeps, Zenon
<1>. QED  BY <1>3, <1>7, <1>8, <1>9, Zenon

LEMMA CompleteKeeps == ASSUME ClientInv, NEW f \in Flows, AskComplete(f) PROVE ClientInv'
<1>. DEFINE t == flow[f].id
            w == [flow[f] EXCEPT !.step = "finalize"]
            k == [held[t] EXCEPT !.staged = TRUE]
<1>1. /\ flow[f] \in FlowRows /\ Hashed(flow[f]) /\ flow[f].step = "complete"
  BY FlowRow, Zenon DEF AskComplete, Doing
<1>2. PICK fate \in Possible :
        /\ IF fate # "refused" /\ MayComplete(t)
             THEN held' = [held EXCEPT ![t].staged = TRUE] ELSE UNCHANGED held
        /\ IF fate = "answered" /\ MayComplete(t) THEN Go(f, "finalize") ELSE Fail(f)
  BY Zenon DEF AskComplete
<1>3. saved' = saved /\ orphaned' = orphaned /\ saved \in Nat
  BY SavedIsNat, Zenon DEF AskComplete
<1>4. flow \in [Flows -> FlowRows]
  BY Zenon DEF ClientInv, ClientTypes
<1>5. HeldQuiet
  <2>1. CASE held' = [held EXCEPT ![t].staged = TRUE]
    <3>1. held' = [held EXCEPT ![t] = k]
      BY <2>1, Zenon
    <3>2. ASSUME t \in DOMAIN held PROVE k \in HeldRows /\ Quiet(held[t], k)
      <4>1. held[t] \in HeldRows
        BY <3>2, HeldRow, Zenon
      <4>2. k \in HeldRows
        BY <4>1, Zenon DEF HeldRows
      <4>3. k.status = held[t].status
        BY <4>1, SMT DEF HeldRows
      <4>4. k.staged
        BY <4>1, Zenon DEF HeldRows
      <4>. HIDE DEF k
      <4>. QED  BY <4>2, <4>3, <4>4, Zenon DEF Quiet, StagedRow
    <3>. HIDE DEF k, t
    <3>. QED  BY <3>1, <3>2, RowChanges, Zenon
  <2>. QED  BY <1>2, <2>1, HeldSame, Zenon
<1>6. CASE Go(f, "finalize")
  <2>1. flow' = [flow EXCEPT ![f] = w]
    BY <1>4, <1>6, Zenon DEF Go
  <2>2. "finalize" \in FlowSteps
    BY Zenon DEF FlowSteps
  <2>3. w \in FlowRows
    BY <1>1, <2>2, Zenon DEF FlowRows
  <2>4. w.step = "finalize" /\ w.id = flow[f].id /\ w.hash = flow[f].hash
    BY <1>1, SMT DEF FlowRows
  <2>. HIDE DEF w
  <2>5. Hashed(w)
    BY <1>1, <2>4, Zenon DEF Hashed
  <2>6. w.step # "init" /\ flow[f].step \notin {"idle", "init"}
    BY <1>1, <2>4, Zenon
  <2>7. FlowGoes(f, w)
    BY <1>3, <2>1, <2>3, <2>4, <2>5, <2>6, SendGoesOn, Zenon
  <2>. QED  BY <1>3, <1>5, <2>7, ClientKeeps, Zenon
<1>7. CASE Fail(f)
  <2>1. FlowGoes(f, Still)
    BY <1>3, <1>7, FlowFails, Zenon
  <2>. QED  BY <1>3, <1>5, <2>1, ClientKeeps, Zenon
<1>. QED  BY <1>2, <1>6, <1>7, Zenon

\* The status of a row changes.
LEMMA StatusChanges ==
  ASSUME ClientInv, NEW t \in DOMAIN held, NEW s, held' = [held EXCEPT ![t].status = s],
         s \in Waiting \cup Ended \cup {"verifying", "gone"},
         s \in Waiting => held[t].status \in Waiting, s = "verifying" => held[t].staged
  PROVE  HeldQuiet /\ held'[t].status = s
<1>. DEFINE k == [held[t] EXCEPT !.status = s]
<1>1. held[t] \in HeldRows
  BY HeldRow, Zenon
<1>2. k \in HeldRows
  BY <1>1, Zenon DEF HeldRows
<1>3. k.status = s /\ k.staged = held[t].staged
  BY <1>1, SMT DEF HeldRows
<1>4. held' = [held EXCEPT ![t] = k]
  BY Zenon
<1>. HIDE DEF k
<1>5. Quiet(held[t], k)
  BY <1>3, Zenon DEF Quiet, StagedRow
<1>. QED  BY <1>2, <1>3, <1>4, <1>5, RowChanges, Zenon

LEMMA FinalizedRow ==
  ASSUME ClientInv, NEW t, NEW s \in Finalized(t)
  PROVE  /\ s \in {"completed", "verifying", "failed"}
         /\ s = "verifying" => held[t].staged
<1>1. CASE held[t].status = "completed"
  BY <1>1, Zenon DEF Finalized
<1>2. CASE held[t].status # "completed"
  BY <1>2, Zenon DEF Finalized
<1>. QED  BY <1>1, <1>2, Zenon

LEMMA FinalizeKeeps == ASSUME ClientInv, NEW f \in Flows, AskFinalize(f) PROVE ClientInv'
<1>. DEFINE t == flow[f].id
<1>1. flow[f].step = "finalize" /\ Fail(f) /\ orphaned' = orphaned /\ saved \in Nat /\ NoSend \in Nat
  BY SavedIsNat, Zenon DEF AskFinalize, Doing
<1>2. PICK fate \in Possible :
        \/ /\ fate # "refused"
           /\ \E s \in Finalized(t) : held' = [held EXCEPT ![t].status = s]
           /\ saved' = IF fate = "answered" /\ (f = "submit" \/ saved = t)
                         THEN NoSend ELSE saved
        \/ UNCHANGED <<held, saved>>
  BY Zenon DEF AskFinalize
<1>3. saved' \in {saved, NoSend} /\ saved' \in Nat
  BY <1>1, <1>2, Zenon
<1>4. FlowGoes(f, Still)
  BY <1>1, <1>3, FlowFails, Zenon
<1>5. CASE UNCHANGED <<held, saved>>
  <2>1. held' = held /\ saved' = saved
    BY <1>5, Zenon
  <2>2. HeldQuiet
    BY <2>1, HeldSame, Zenon
  <2>. QED  BY <1>1, <1>3, <1>4, <2>1, <2>2, ClientKeeps, Zenon
<1>6. CASE ~UNCHANGED <<held, saved>>
  <2>1. PICK s \in Finalized(t) : held' = [held EXCEPT ![t].status = s]
    BY <1>2, <1>6, Zenon
  <2>2. saved' = saved \/ (saved' = NoSend /\ (f = "submit" \/ saved = t))
    BY <1>2, <1>6, Zenon
  <2>3. s \in {"completed", "verifying", "failed"} /\ (s = "verifying" => held[t].staged)
    BY FinalizedRow, Zenon
  <2>4. s \notin Waiting /\ s \in Waiting \cup Ended \cup {"verifying", "gone"}
    BY <2>3, Zenon DEF Waiting, Ended
  <2>5. HeldQuiet /\ (t \in DOMAIN held => held'[t].status = s)
    <3>1. CASE t \in DOMAIN held
      <4>. HIDE DEF t
      <4>. QED  BY <2>1, <2>3, <2>4, <3>1, StatusChanges, Zenon
    <3>2. CASE t \notin DOMAIN held
      <4>1. held' = held
        <5>1. held = [x \in DOMAIN held |-> held[x]]
          BY Zenon DEF ClientInv, ClientTypes
        <5>. HIDE DEF t
        <5>. QED  BY <2>1, <3>2, <5>1, Zenon
      <4>. QED  BY <3>2, <4>1, HeldSame, Zenon
    <3>. QED  BY <3>1, <3>2, Zenon
  <2>6. f = "submit" => saved \in {NoSend, t}
    BY <1>1, Zenon DEF ClientInv, SavedIsItsOwn, OwnSaved
  <2>7. ASSUME NEW x \in DOMAIN held \ orphaned, saved = x /\ held'[x].status \in Waiting
        PROVE  saved' = x
    <3>1. x # NoSend
      BY SavedIsNat, Zenon DEF ClientInv, ClientTypes, NoSend
    <3>2. x # t
      BY <2>4, <2>5, <2>7, Zenon
    <3>. QED  BY <2>2, <2>6, <2>7, <3>1, <3>2, Zenon
  <2>. QED  BY <1>1, <1>3, <1>4, <2>5, <2>7, ClientKeeps, Zenon
<1>. QED  BY <1>5, <1>6, Zenon

LEMMA BecomeKeeps ==
  ASSUME ClientInv, NEW t \in Sends, NEW from, NEW to, Become(t, from, to),
         to \in Waiting \cup Ended \cup {"gone"}, to \in Waiting => from \subseteq Waiting
  PROVE  ClientInv'
<1>1. /\ t \in DOMAIN held /\ held[t].status \in from /\ held' = [held EXCEPT ![t].status = to]
      /\ saved' = saved /\ flow' = flow /\ orphaned' = orphaned
  BY Zenon DEF Become
<1>2. to # "verifying"
  BY Zenon DEF Waiting, Ended
<1>3. HeldQuiet
  <2>1. to \in Waiting \cup Ended \cup {"verifying", "gone"} /\ (to = "verifying" => held[t].staged)
        /\ (to \in Waiting => held[t].status \in Waiting)
    BY <1>1, <1>2, Zenon
  <2>. QED  BY <1>1, <2>1, StatusChanges, Zenon
<1>4. /\ held' \in [DOMAIN held' -> HeldRows] /\ DOMAIN held' \subseteq Sends
      /\ WaitingIsSaved' /\ \A x \in DOMAIN held' : StagedRow(held'[x])
  BY <1>1, <1>3, QuietKeeps, Zenon
<1>. QED  BY <1>1, <1>4, Zenon DEF ClientInv, ClientTypes, SavedIsItsOwn

LEMMA RowsKeep ==
  ASSUME ClientInv, NEW t \in Sends,
         \/ PressResume(t) \/ PressPause(t) \/ PressCancel(t) \/ Expires(t) \/ Verifies(t) \/ Pruned(t)
  PROVE  ClientInv'
<1>1. CASE PressPause(t)
  <2>1. {"preparing", "transferring"} \subseteq Waiting /\ "paused" \in Waiting \cup Ended \cup {"gone"}
    BY Zenon DEF Waiting
  <2>. QED  BY <1>1, <2>1, BecomeKeeps, Zenon DEF PressPause
<1>2. CASE PressCancel(t)
  <2>1. "cancelled" \in Waiting \cup Ended \cup {"gone"} /\ "cancelled" \notin Waiting
    BY Zenon DEF Ended, Waiting
  <2>. QED  BY <1>2, <2>1, BecomeKeeps, Zenon DEF PressCancel
<1>3. CASE Expires(t)
  <2>1. "expired" \in Waiting \cup Ended \cup {"gone"} /\ "expired" \notin Waiting
    BY Zenon DEF Ended, Waiting
  <2>. QED  BY <1>3, <2>1, BecomeKeeps, Zenon DEF Expires
<1>4. CASE Verifies(t)
  <2>1. PICK s \in {"completed", "failed"} : Become(t, {"verifying"}, s)
    BY <1>4, Zenon DEF Verifies
  <2>2. s \in Waiting \cup Ended \cup {"gone"} /\ s \notin Waiting
    BY Zenon DEF Ended, Waiting
  <2>. QED  BY <2>1, <2>2, BecomeKeeps, Zenon
<1>5. CASE Pruned(t)
  <2>1. "gone" \notin Waiting
    BY Zenon DEF Waiting
  <2>. QED  BY <1>5, <2>1, BecomeKeeps, Zenon DEF Pruned
<1>. QED  BY <1>1, <1>2, <1>3, <1>4, <1>5, PressKeeps, Zenon

LEMMA ReloadKeeps == ASSUME ClientInv, Reload PROVE ClientInv'
<1>1. flow' = [f \in Flows |-> Still] /\ held' = held /\ saved' = saved /\ orphaned' = orphaned
  BY Zenon DEF Reload
<1>2. flow' \in [Flows -> FlowRows] /\ \A f \in Flows : flow'[f] = Still
  BY <1>1, StillFlow, Zenon
<1>3. SavedIsItsOwn'
  BY <1>2, StillFlow, Zenon DEF SavedIsItsOwn, OwnSaved, Flows
<1>4. \A f \in Flows : Hashed(flow'[f])
  BY <1>2, StillFlow, Zenon
<1>. QED  BY <1>1, <1>2, <1>3, <1>4, Zenon DEF ClientInv, ClientTypes, WaitingIsSaved

LEMMA ClientStep == ClientInv /\ [ClientNext]_clientVars => ClientInv'
<1>1. SUFFICES ASSUME ClientInv, [ClientNext]_clientVars PROVE ClientInv'
  OBVIOUS
<1>2. CASE UNCHANGED clientVars
  BY <1>1, <1>2, Zenon DEF clientVars, ClientInv, ClientTypes, SavedIsItsOwn, WaitingIsSaved
<1>3. CASE ClientNext
  BY <1>1, <1>3, SubmitKeeps, ReloadKeeps, InitKeeps, AskKeeps, PrimeKeeps, ChunkKeeps,
     CompleteKeeps, FinalizeKeeps, RowsKeep, Zenon DEF ClientNext
<1>. QED  BY <1>1, <1>2, <1>3, Zenon

LEMMA ClientStarts == ClientInit => ClientInv
<1>1. SUFFICES ASSUME ClientInit PROVE ClientInv
  OBVIOUS
<1>2. held = <<>> /\ saved = NoSend /\ flow = [f \in Flows |-> Still] /\ orphaned = {}
  BY <1>1, Zenon DEF ClientInit
<1>3. DOMAIN held = {}
  BY <1>2, SMT
<1>4. held = [x \in {} |-> held[x]]
  BY <1>2, SMT
<1>5. flow \in [Flows -> FlowRows] /\ \A f \in Flows : flow[f] = Still
  BY <1>2, StillFlow, Zenon
<1>6. SavedIsItsOwn
  BY <1>2, <1>5, StillFlow, Zenon DEF SavedIsItsOwn, OwnSaved, Flows
<1>7. \A f \in Flows : Hashed(flow[f])
  BY <1>5, StillFlow, Zenon
<1>8. held \in [DOMAIN held -> HeldRows]
  BY <1>3, <1>4, Zenon
<1>9. saved \in Nat
  BY <1>2, SMT DEF NoSend
<1>. QED  BY <1>3, <1>5, <1>6, <1>7, <1>8, <1>9, Zenon DEF ClientInv, ClientTypes, WaitingIsSaved

LEMMA ClientAlways == ClientSpec => []ClientInv
BY ClientStarts, ClientStep, PTL DEF ClientSpec

\* However often a send is broken off, resumed, asked again or run by two flows, the
\* checksum a page submits is of the whole file, each chunk once and in order
\* (primeHash() and the loop of sendFile()).
THEOREM ChecksumIsOfTheFile == ClientSpec => []SubmitsWhole
<1>1. ClientInv => SubmitsWhole
  BY Zenon DEF ClientInv, Hashed, SubmitsWhole, Doing
<1>. QED  BY <1>1, ClientAlways, PTL

\* A resume that fails for another reason than a missing transfer never makes a
\* second one: of the transfers whose creation was answered at most one waits for
\* bytes, the one whose id is saved.
THEOREM NoSecondTransfer == ClientSpec => []NoDuplicate
<1>1. ClientInv => NoDuplicate
  <2>1. SUFFICES ASSUME ClientInv PROVE NoDuplicate
    OBVIOUS
  <2>. DEFINE W == {t \in DOMAIN held \ orphaned : held[t].status \in Waiting}
  <2>2. W \subseteq {saved}
    BY <2>1, Zenon DEF ClientInv, WaitingIsSaved
  <2>3. IsFiniteSet({saved}) /\ Cardinality({saved}) = 1
    BY FS_Singleton, Zenon
  <2>4. Cardinality(W) <= Cardinality({saved})
    BY <2>2, <2>3, FS_Subset, Zenon
  <2>. QED  BY <2>3, <2>4, Zenon DEF NoDuplicate
<1>. QED  BY <1>1, ClientAlways, PTL

\* The id that is saved is that of a transfer, or none.
ClientWithin == saved \in Sends \cup {NoSend} /\ losses \in 0 .. MaxLosses

LEMMA OneMore ==
  ASSUME NEW m \in Nat, NEW n \in 0 .. m, n < m
  PROVE  n + 1 \in 0 .. m
BY SMT

LEMMA LossesWithin ==
  ASSUME ClientWithin, NEW fate \in Possible, Fate(fate)
  PROVE  losses' \in 0 .. MaxLosses
<1>1. losses \in 0 .. MaxLosses /\ MaxLosses \in Nat
  BY LossesCapped, Zenon DEF ClientWithin
<1>2. losses' = losses \/ (losses < MaxLosses /\ losses' = losses + 1)
  <2>1. fate # "answered" => losses < MaxLosses
    BY Zenon DEF Possible
  <2>. QED  BY <2>1, Zenon DEF Fate
<1>. QED  BY <1>1, <1>2, OneMore, Zenon

LEMMA FlowWithin ==
  ASSUME ClientInv, ClientWithin, NEW f \in Flows,
         \/ InitSend(f) \/ AskResume(f) \/ PrimeHash(f) \/ SendChunk(f)
         \/ AskComplete(f) \/ AskFinalize(f)
  PROVE  ClientWithin'
<1>0. saved \in Sends \cup {NoSend} /\ losses \in 0 .. MaxLosses /\ DOMAIN held \subseteq Sends
  BY Zenon DEF ClientWithin, ClientInv, ClientTypes
<1>1. losses' \in 0 .. MaxLosses
  <2>1. losses' = losses \/ \E fate \in Possible : Fate(fate)
    BY Zenon DEF InitSend, AskResume, PrimeHash, SendChunk, AskComplete, AskFinalize
  <2>. QED  BY <1>0, <2>1, LossesWithin, Zenon
<1>2. saved' \in Sends \cup {NoSend}
  <2>1. CASE InitSend(f)
    BY <1>0, <2>1, Zenon DEF InitSend
  <2>2. CASE AskResume(f)
    <3>1. saved' = saved \/ (Resumable(flow[f].id) /\ saved' = flow[f].id)
      BY <2>2, Zenon DEF AskResume
    <3>. QED  BY <1>0, <3>1, Zenon DEF Resumable
  <2>3. CASE PrimeHash(f) \/ SendChunk(f) \/ AskComplete(f)
    BY <1>0, <2>3, Zenon DEF PrimeHash, SendChunk, AskComplete
  <2>4. CASE AskFinalize(f)
    <3>1. saved' = saved \/ saved' = NoSend
      BY <2>4, Zenon DEF AskFinalize
    <3>. QED  BY <1>0, <3>1, Zenon
  <2>. QED  BY <2>1, <2>2, <2>3, <2>4
<1>. QED  BY <1>1, <1>2, Zenon DEF ClientWithin

\* However a send is broken off, resumed or run by two flows: the page saves the id of
\* a transfer or none, the server has no more transfers than were created, and no chunk
\* is asked again more often than retry() asks.
THEOREM ClientTypeCorrect == ClientSpec => []ClientTypeOK
<1>1. ClientInit => ClientWithin
  BY LossesCapped, SMT DEF ClientInit, ClientWithin
<1>2. ClientInv /\ ClientWithin /\ [ClientNext]_clientVars => ClientWithin'
  <2>. SUFFICES ASSUME ClientInv, ClientWithin, [ClientNext]_clientVars PROVE ClientWithin'
    OBVIOUS
  <2>0. losses \in 0 .. MaxLosses /\ MaxLosses \in Nat
    BY LossesCapped, Zenon DEF ClientWithin
  <2>1. CASE UNCHANGED clientVars
    BY <2>1, Zenon DEF ClientWithin, clientVars
  <2>2. CASE SubmitForm \/ Reload
    <3>1. saved' = saved
      BY <2>2, Zenon DEF SubmitForm, Reload
    <3>2. losses' = losses \/ (losses < MaxLosses /\ losses' = losses + 1)
      BY <2>2, Zenon DEF SubmitForm, Reload
    <3>3. losses' \in 0 .. MaxLosses
      BY <2>0, <3>2, OneMore, Zenon
    <3>. QED  BY <3>1, <3>3, Zenon DEF ClientWithin
  <2>3. CASE \E t \in Sends : PressResume(t) \/ PressPause(t) \/ PressCancel(t)
                                \/ Expires(t) \/ Verifies(t) \/ Pruned(t)
    <3>1. saved' = saved /\ losses' = losses
      BY <2>3, Zenon DEF PressResume, PressPause, PressCancel, Expires, Verifies, Pruned, Become
    <3>. QED  BY <3>1, Zenon DEF ClientWithin
  <2>. QED  BY <2>1, <2>2, <2>3, FlowWithin, Zenon DEF ClientNext
<1>3. ClientInv /\ ClientWithin => ClientTypeOK
  <2>. SUFFICES ASSUME ClientInv, ClientWithin PROVE ClientTypeOK
    OBVIOUS
  <2>1. /\ held \in [DOMAIN held -> HeldRows] /\ DOMAIN held \subseteq Sends
        /\ flow \in [Flows -> FlowRows]
    BY Zenon DEF ClientInv, ClientTypes
  <2>2. \A t \in DOMAIN held : held[t].status \in Waiting \cup Ended \cup {"verifying", "gone"}
    BY <2>1, Zenon DEF HeldRows
  <2>3. \A f \in Flows : flow[f].step \in FlowSteps /\ flow[f].left \in 0 .. ChunkRetries
    BY <2>1, Zenon DEF FlowRows
  <2>. QED  BY <2>1, <2>2, <2>3, Zenon DEF ClientTypeOK, FlowSteps, ClientWithin
<1>. QED  BY <1>1, <1>2, <1>3, ClientStarts, ClientStep, PTL DEF ClientSpec

-----------------------------------------------------------------------------
(* ReleaseUploads: the uploads of the Releases page. *)

UploadStates == {"gone", "pending", "uploading", "completed", "failed"}
UploadRows == [status : UploadStates, received : 0 .. Parts]
ServedOps == {"none", "chunk", "complete", "delete", "sweep"}
ServedSteps == {"none", "read", "lock", "write", "save", "undo", "files", "row"}
Files == Seq(Nat)
ServingRows == [op : ServedOps, id : Sessions, at : ServedSteps, part : Nat, before : Files,
                final : BOOLEAN]
Waits == Served \cup {NoAttempt}
WidgetRows == [step : {"idle", "send", "complete", "wait"}, id : Sessions, part : Nat,
               tries : Nat, waits : Waits]

UploadTypes ==
  /\ session \in [Sessions -> UploadRows]
  /\ incoming \in [Sessions -> Files] /\ stored \in [Sessions -> Files]
  /\ locked \in [Sessions -> Served \cup {Unlocked}]
  /\ serving \in [Served -> ServingRows] /\ widget \in WidgetRows

\* The page sends parts of the file, and waits for a request of its own.
PageKnows ==
  /\ widget.step = "send" => widget.part \in 1 .. Parts
  /\ widget.step = "wait" =>
       /\ widget.waits \in Served
       /\ serving[widget.waits].op \in {"chunk", "complete"}
       /\ serving[widget.waits].op = "chunk" => widget.part \in 1 .. Parts
  /\ widget.step # "wait" => widget.waits = NoAttempt

\* A chunk is written and a completion saved under the lock of the row; a file that
\* a failed commit had moved is put back without it.
Writing(r) == serving[r].op = "chunk" /\ serving[r].at \in {"write", "save"}
Moving(r) == serving[r].op = "complete" /\ serving[r].at = "save"
PutsBack(r) == serving[r].op = "complete" /\ serving[r].at = "undo"
Moves(r) == Moving(r) \/ PutsBack(r)

\* A file has the parts that the row counts, and if it has no more, in order.
Ordered(f, n) == Len(f) >= n /\ (Len(f) = n => f = [i \in 1 .. n |-> i])

RowIsHeld(r) == Writing(r) \/ Moving(r) => locked[serving[r].id] = r

\* A part that is sent is one of the file; the one that is written is the next.
PartIsNext(r) ==
  /\ serving[r].op = "chunk" => serving[r].part \in 1 .. Parts
  /\ Writing(r) => /\ serving[r].part = session[serving[r].id].received + 1
                   /\ session[serving[r].id].status \notin {"gone", "completed"}

WrittenInOrder(r) ==
  Writing(r) /\ serving[r].at = "save" /\ serving[r].id \notin spoiled =>
    /\ incoming[serving[r].id] # NoFile
    /\ Ordered(incoming[serving[r].id], session[serving[r].id].received + 1)

\* While a completion is saved, or put back, the file is the stored one.
Moved(r) ==
  Moves(r) /\ serving[r].id \notin spoiled =>
    /\ incoming[serving[r].id] = NoFile /\ stored[serving[r].id] = AllParts
    /\ session[serving[r].id].received = Parts
    /\ session[serving[r].id].status \notin {"gone", "completed"}

\* Who cuts a chunk back, or removes a row, has spoiled the session.
SpoilsFirst(r) ==
  /\ serving[r].op = "chunk" /\ serving[r].at = "undo" => serving[r].id \in spoiled
  /\ serving[r].op \in {"delete", "sweep"} /\ serving[r].at = "row" => serving[r].id \in spoiled

ServedSoundly(r) ==
  RowIsHeld(r) /\ PartIsNext(r) /\ WrittenInOrder(r) /\ Moved(r) /\ SpoilsFirst(r)

\* No second completion finds a file to move while one is saved or put back.
OneMoves ==
  \A q, r \in Served : q # r /\ Moves(q) /\ Moves(r) /\ serving[q].id = serving[r].id
                         => serving[q].id \in spoiled

InOrder(s) ==
  /\ session[s].status = "gone" => session[s].received = 0 /\ incoming[s] = NoFile
  /\ incoming[s] # NoFile => Ordered(incoming[s], session[s].received)
  /\ incoming[s] = NoFile =>
       session[s].received = 0 \/ (stored[s] = AllParts /\ session[s].received = Parts)
  /\ session[s].status = "completed" => stored[s] = AllParts

UploadInv ==
  /\ UploadTypes /\ PageKnows /\ OneMoves
  /\ \A r \in Served : ServedSoundly(r)
  /\ \A s \in Sessions \ spoiled : InOrder(s)

-----------------------------------------------------------------------------
(* What one request leaves alone. *)

LEMMA Distinct ==
  /\ Unlocked \notin Served /\ NoAttempt \notin Served /\ 1 \in Sessions
  /\ Parts \in Nat /\ Parts # 0 /\ NoFile \in Files /\ <<>> \in Files
<1>1. Unlocked \notin Served /\ NoAttempt \notin Served
  BY UploadAssumption, Zenon DEF Unlocked, NoAttempt
<1>2. 1 \in Sessions /\ Parts \in Nat /\ Parts # 0
  BY UploadAssumption, SMT DEF Sessions
<1>3. NoFile \in Files /\ <<>> \in Files
  BY SMT DEF NoFile, Files
<1>. QED  BY <1>1, <1>2, <1>3

\* Apart from request r and session s, everything stays; a lock another holds too.
Frames(r, s) ==
  /\ spoiled \subseteq spoiled'
  /\ \A q \in Served : q # r =>
       serving'[q] = serving[q] /\ \A x \in Sessions : locked[x] = q => locked'[x] = q
  /\ \A x \in Sessions : x # s =>
       session'[x] = session[x] /\ incoming'[x] = incoming[x] /\ stored'[x] = stored[x]

\* Session s keeps what another request relies on.
Spares(r, s) ==
  \A q \in Served : q # r /\ serving[q].id = s =>
    /\ Writing(q) => /\ session'[s].received = session[s].received
                     /\ session'[s].status \notin {"gone", "completed"}
    /\ (Writing(q) \/ Moves(q)) /\ s \notin spoiled' =>
         /\ incoming'[s] = incoming[s] /\ stored'[s] = stored[s]
         /\ session'[s].received = session[s].received
         /\ session'[s].status \notin {"gone", "completed"}

LEMMA OthersStay ==
  ASSUME UploadInv, NEW r, NEW s, Frames(r, s), Spares(r, s), NEW q \in Served, q # r
  PROVE  ServedSoundly(q)'
<1>. DEFINE x == serving[q].id
<1>1. x \in Sessions
  BY Zenon DEF UploadInv, UploadTypes, ServingRows
<1>2. /\ serving'[q] = serving[q] /\ (locked[x] = q => locked'[x] = q) /\ spoiled \subseteq spoiled'
  BY <1>1, Zenon DEF Frames
<1>3. ServedSoundly(q)
  BY Zenon DEF UploadInv
<1>4. Writing(q) => /\ session'[x].received = session[x].received
                    /\ session'[x].status \notin {"gone", "completed"}
  <2>1. CASE x = s
    BY <2>1, Zenon DEF Spares
  <2>2. CASE x # s
    BY <1>1, <1>3, <2>2, Zenon DEF Frames, ServedSoundly, PartIsNext
  <2>. QED  BY <2>1, <2>2, Zenon
<1>5. (Writing(q) \/ Moves(q)) /\ x \notin spoiled' =>
         /\ incoming'[x] = incoming[x] /\ stored'[x] = stored[x]
         /\ session'[x].received = session[x].received
         /\ session'[x].status \notin {"gone", "completed"}
  <2>1. CASE x = s
    BY <2>1, Zenon DEF Spares
  <2>2. CASE x # s
    BY <1>1, <1>2, <1>3, <2>2, Zenon DEF Frames, ServedSoundly, PartIsNext, Moved
  <2>. QED  BY <2>1, <2>2, Zenon
<1>6. (Writing(q))' = Writing(q) /\ (Moving(q))' = Moving(q) /\ (PutsBack(q))' = PutsBack(q)
      /\ (Moves(q))' = Moves(q)
  BY <1>2, Zenon DEF Writing, Moving, PutsBack, Moves
<1>7. RowIsHeld(q)'
  BY <1>2, <1>3, <1>6, Zenon DEF ServedSoundly, RowIsHeld
<1>8. PartIsNext(q)'
  BY <1>2, <1>3, <1>4, <1>6, Zenon DEF ServedSoundly, PartIsNext
<1>9. WrittenInOrder(q)'
  <2>1. SUFFICES ASSUME Writing(q), serving[q].at = "save", x \notin spoiled'
                 PROVE  incoming'[x] # NoFile /\ Ordered(incoming'[x], session'[x].received + 1)
    BY <1>2, <1>6, Zenon DEF WrittenInOrder
  <2>2. x \notin spoiled
    BY <1>2, <2>1, Zenon
  <2>. QED  BY <1>3, <1>5, <2>1, <2>2, Zenon DEF ServedSoundly, WrittenInOrder
<1>10. Moved(q)'
  <2>1. SUFFICES ASSUME Moves(q), x \notin spoiled'
                 PROVE  /\ incoming'[x] = NoFile /\ stored'[x] = AllParts
                        /\ session'[x].received = Parts
                        /\ session'[x].status \notin {"gone", "completed"}
    BY <1>2, <1>6, Zenon DEF Moved, AllParts
  <2>2. x \notin spoiled
    BY <1>2, <2>1, Zenon
  <2>. QED  BY <1>3, <1>5, <2>1, <2>2, Zenon DEF ServedSoundly, Moved
<1>11. SpoilsFirst(q)'
  BY <1>2, <1>3, Zenon DEF ServedSoundly, SpoilsFirst
<1>. QED  BY <1>7, <1>8, <1>9, <1>10, <1>11, Zenon DEF ServedSoundly

LEMMA OneStillMoves ==
  ASSUME UploadInv, NEW r, NEW s, Frames(r, s),
         r \in Served /\ Moves(r)' => \A q \in Served :
           q # r /\ Moves(q) /\ serving[q].id = serving'[r].id => serving[q].id \in spoiled'
  PROVE  OneMoves'
<1>1. SUFFICES ASSUME NEW p \in Served, NEW q \in Served, p # q, Moves(p)', Moves(q)',
                      serving'[p].id = serving'[q].id
               PROVE  serving'[p].id \in spoiled'
  BY Zenon DEF OneMoves
<1>2. \A o \in Served : o # r => serving'[o] = serving[o] /\ Moves(o)' = Moves(o)
  <2>1. \A o \in Served : o # r => serving'[o] = serving[o]
    BY Zenon DEF Frames
  <2>. QED  BY <2>1, Zenon DEF Moves, Moving, PutsBack
<1>3. CASE p # r /\ q # r
  <2>1. /\ Moves(p) /\ Moves(q) /\ serving[p].id = serving[q].id
        /\ serving'[p] = serving[p] /\ spoiled \subseteq spoiled'
    BY <1>1, <1>2, <1>3, Zenon DEF Frames
  <2>2. serving[p].id \in spoiled
    BY <1>1, <2>1, Zenon DEF UploadInv, OneMoves
  <2>. QED  BY <2>1, <2>2, Zenon
<1>4. CASE p = r
  <2>1. q # r /\ Moves(q) /\ serving[q].id = serving'[r].id
    BY <1>1, <1>2, <1>4, Zenon
  <2>2. serving[q].id \in spoiled'
    BY <1>1, <1>4, <2>1, Zenon
  <2>. QED  BY <1>4, <2>1, <2>2, Zenon
<1>5. CASE q = r
  <2>1. p # r /\ Moves(p) /\ serving[p].id = serving'[r].id /\ serving'[p] = serving[p]
    BY <1>1, <1>2, <1>5, Zenon
  <2>2. serving[p].id \in spoiled'
    BY <1>1, <1>5, <2>1, Zenon
  <2>. QED  BY <2>1, <2>2, Zenon
<1>. QED  BY <1>3, <1>4, <1>5, Zenon

LEMMA OrderStays ==
  ASSUME UploadInv, NEW r, NEW s, Frames(r, s), NEW x \in Sessions \ spoiled', x # s
  PROVE  InOrder(x)'
<1>1. session'[x] = session[x] /\ incoming'[x] = incoming[x] /\ stored'[x] = stored[x]
      /\ x \notin spoiled
  BY Zenon DEF Frames
<1>2. InOrder(x)
  BY <1>1, Zenon DEF UploadInv
<1>. QED  BY <1>1, <1>2, Zenon DEF InOrder, AllParts

\* What is left to show of a step of request r on session s.
LEMMA UploadKeeps ==
  ASSUME UploadInv, NEW r, NEW s, Frames(r, s), Spares(r, s), UploadTypes', PageKnows',
         r \in Served => ServedSoundly(r)',
         r \in Served /\ Moves(r)' => \A q \in Served :
           q # r /\ Moves(q) /\ serving[q].id = serving'[r].id => serving[q].id \in spoiled',
         s \in Sessions \ spoiled' => InOrder(s)'
  PROVE  UploadInv'
<1>1. \A q \in Served : ServedSoundly(q)'
  BY OthersStay, Zenon
<1>2. OneMoves'
  BY OneStillMoves, Zenon
<1>3. \A x \in Sessions \ spoiled' : InOrder(x)'
  BY OrderStays, Zenon
<1>. QED  BY <1>1, <1>2, <1>3, Zenon DEF UploadInv

-----------------------------------------------------------------------------
(* Rows, replies and the page. *)

LEMMA ServedRow ==
  ASSUME UploadInv, NEW r \in Served
  PROVE  /\ serving[r] \in ServingRows /\ serving[r].op \in ServedOps /\ serving[r].id \in Sessions
         /\ serving[r].part \in Nat /\ serving[r].before \in Files
<1>1. serving[r] \in ServingRows
  BY Zenon DEF UploadInv, UploadTypes
<1>. QED  BY <1>1, Zenon DEF ServingRows

LEMMA SessionRow ==
  ASSUME UploadInv, NEW s \in Sessions
  PROVE  /\ session[s] \in UploadRows /\ session[s].status \in UploadStates
         /\ session[s].received \in 0 .. Parts
         /\ incoming[s] \in Files /\ stored[s] \in Files
<1>1. session[s] \in UploadRows /\ incoming[s] \in Files /\ stored[s] \in Files
  BY Zenon DEF UploadInv, UploadTypes
<1>. QED  BY <1>1, Zenon DEF UploadRows

LEMMA WidgetRow ==
  ASSUME UploadInv
  PROVE  /\ widget \in WidgetRows /\ widget.step \in {"idle", "send", "complete", "wait"}
         /\ widget.id \in Sessions /\ widget.part \in Nat /\ widget.tries \in Nat
         /\ widget.waits \in Waits
<1>1. widget \in WidgetRows
  BY Zenon DEF UploadInv, UploadTypes
<1>. QED  BY <1>1, Zenon DEF WidgetRows

LEMMA NotServingRow ==
  NotServing \in ServingRows /\ NotServing.op = "none"
<1>1. /\ "none" \in ServedOps /\ "none" \in ServedSteps /\ 0 \in Nat /\ FALSE \in BOOLEAN
      /\ 1 \in Sessions /\ NoFile \in Files
  BY Distinct, SMT DEF ServedOps, ServedSteps
<1>2. NotServing \in ServingRows
  BY <1>1, Zenon DEF NotServing, ServingRows
<1>3. NotServing.op = "none"
  BY SMT DEF NotServing
<1>. QED  BY <1>2, <1>3

LEMMA RestingRow ==
  Resting \in WidgetRows /\ Resting.step = "idle" /\ Resting.waits = NoAttempt
<1>1. "idle" \in {"idle", "send", "complete", "wait"} /\ 1 \in Sessions /\ 1 \in Nat /\ 0 \in Nat
      /\ NoAttempt \in Waits
  BY Distinct, SMT DEF Waits
<1>2. Resting \in WidgetRows
  BY <1>1, Zenon DEF Resting, WidgetRows
<1>3. Resting.step = "idle" /\ Resting.waits = NoAttempt
  BY SMT DEF Resting
<1>. QED  BY <1>2, <1>3

\* A page that may be shown: it does not wait, and sends a part of the file if any.
PageReady(w) ==
  /\ w \in WidgetRows /\ w.step # "wait" /\ w.waits = NoAttempt
  /\ w.step = "send" => w.part \in 1 .. Parts

LEMMA ErrorReadies ==
  ASSUME UploadInv, widget.step = "wait"
  PROVE  PageReady(AfterError(serving[widget.waits].op))
<1>. DEFINE op == serving[widget.waits].op
            w == [widget EXCEPT !.step = "send", !.waits = NoAttempt, !.tries = widget.tries + 1]
<1>1. widget \in WidgetRows /\ widget.part \in Nat /\ widget.tries \in Nat
  BY WidgetRow
<1>2. op = "chunk" => widget.part \in 1 .. Parts
  BY Zenon DEF UploadInv, PageKnows
<1>3. CASE op = "chunk" /\ widget.tries + 1 < MaxAttempts
  <2>1. AfterError(op) = w
    BY <1>3, Zenon DEF AfterError
  <2>2. "send" \in {"idle", "send", "complete", "wait"} /\ NoAttempt \in Waits /\ widget.tries + 1 \in Nat
    BY <1>1, SMT DEF Waits
  <2>3. w \in WidgetRows
    BY <1>1, <2>2, Zenon DEF WidgetRows
  <2>4. w.step = "send" /\ w.waits = NoAttempt /\ w.part = widget.part
    BY <1>1, SMT DEF WidgetRows
  <2>. HIDE DEF w, op
  <2>. QED  BY <1>2, <1>3, <2>1, <2>3, <2>4, Zenon DEF PageReady, op
<1>4. CASE ~(op = "chunk" /\ widget.tries + 1 < MaxAttempts)
  <2>1. AfterError(op) = Resting
    BY <1>4, Zenon DEF AfterError
  <2>. QED  BY <2>1, RestingRow, Zenon DEF PageReady
<1>. QED  BY <1>3, <1>4, Zenon

LEMMA AnswerReadies ==
  ASSUME UploadInv, widget.step = "wait"
  PROVE  PageReady(AfterAnswer(serving[widget.waits].op))
<1>. DEFINE op == serving[widget.waits].op
            step == IF widget.step = "wait" /\ widget.part = Parts THEN "complete" ELSE "send"
            w == [widget EXCEPT !.step = step, !.part = widget.part + 1, !.tries = 0, !.waits = NoAttempt]
<1>1. widget \in WidgetRows /\ widget.part \in Nat
  BY WidgetRow
<1>2. op \in {"chunk", "complete"} /\ (op = "chunk" => widget.part \in 1 .. Parts)
  BY Zenon DEF UploadInv, PageKnows
<1>3. CASE op = "chunk"
  <2>1. AfterAnswer(op) = w
    BY <1>3, Zenon DEF AfterAnswer
  <2>2. step \in {"idle", "send", "complete", "wait"} /\ NoAttempt \in Waits /\ 0 \in Nat
        /\ widget.part + 1 \in Nat
    BY <1>1, SMT DEF Waits
  <2>3. w \in WidgetRows
    BY <1>1, <2>2, Zenon DEF WidgetRows
  <2>4. w.step = step /\ w.waits = NoAttempt /\ w.part = widget.part + 1
    BY <1>1, SMT DEF WidgetRows
  <2>5. step # "wait" /\ (step = "send" => widget.part # Parts)
    BY Zenon
  <2>6. step = "send" => widget.part + 1 \in 1 .. Parts
    <3>1. widget.part \in 1 .. Parts /\ Parts \in Nat
      BY <1>2, <1>3, Distinct, Zenon
    <3>. HIDE DEF step
    <3>. QED  BY <2>5, <3>1, SMT
  <2>. HIDE DEF w, step
  <2>7. PageReady(w)
    BY <2>3, <2>4, <2>5, <2>6, Zenon DEF PageReady
  <2>. QED  BY <2>1, <2>7, Zenon
<1>4. CASE op # "chunk"
  <2>1. AfterAnswer(op) = Resting
    BY <1>2, <1>4, Zenon DEF AfterAnswer
  <2>. QED  BY <2>1, RestingRow, Zenon DEF PageReady
<1>. QED  BY <1>3, <1>4, Zenon

LEMMA ReadyKnows ==
  ASSUME PageReady(widget')
  PROVE  PageKnows' /\ widget' \in WidgetRows
BY Zenon DEF PageReady, PageKnows

\* The request that the page waits for stays what it is.
LEMMA PageStays ==
  ASSUME UploadInv, widget' = widget,
         widget.step = "wait" => serving'[widget.waits].op = serving[widget.waits].op
  PROVE  PageKnows' /\ widget' \in WidgetRows
<1>1. PageKnows /\ widget \in WidgetRows
  BY Zenon DEF UploadInv, UploadTypes
<1>. QED  BY <1>1, Zenon DEF PageKnows

LEMMA RepliesKeep ==
  ASSUME UploadInv, NEW r \in Served, NEW ok, Replies(r, ok)
  PROVE  /\ serving' \in [Served -> ServingRows] /\ locked' \in [Sessions -> Served \cup {Unlocked}]
         /\ widget' \in WidgetRows /\ PageKnows'
         /\ serving'[r] = NotServing /\ ~Moves(r)'
         /\ \A q \in Served : q # r =>
              serving'[q] = serving[q] /\ \A x \in Sessions : locked[x] = q => locked'[x] = q
         /\ ServedSoundly(r)'
<1>1. /\ serving' = [serving EXCEPT ![r] = NotServing] /\ locked' = Unlock(r)
      /\ widget' = IF widget.waits # r THEN widget
                   ELSE IF ok THEN AfterAnswer(serving[r].op) ELSE AfterError(serving[r].op)
  BY Zenon DEF Replies
<1>2. serving \in [Served -> ServingRows] /\ locked \in [Sessions -> Served \cup {Unlocked}]
  BY Zenon DEF UploadInv, UploadTypes
<1>3. serving' \in [Served -> ServingRows] /\ serving'[r] = NotServing
      /\ \A q \in Served : q # r => serving'[q] = serving[q]
  BY <1>1, <1>2, NotServingRow, Zenon
<1>4. \A x \in Sessions : locked'[x] = IF locked[x] = r THEN Unlocked ELSE locked[x]
  BY <1>1, Zenon DEF Unlock
<1>5. locked' \in [Sessions -> Served \cup {Unlocked}]
  <2>1. locked' = [x \in Sessions |-> IF locked[x] = r THEN Unlocked ELSE locked[x]]
    BY <1>1, Zenon DEF Unlock
  <2>. QED  BY <1>2, <2>1, Zenon
<1>6. \A q \in Served : q # r => \A x \in Sessions : locked[x] = q => locked'[x] = q
  BY <1>4, Zenon
<1>7. widget' \in WidgetRows /\ PageKnows'
  <2>1. CASE widget.waits # r
    <3>1. widget' = widget
      BY <1>1, <2>1, Zenon
    <3>2. widget.step = "wait" => widget.waits \in Served
      BY Zenon DEF UploadInv, PageKnows
    <3>. QED  BY <1>3, <2>1, <3>1, <3>2, PageStays, Zenon
  <2>2. CASE widget.waits = r
    <3>1. widget.step = "wait"
      BY <2>2, Distinct, Zenon DEF UploadInv, PageKnows
    <3>2. PageReady(widget')
      BY <1>1, <2>2, <3>1, AnswerReadies, ErrorReadies, Zenon
    <3>. QED  BY <3>2, ReadyKnows, Zenon
  <2>. QED  BY <2>1, <2>2, Zenon
<1>8. serving'[r].op = "none"
  BY <1>3, NotServingRow, Zenon
<1>9. ~Moves(r)' /\ ServedSoundly(r)'
  BY <1>8, Zenon DEF Moves, Moving, PutsBack, ServedSoundly, RowIsHeld, PartIsNext, WrittenInOrder,
     Moved, SpoilsFirst, Writing
<1>. QED  BY <1>3, <1>5, <1>6, <1>7, <1>9, Zenon

\* A request goes on: another row for it, of the same kind and session.
LEMMA RequestGoes ==
  ASSUME UploadInv, NEW r \in Served, NEW w \in ServingRows,
         serving' = [serving EXCEPT ![r] = w], w.op = serving[r].op, widget' = widget
  PROVE  /\ serving' \in [Served -> ServingRows] /\ widget' \in WidgetRows /\ PageKnows'
         /\ serving'[r] = w /\ \A q \in Served : q # r => serving'[q] = serving[q]
<1>1. serving \in [Served -> ServingRows]
  BY Zenon DEF UploadInv, UploadTypes
<1>2. /\ serving' \in [Served -> ServingRows]
      /\ serving'[r] = w /\ \A q \in Served : q # r => serving'[q] = serving[q]
  BY <1>1, Zenon
<1>3. widget.step = "wait" => widget.waits \in Served
  BY Zenon DEF UploadInv, PageKnows
<1>4. widget.step = "wait" => serving'[widget.waits].op = serving[widget.waits].op
  BY <1>2, <1>3, Zenon
<1>. QED  BY <1>2, <1>4, PageStays, Zenon

LEMMA RequestAt ==
  ASSUME UploadInv, NEW r \in Served, NEW step \in ServedSteps
  PROVE  LET w == [serving[r] EXCEPT !.at = step] IN
           /\ w \in ServingRows /\ w.op = serving[r].op /\ w.id = serving[r].id /\ w.at = step
           /\ w.part = serving[r].part /\ w.before = serving[r].before
<1>1. serving[r] \in ServingRows
  BY ServedRow, Zenon
<1>2. [serving[r] EXCEPT !.at = step] \in ServingRows
  BY <1>1, Zenon DEF ServingRows
<1>. QED  BY <1>1, <1>2, SMT DEF ServingRows

LEMMA GoesOnKeeps ==
  ASSUME UploadInv, NEW r \in Served, NEW step \in ServedSteps, GoesOn(r, step), widget' = widget
  PROVE  /\ serving' \in [Served -> ServingRows] /\ widget' \in WidgetRows /\ PageKnows'
         /\ \A q \in Served : q # r => serving'[q] = serving[q]
         /\ serving'[r].op = serving[r].op /\ serving'[r].id = serving[r].id
         /\ serving'[r].at = step /\ serving'[r].part = serving[r].part
         /\ serving'[r].before = serving[r].before
<1>. DEFINE w == [serving[r] EXCEPT !.at = step]
<1>1. /\ w \in ServingRows /\ w.op = serving[r].op /\ w.id = serving[r].id /\ w.at = step
      /\ w.part = serving[r].part /\ w.before = serving[r].before
  BY RequestAt
<1>2. serving' = [serving EXCEPT ![r] = w]
  BY Zenon DEF GoesOn
<1>. HIDE DEF w
<1>3. /\ serving' \in [Served -> ServingRows] /\ widget' \in WidgetRows /\ PageKnows'
      /\ serving'[r] = w /\ \A q \in Served : q # r => serving'[q] = serving[q]
  BY <1>1, <1>2, RequestGoes, Zenon
<1>. QED  BY <1>1, <1>3, Zenon

\* A lock that is free, or that one request holds, no other works under.
LEMMA LockExcludes ==
  ASSUME UploadInv, NEW q \in Served, NEW s, serving[q].id = s, locked[s] # q
  PROVE  ~Writing(q) /\ ~Moving(q)
BY Zenon DEF UploadInv, ServedSoundly, RowIsHeld

\* While a chunk is written nothing of that session is moved.
LEMMA WritingExcludes ==
  ASSUME UploadInv, NEW r \in Served, Writing(r), NEW q \in Served, q # r,
         serving[q].id = serving[r].id
  PROVE  ~Writing(q) /\ ~Moving(q) /\ (serving[r].id \notin spoiled => ~Moves(q))
<1>. DEFINE s == serving[r].id
<1>1. locked[s] = r
  BY Zenon DEF UploadInv, ServedSoundly, RowIsHeld
<1>2. ~Writing(q) /\ ~Moving(q)
  BY <1>1, LockExcludes, Zenon
<1>3. ASSUME s \notin spoiled, Moves(q) PROVE FALSE
  <2>1. session[s].received = Parts
    BY <1>3, Zenon DEF UploadInv, ServedSoundly, Moved
  <2>2. serving[r].part \in 1 .. Parts /\ serving[r].part = session[s].received + 1
    BY Zenon DEF UploadInv, ServedSoundly, PartIsNext, Writing
  <2>. HIDE DEF s
  <2>. QED  BY <2>1, <2>2, Distinct, SMT
<1>. QED  BY <1>2, <1>3, Zenon

\* Where no row and no file changes, others are spared.
LEMMA DataSame ==
  ASSUME UploadInv, NEW r, NEW s, session' = session, incoming' = incoming, stored' = stored,
         spoiled \subseteq spoiled'
  PROVE  /\ Spares(r, s)
         /\ s \in Sessions \ spoiled' => InOrder(s)'
         /\ \A x \in Sessions : x # s =>
              session'[x] = session[x] /\ incoming'[x] = incoming[x] /\ stored'[x] = stored[x]
         /\ session' \in [Sessions -> UploadRows] /\ incoming' \in [Sessions -> Files]
         /\ stored' \in [Sessions -> Files]
<1>1. Spares(r, s)
  BY Zenon DEF Spares, UploadInv, ServedSoundly, PartIsNext, Moved
<1>2. s \in Sessions \ spoiled' => InOrder(s)'
  BY Zenon DEF UploadInv, InOrder, AllParts
<1>3. session \in [Sessions -> UploadRows] /\ incoming \in [Sessions -> Files]
      /\ stored \in [Sessions -> Files]
  BY Zenon DEF UploadInv, UploadTypes
<1>. QED  BY <1>1, <1>2, <1>3, Zenon

-----------------------------------------------------------------------------
(* The page's steps. *)

LEMMA AnswerLostKeeps == ASSUME UploadInv, AnswerLost PROVE UploadInv'
<1>1. /\ widget.step = "wait" /\ widget' = AfterError(serving[widget.waits].op)
      /\ session' = session /\ incoming' = incoming /\ stored' = stored /\ locked' = locked
      /\ serving' = serving /\ spoiled' = spoiled
  BY Zenon DEF AnswerLost
<1>2. PageKnows' /\ widget' \in WidgetRows
  BY <1>1, ErrorReadies, ReadyKnows, Zenon
<1>3. Spares(NoAttempt, 1) /\ (1 \in Sessions \ spoiled' => InOrder(1)')
  BY <1>1, DataSame, Zenon
<1>4. Frames(NoAttempt, 1)
  BY <1>1, Zenon DEF Frames
<1>5. UploadTypes'
  BY <1>1, <1>2, Zenon DEF UploadInv, UploadTypes
<1>6. NoAttempt \notin Served
  BY Distinct, Zenon
<1>. QED  BY <1>2, <1>3, <1>4, <1>5, <1>6, UploadKeeps, Zenon

LEMMA StartKeeps == ASSUME UploadInv, NEW s \in Sessions, StartUpload(s) PROVE UploadInv'
<1>. DEFINE entry == [status |-> "pending", received |-> 0]
            w == [Resting EXCEPT !.step = "send", !.id = s]
<1>1. /\ session[s] = Gone /\ session' = [session EXCEPT ![s] = entry] /\ widget' = w
      /\ incoming' = incoming /\ stored' = stored /\ locked' = locked
      /\ serving' = serving /\ spoiled' = spoiled
  BY Zenon DEF StartUpload
<1>2. session[s].status = "gone"
  BY <1>1, SMT DEF Gone
<1>3. entry \in UploadRows
  <2>1. "pending" \in UploadStates /\ 0 \in 0 .. Parts
    BY Distinct, SMT DEF UploadStates
  <2>. QED  BY <2>1, Zenon DEF UploadRows
<1>4. entry.status = "pending" /\ entry.received = 0
  BY SMT
<1>5. PageReady(w)
  <2>1. Resting \in WidgetRows /\ Resting.waits = NoAttempt /\ Resting.part = 1
    BY RestingRow, SMT DEF Resting
  <2>2. "send" \in {"idle", "send", "complete", "wait"} /\ 1 \in 1 .. Parts
    BY Distinct, SMT
  <2>3. w \in WidgetRows
    BY <2>1, <2>2, Zenon DEF WidgetRows
  <2>4. w.step = "send" /\ w.waits = NoAttempt /\ w.part = 1
    BY <2>1, SMT DEF WidgetRows
  <2>. HIDE DEF w
  <2>. QED  BY <2>2, <2>3, <2>4, Zenon DEF PageReady
<1>. HIDE DEF entry, w
<1>6. PageKnows' /\ widget' \in WidgetRows
  BY <1>1, <1>5, ReadyKnows, Zenon
<1>7. session \in [Sessions -> UploadRows]
  BY Zenon DEF UploadInv, UploadTypes
<1>8. session' \in [Sessions -> UploadRows] /\ session'[s] = entry
      /\ \A x \in Sessions : x # s => session'[x] = session[x]
  BY <1>1, <1>3, <1>7, Zenon
<1>9. UploadTypes'
  BY <1>1, <1>6, <1>8, Zenon DEF UploadInv, UploadTypes
<1>10. Frames(NoAttempt, s)
  BY <1>1, <1>8, Zenon DEF Frames
<1>11. Spares(NoAttempt, s)
  BY <1>1, <1>2, Zenon DEF Spares, UploadInv, ServedSoundly, PartIsNext, Moved
<1>12. s \in Sessions \ spoiled' => InOrder(s)'
  <2>1. SUFFICES ASSUME s \notin spoiled PROVE InOrder(s)'
    BY <1>1, Zenon
  <2>2. incoming[s] = NoFile
    BY <1>2, <2>1, Zenon DEF UploadInv, InOrder
  <2>3. session'[s].status = "pending" /\ session'[s].received = 0 /\ incoming'[s] = NoFile
    BY <1>1, <1>4, <1>8, <2>2, Zenon
  <2>. QED  BY <2>3, Zenon DEF InOrder
<1>13. NoAttempt \notin Served
  BY Distinct, Zenon
<1>. QED  BY <1>6, <1>9, <1>10, <1>11, <1>12, <1>13, UploadKeeps, Zenon

\* A request begins, where none was served.
LEMMA RequestBegins ==
  ASSUME UploadInv, NEW r \in Served, NEW w \in ServingRows, serving[r] = NotServing,
         serving' = [serving EXCEPT ![r] = w], w.at \in {"read", "files"},
         w.op = "chunk" => w.part \in 1 .. Parts,
         session' = session, incoming' = incoming, stored' = stored, locked' = locked,
         spoiled' = spoiled, PageKnows', widget' \in WidgetRows
  PROVE  UploadInv'
<1>1. serving \in [Served -> ServingRows]
  BY Zenon DEF UploadInv, UploadTypes
<1>2. serving' \in [Served -> ServingRows] /\ serving'[r] = w
      /\ \A q \in Served : q # r => serving'[q] = serving[q]
  BY <1>1, Zenon
<1>3. Spares(r, 1) /\ (1 \in Sessions \ spoiled' => InOrder(1)')
  BY DataSame, Zenon
<1>4. Frames(r, 1)
  BY <1>2, Zenon DEF Frames
<1>5. UploadTypes'
  BY <1>2, Zenon DEF UploadInv, UploadTypes
<1>6. serving'[r].at \in {"read", "files"} /\ (serving'[r].op = "chunk" => serving'[r].part \in 1 .. Parts)
  BY <1>2, Zenon
<1>7. ServedSoundly(r)' /\ ~Moves(r)'
  BY <1>6, Zenon DEF ServedSoundly, RowIsHeld, PartIsNext, WrittenInOrder, Moved, SpoilsFirst,
     Writing, Moves, Moving, PutsBack
<1>. QED  BY <1>3, <1>4, <1>5, <1>7, UploadKeeps, Zenon

LEMMA AskUploadKeeps == ASSUME UploadInv, NEW r \in Served, Ask(r) PROVE UploadInv'
<1>. DEFINE op == IF widget.step = "send" THEN "chunk" ELSE "complete"
            w == [NotServing EXCEPT !.op = op, !.id = widget.id, !.at = "read", !.part = widget.part]
            page == [widget EXCEPT !.step = "wait", !.waits = r]
<1>1. /\ widget.step \in {"send", "complete"} /\ serving[r] = NotServing
      /\ serving' = [serving EXCEPT ![r] = w] /\ widget' = page
      /\ session' = session /\ incoming' = incoming /\ stored' = stored /\ locked' = locked
      /\ spoiled' = spoiled
  BY Zenon DEF Ask, Serve
<1>2. /\ widget \in WidgetRows /\ widget.id \in Sessions /\ widget.part \in Nat
      /\ (widget.step = "send" => widget.part \in 1 .. Parts)
  BY WidgetRow, Zenon DEF UploadInv, PageKnows
<1>3. op \in ServedOps /\ op \in {"chunk", "complete"} /\ (op = "chunk" => widget.part \in 1 .. Parts)
  BY <1>2, Zenon DEF ServedOps
<1>. HIDE DEF op
<1>4. w \in ServingRows
  <2>1. "read" \in ServedSteps
    BY Zenon DEF ServedSteps
  <2>. QED  BY <1>2, <1>3, <2>1, NotServingRow, Zenon DEF ServingRows
<1>5. w.op = op /\ w.at = "read" /\ w.part = widget.part
  BY NotServingRow, SMT DEF ServingRows
<1>6. page \in WidgetRows
  <2>1. "wait" \in {"idle", "send", "complete", "wait"} /\ r \in Waits
    BY Zenon DEF Waits
  <2>. QED  BY <1>2, <2>1, Zenon DEF WidgetRows
<1>7. page.step = "wait" /\ page.waits = r /\ page.part = widget.part
  BY <1>2, SMT DEF WidgetRows
<1>. HIDE DEF w, page
<1>8. serving'[r] = w
  BY <1>1, Zenon DEF UploadInv, UploadTypes
<1>9. PageKnows'
  BY <1>1, <1>3, <1>5, <1>7, <1>8, Zenon DEF PageKnows
<1>10. (w.op = "chunk" => w.part \in 1 .. Parts) /\ w.at \in {"read", "files"} /\ widget' \in WidgetRows
  BY <1>1, <1>3, <1>5, <1>6, Zenon
<1>. QED  BY <1>1, <1>4, <1>9, <1>10, RequestBegins, Zenon

\* A removal begins: the page waits for another request.
LEMMA RemovalBegins ==
  ASSUME UploadInv, NEW r \in Served, NEW w \in ServingRows, w.op \in {"delete", "sweep"},
         w.at = "files", serving[r] = NotServing, serving' = [serving EXCEPT ![r] = w],
         session' = session, incoming' = incoming, stored' = stored, locked' = locked,
         spoiled' = spoiled, widget' = widget
  PROVE  UploadInv'
<1>4. widget.step = "wait" => widget.waits \in Served /\ serving[widget.waits].op # "none"
  BY Zenon DEF UploadInv, PageKnows
<1>5. widget.step = "wait" => serving'[widget.waits].op = serving[widget.waits].op
  <2>1. serving[r].op = "none"
    BY NotServingRow, Zenon
  <2>2. widget.step = "wait" => widget.waits # r
    BY <1>4, <2>1, Zenon
  <2>3. \A q \in Served : q # r => serving'[q] = serving[q]
    BY Zenon DEF UploadInv, UploadTypes
  <2>. QED  BY <1>4, <2>2, <2>3, Zenon
<1>6. PageKnows' /\ widget' \in WidgetRows
  BY <1>5, PageStays, Zenon
<1>8. w.at \in {"read", "files"} /\ (w.op = "chunk" => w.part \in 1 .. Parts)
  BY Zenon
<1>. QED  BY <1>6, <1>8, RequestBegins, Zenon

LEMMA RemovalKeeps ==
  ASSUME UploadInv, NEW r \in Served, NEW s \in Sessions, AskDelete(r, s) \/ AskSweep(r, s)
  PROVE  UploadInv'
<1>1. "delete" \in ServedOps /\ "sweep" \in ServedOps /\ "files" \in ServedSteps
  BY Zenon DEF ServedOps, ServedSteps
<1>2. CASE AskDelete(r, s)
  <2>. DEFINE final == session[s].status = "completed"
              w == [NotServing EXCEPT !.op = "delete", !.id = s, !.at = "files", !.final = final]
  <2>1. /\ serving[r] = NotServing /\ serving' = [serving EXCEPT ![r] = w]
        /\ session' = session /\ incoming' = incoming /\ stored' = stored /\ locked' = locked
        /\ spoiled' = spoiled /\ widget' = widget
    BY <1>2, Zenon DEF AskDelete
  <2>2. final \in BOOLEAN
    BY Zenon
  <2>. HIDE DEF final
  <2>3. w \in ServingRows
    BY <1>1, <2>2, NotServingRow, Zenon DEF ServingRows
  <2>4. w.op = "delete" /\ w.at = "files"
    BY NotServingRow, SMT DEF ServingRows
  <2>. HIDE DEF w
  <2>5. w.op \in {"delete", "sweep"}
    BY <2>4, Zenon
  <2>. QED  BY <2>1, <2>3, <2>4, <2>5, RemovalBegins, Zenon
<1>3. CASE AskSweep(r, s)
  <2>. DEFINE w == [NotServing EXCEPT !.op = "sweep", !.id = s, !.at = "files"]
  <2>1. /\ serving[r] = NotServing /\ serving' = [serving EXCEPT ![r] = w]
        /\ session' = session /\ incoming' = incoming /\ stored' = stored /\ locked' = locked
        /\ spoiled' = spoiled /\ widget' = widget
    BY <1>3, Zenon DEF AskSweep
  <2>3. w \in ServingRows
    BY <1>1, NotServingRow, Zenon DEF ServingRows
  <2>4. w.op = "sweep" /\ w.at = "files"
    BY NotServingRow, SMT DEF ServingRows
  <2>. HIDE DEF w
  <2>5. w.op \in {"delete", "sweep"}
    BY <2>4, Zenon
  <2>. QED  BY <2>1, <2>3, <2>4, <2>5, RemovalBegins, Zenon
<1>. QED  BY <1>2, <1>3, Zenon

-----------------------------------------------------------------------------
(* Requests that end without a change. *)

LEMMA EndKeeps ==
  ASSUME UploadInv, NEW r \in Served, NEW ok, Replies(r, ok),
         session' = session, incoming' = incoming, stored' = stored, spoiled' = spoiled
  PROVE  UploadInv'
<1>1. /\ serving' \in [Served -> ServingRows] /\ locked' \in [Sessions -> Served \cup {Unlocked}]
      /\ widget' \in WidgetRows /\ PageKnows' /\ ~Moves(r)' /\ ServedSoundly(r)'
      /\ \A q \in Served : q # r =>
           serving'[q] = serving[q] /\ \A x \in Sessions : locked[x] = q => locked'[x] = q
  BY RepliesKeep, Zenon
<1>2. Spares(r, 1) /\ (1 \in Sessions \ spoiled' => InOrder(1)')
  BY DataSame, Zenon
<1>3. Frames(r, 1)
  BY <1>1, Zenon DEF Frames
<1>4. UploadTypes'
  BY <1>1, Zenon DEF UploadInv, UploadTypes
<1>. QED  BY <1>1, <1>2, <1>3, <1>4, UploadKeeps, Zenon

LEMMA ExamineKeeps == ASSUME UploadInv, NEW r \in Served, ExamineChunk(r) PROVE UploadInv'
<1>1. /\ session' = session /\ incoming' = incoming /\ stored' = stored /\ spoiled' = spoiled
      /\ serving[r].op = "chunk"
  BY Zenon DEF ExamineChunk, Serving
<1>2. ASSUME NEW ok, Replies(r, ok) PROVE UploadInv'
  BY <1>1, <1>2, EndKeeps, Zenon
<1>3. CASE GoesOn(r, "lock") /\ UNCHANGED <<locked, widget>>
  <2>1. "lock" \in ServedSteps /\ GoesOn(r, "lock") /\ widget' = widget /\ locked' = locked
    BY <1>3, Zenon DEF ServedSteps
  <2>2. /\ serving' \in [Served -> ServingRows] /\ widget' \in WidgetRows /\ PageKnows'
        /\ \A q \in Served : q # r => serving'[q] = serving[q]
        /\ serving'[r].op = "chunk" /\ serving'[r].at = "lock" /\ serving'[r].part = serving[r].part
    BY <1>1, <2>1, GoesOnKeeps, Zenon
  <2>3. Spares(r, 1) /\ (1 \in Sessions \ spoiled' => InOrder(1)')
    BY <1>1, DataSame, Zenon
  <2>4. Frames(r, 1)
    BY <1>1, <2>1, <2>2, Zenon DEF Frames
  <2>5. UploadTypes'
    BY <1>1, <2>1, <2>2, Zenon DEF UploadInv, UploadTypes
  <2>6. serving[r].part \in 1 .. Parts
    BY <1>1, Zenon DEF UploadInv, ServedSoundly, PartIsNext
  <2>7. ~Moves(r)' /\ ServedSoundly(r)'
    BY <2>2, <2>6, Zenon DEF ServedSoundly, RowIsHeld, PartIsNext, WrittenInOrder, Moved,
       SpoilsFirst, Writing, Moves, Moving, PutsBack
  <2>. QED  BY <2>2, <2>3, <2>4, <2>5, <2>7, UploadKeeps, Zenon
<1>. QED  BY <1>2, <1>3, Zenon DEF ExamineChunk

LEMMA DiesKeeps == ASSUME UploadInv, NEW r \in Served, ServingDies(r) PROVE UploadInv'
<1>1. /\ session' = session /\ incoming' = incoming /\ stored' = stored /\ spoiled' = spoiled
      /\ Replies(r, FALSE)
  BY Zenon DEF ServingDies
<1>. QED  BY <1>1, EndKeeps, Zenon

-----------------------------------------------------------------------------
(* Files. *)

LEMMA AppendFacts ==
  ASSUME NEW f \in Files, NEW i \in Nat
  PROVE  /\ Append(f, i) \in Files /\ Len(f) \in Nat /\ Len(Append(f, i)) = Len(f) + 1
         /\ Append(f, i)[Len(f) + 1] = i
         /\ \A j \in 1 .. Len(f) : Append(f, i)[j] = f[j]
BY SMT DEF Files

LEMMA Counting ==
  ASSUME NEW n \in Nat
  PROVE  LET g == [i \in 1 .. n |-> i] IN g \in Files /\ Len(g) = n /\ \A i \in 1 .. n : g[i] = i
BY SMT DEF Files

LEMMA SameFile ==
  ASSUME NEW f \in Files, NEW n \in Nat, Len(f) = n, \A i \in 1 .. n : f[i] = i
  PROVE  f = [i \in 1 .. n |-> i]
<1>. DEFINE g == [i \in 1 .. n |-> i]
<1>1. g \in Files /\ Len(g) = n /\ \A i \in 1 .. n : g[i] = i
  BY Counting
<1>. HIDE DEF g
<1>4. \A i \in 1 .. n : f[i] = g[i]
  BY <1>1, Zenon
<1>2. f \in Seq(Nat) /\ g \in Seq(Nat) /\ Len(f) = Len(g) /\ \A i \in 1 .. Len(f) : f[i] = g[i]
  <2>1. Len(f) = Len(g)
    BY <1>1, Zenon
  <2>2. 1 .. Len(f) = 1 .. n
    BY Zenon
  <2>. QED  BY <1>1, <1>4, <2>1, <2>2, Zenon DEF Files
<1>3. f = g
  BY <1>2, SeqEqual, Zenon
<1>. QED  BY <1>3 DEF g

LEMMA OrderedEmpty == Ordered(<<>>, 0)
<1>1. Len(<<>>) = 0 /\ <<>> \in Files
  BY SMT DEF Files
<1>2. \A i \in 1 .. 0 : <<>>[i] = i
  BY SMT
<1>3. <<>> = [i \in 1 .. 0 |-> i]
  BY <1>1, <1>2, SameFile
<1>4. Len(<<>>) >= 0
  BY <1>1, SMT
<1>. QED  BY <1>3, <1>4, Zenon DEF Ordered

LEMMA OrderedAppend ==
  ASSUME NEW f \in Files, NEW n \in Nat, Ordered(f, n)
  PROVE  Ordered(Append(f, n + 1), n + 1)
<1>. DEFINE g == Append(f, n + 1)
<1>1. n + 1 \in Nat
  BY SMT
<1>2. /\ g \in Files /\ Len(f) \in Nat /\ Len(g) = Len(f) + 1 /\ g[Len(f) + 1] = n + 1
      /\ \A j \in 1 .. Len(f) : g[j] = f[j]
  BY <1>1, AppendFacts
<1>3. Len(f) >= n /\ (Len(f) = n => f = [i \in 1 .. n |-> i])
  BY Zenon DEF Ordered
<1>. HIDE DEF g
<1>4. Len(g) >= n + 1
  BY <1>2, <1>3, SMT
<1>5. ASSUME Len(g) = n + 1 PROVE g = [i \in 1 .. (n + 1) |-> i]
  <2>1. Len(f) = n
    BY <1>2, <1>5, SMT
  <2>2. ASSUME NEW i \in 1 .. (n + 1) PROVE g[i] = i
    <3>1. CASE i = n + 1
      BY <1>2, <2>1, <3>1, Zenon
    <3>2. CASE i # n + 1
      <4>1. i \in 1 .. n
        BY <3>2, SMT
      <4>2. f[i] = i
        BY <1>3, <2>1, <4>1, Zenon
      <4>. QED  BY <1>2, <2>1, <4>1, <4>2, Zenon
    <3>. QED  BY <3>1, <3>2, Zenon
  <2>. QED  BY <1>1, <1>2, <1>5, <2>2, SameFile, Zenon
<1>6. Ordered(g, n + 1)
  BY <1>4, <1>5, Zenon DEF Ordered
<1>. QED  BY <1>6 DEF g

LEMMA OrderedLess ==
  ASSUME NEW f \in Files, NEW n \in Nat, Ordered(f, n + 1)
  PROVE  Ordered(f, n)
<1>1. Len(f) \in Nat /\ Len(f) >= n + 1
  BY SMT DEF Files, Ordered
<1>2. Len(f) >= n /\ Len(f) # n
  BY <1>1, SMT
<1>. QED  BY <1>2, Zenon DEF Ordered

LEMMA AppendIsFile ==
  ASSUME NEW f \in Files, NEW i \in Nat, i # 0
  PROVE  Append(f, i) # NoFile
<1>1. /\ Len(f) \in Nat /\ Len(Append(f, i)) = Len(f) + 1 /\ Append(f, i)[Len(f) + 1] = i
  BY AppendFacts
<1>2. Len(NoFile) = 1 /\ NoFile[1] = 0
  BY SMT DEF NoFile
<1>. DEFINE g == Append(f, i)
<1>3. SUFFICES ASSUME g = NoFile PROVE FALSE
  OBVIOUS
<1>4. Len(f) + 1 = 1
  BY <1>1, <1>2, <1>3, Zenon
<1>5. g[1] = i
  BY <1>1, <1>4, Zenon
<1>. QED  BY <1>2, <1>3, <1>5, Zenon

LEMMA AllIsFile == AllParts \in Files /\ Len(AllParts) = Parts /\ AllParts # NoFile /\ Ordered(AllParts, Parts)
<1>1. AllParts \in Files /\ Len(AllParts) = Parts /\ \A i \in 1 .. Parts : AllParts[i] = i
  BY Distinct, Counting DEF AllParts
<1>2. 1 \in 1 .. Parts /\ NoFile[1] = 0 /\ Parts >= Parts
  BY Distinct, SMT DEF NoFile
<1>3. AllParts[1] = 1
  BY <1>1, <1>2, Zenon
<1>4. AllParts # NoFile
  <2>1. SUFFICES ASSUME AllParts = NoFile PROVE FALSE
    OBVIOUS
  <2>2. NoFile[1] = 1
    BY <1>3, <2>1, Zenon
  <2>. QED  BY <1>2, <2>2, SMT
<1>5. Ordered(AllParts, Parts)
  BY <1>1, <1>2, Zenon DEF Ordered, AllParts
<1>. QED  BY <1>1, <1>4, <1>5

LEMMA OrderedAll ==
  ASSUME NEW f \in Files, Len(f) = Parts, Ordered(f, Parts)
  PROVE  f = AllParts
BY Zenon DEF Ordered, AllParts

LEMMA HeldIsFile ==
  ASSUME NEW f \in Files
  PROVE  Held(f) \in Files /\ (f # NoFile => Held(f) = f) /\ (f = NoFile => Held(f) = <<>>)
BY Distinct, Zenon DEF Held

LEMMA CutIsFile ==
  ASSUME NEW f \in Files, NEW n \in Nat
  PROVE  CutTo(f, n) \in Files
<1>1. CASE n < Len(f)
  <2>1. SubSeq(f, 1, n) \in Files
    BY <1>1, SMT DEF Files
  <2>. QED  BY <1>1, <2>1, Zenon DEF CutTo
<1>2. CASE ~(n < Len(f))
  BY <1>2, Zenon DEF CutTo
<1>. QED  BY <1>1, <1>2, Zenon

-----------------------------------------------------------------------------
(* Chunks. *)

LEMMA LockChunkKeeps ==
  ASSUME UploadInv, NEW r \in Served, NEW s \in Sessions, serving[r].id = s, LockChunk(r)
  PROVE  UploadInv'
<1>. DEFINE i == serving[r].part
            entry == session[s]
<1>1. /\ session' = session /\ incoming' = incoming /\ stored' = stored /\ spoiled' = spoiled
      /\ serving[r].op = "chunk" /\ locked[s] = Unlocked
  BY Zenon DEF LockChunk, Serving
<1>2. ASSUME NEW ok, Replies(r, ok) PROVE UploadInv'
  BY <1>1, <1>2, EndKeeps, Zenon
<1>3. CASE /\ StillExpected(entry, i) /\ locked' = [locked EXCEPT ![s] = r]
           /\ serving' = [serving EXCEPT ![r].at = "write", ![r].before = incoming[s]]
           /\ widget' = widget
  <2>. DEFINE w == [serving[r] EXCEPT !.at = "write", !.before = incoming[s]]
  <2>1. /\ serving[r] \in ServingRows /\ s \in Sessions /\ i \in 1 .. Parts
    BY <1>1, ServedRow, Zenon DEF UploadInv, ServedSoundly, PartIsNext
  <2>2. incoming[s] \in Files /\ "write" \in ServedSteps
    BY <2>1, SessionRow, Zenon DEF ServedSteps
  <2>3. w \in ServingRows
    BY <2>1, <2>2, Zenon DEF ServingRows
  <2>4. w.op = "chunk" /\ w.id = s /\ w.at = "write" /\ w.part = i
    BY <1>1, <2>1, SMT DEF ServingRows
  <2>5. serving' = [serving EXCEPT ![r] = w]
    <3>1. serving \in [Served -> ServingRows]
      BY Zenon DEF UploadInv, UploadTypes
    <3>. QED  BY <1>3, <3>1, Zenon
  <2>. HIDE DEF w
  <2>6. /\ serving' \in [Served -> ServingRows] /\ widget' \in WidgetRows /\ PageKnows'
        /\ serving'[r] = w /\ \A q \in Served : q # r => serving'[q] = serving[q]
    BY <1>1, <1>3, <2>3, <2>4, <2>5, RequestGoes, Zenon
  <2>7. locked \in [Sessions -> Served \cup {Unlocked}]
    BY Zenon DEF UploadInv, UploadTypes
  <2>8. locked' \in [Sessions -> Served \cup {Unlocked}] /\ locked'[s] = r
        /\ \A x \in Sessions : x # s => locked'[x] = locked[x]
    BY <1>3, <2>1, <2>7, Zenon
  <2>9. \A q \in Served : locked[s] # q
    BY <1>1, Distinct, Zenon
  <2>10. Frames(r, s)
    BY <1>1, <2>6, <2>8, <2>9, Zenon DEF Frames
  <2>11. Spares(r, s) /\ (s \in Sessions \ spoiled' => InOrder(s)')
    BY <1>1, DataSame, Zenon
  <2>12. UploadTypes'
    BY <1>1, <2>6, <2>8, Zenon DEF UploadInv, UploadTypes
  <2>13. i = entry.received + 1 /\ entry.status \notin {"gone", "completed"}
    BY <1>3, Zenon DEF StillExpected
  <2>14. /\ serving'[r].op = "chunk" /\ serving'[r].id = s /\ serving'[r].at = "write"
         /\ serving'[r].part = i
    BY <2>4, <2>6, Zenon
  <2>15. RowIsHeld(r)' /\ Moved(r)' /\ SpoilsFirst(r)' /\ WrittenInOrder(r)' /\ ~Moves(r)'
    BY <2>8, <2>14, Zenon DEF RowIsHeld, Moved, SpoilsFirst, WrittenInOrder, Moves, Moving, PutsBack
  <2>16. PartIsNext(r)'
    BY <1>1, <2>1, <2>13, <2>14, Zenon DEF PartIsNext
  <2>17. ServedSoundly(r)'
    BY <2>15, <2>16, Zenon DEF ServedSoundly
  <2>. QED  BY <2>6, <2>10, <2>11, <2>12, <2>15, <2>17, UploadKeeps, Zenon
<1>. QED  BY <1>2, <1>3, Zenon DEF LockChunk

LEMMA WritingPart ==
  ASSUME UploadInv, NEW r \in Served, Writing(r)
  PROVE  /\ serving[r].part \in 1 .. Parts /\ serving[r].part \in Nat /\ serving[r].part # 0
         /\ serving[r].part = session[serving[r].id].received + 1
         /\ session[serving[r].id].received \in Nat
         /\ session[serving[r].id].received # Parts
         /\ session[serving[r].id].status \notin {"gone", "completed"}
         /\ serving[r].id \in Sessions /\ locked[serving[r].id] = r
<1>. DEFINE s == serving[r].id
<1>1. s \in Sessions
  BY ServedRow
<1>2. session[s].received \in 0 .. Parts
  BY <1>1, SessionRow, Zenon
<1>3. /\ serving[r].part \in 1 .. Parts /\ serving[r].part = session[s].received + 1
      /\ session[s].status \notin {"gone", "completed"} /\ locked[s] = r
  BY Zenon DEF UploadInv, ServedSoundly, PartIsNext, RowIsHeld, Writing
<1>. HIDE DEF s
<1>4. serving[r].part \in Nat /\ serving[r].part # 0 /\ session[s].received \in Nat
      /\ session[s].received # Parts
  BY <1>2, <1>3, Distinct, SMT
<1>. QED  BY <1>1, <1>3, <1>4 DEF s

LEMMA AppendKeeps ==
  ASSUME UploadInv, NEW r \in Served, NEW s \in Sessions, serving[r].id = s, AppendChunk(r)
  PROVE  UploadInv'
<1>. DEFINE i == serving[r].part
            f == Held(incoming[s])
            n == session[s].received
<1>1. /\ serving[r].op = "chunk" /\ serving[r].at = "write"
      /\ incoming' = [incoming EXCEPT ![s] = Append(f, i)] /\ GoesOn(r, "save")
      /\ session' = session /\ stored' = stored /\ locked' = locked /\ widget' = widget
      /\ spoiled' = spoiled
  BY Zenon DEF AppendChunk, Serving
<1>2. Writing(r)
  BY <1>1, Zenon DEF Writing
<1>3. /\ i \in 1 .. Parts /\ i \in Nat /\ i # 0 /\ i = n + 1 /\ n \in Nat /\ n # Parts
      /\ session[s].status \notin {"gone", "completed"} /\ s \in Sessions /\ locked[s] = r
  BY <1>2, WritingPart
<1>4. incoming[s] \in Files /\ f \in Files
  BY <1>3, SessionRow, HeldIsFile, Zenon
<1>5. Append(f, i) \in Files /\ Append(f, i) # NoFile
  BY <1>3, <1>4, AppendFacts, AppendIsFile, Zenon
<1>6. s \notin spoiled => Ordered(f, n)
  <2>1. SUFFICES ASSUME s \notin spoiled PROVE Ordered(f, n)
    OBVIOUS
  <2>2. InOrder(s)
    BY <1>3, <2>1, Zenon DEF UploadInv
  <2>3. CASE incoming[s] # NoFile
    BY <1>4, <2>2, <2>3, HeldIsFile, Zenon DEF InOrder
  <2>4. CASE incoming[s] = NoFile
    <3>1. n = 0
      BY <1>3, <2>2, <2>4, Zenon DEF InOrder
    <3>2. f = <<>>
      BY <1>4, <2>4, HeldIsFile, Zenon
    <3>. QED  BY <3>1, <3>2, OrderedEmpty, Zenon
  <2>. QED  BY <2>3, <2>4, Zenon
<1>7. s \notin spoiled => Ordered(Append(f, i), n + 1)
  BY <1>3, <1>4, <1>6, OrderedAppend, Zenon
<1>8. "save" \in ServedSteps
  BY Zenon DEF ServedSteps
<1>9. /\ serving' \in [Served -> ServingRows] /\ widget' \in WidgetRows /\ PageKnows'
      /\ \A q \in Served : q # r => serving'[q] = serving[q]
      /\ serving'[r].op = "chunk" /\ serving'[r].id = s /\ serving'[r].at = "save"
      /\ serving'[r].part = i
  BY <1>1, <1>8, GoesOnKeeps, Zenon
<1>10. incoming \in [Sessions -> Files]
  BY Zenon DEF UploadInv, UploadTypes
<1>. HIDE DEF f
<1>11. incoming' \in [Sessions -> Files] /\ incoming'[s] = Append(f, i)
       /\ \A x \in Sessions : x # s => incoming'[x] = incoming[x]
  BY <1>1, <1>3, <1>5, <1>10, Zenon
<1>12. Frames(r, s)
  BY <1>1, <1>9, <1>11, Zenon DEF Frames
<1>13. Spares(r, s)
  BY <1>1, <1>2, WritingExcludes, Zenon DEF Spares
<1>14. UploadTypes'
  BY <1>1, <1>9, <1>11, Zenon DEF UploadInv, UploadTypes
<1>15. RowIsHeld(r)' /\ PartIsNext(r)' /\ Moved(r)' /\ SpoilsFirst(r)' /\ ~Moves(r)'
  BY <1>1, <1>3, <1>9, Zenon DEF RowIsHeld, PartIsNext, Moved, SpoilsFirst, Moves, Moving, PutsBack
<1>16. WrittenInOrder(r)'
  BY <1>1, <1>5, <1>7, <1>9, <1>11, Zenon DEF WrittenInOrder
<1>17. s \in Sessions \ spoiled' => InOrder(s)'
  <2>1. SUFFICES ASSUME s \notin spoiled PROVE InOrder(s)'
    BY <1>1, Zenon
  <2>2. Ordered(Append(f, i), n)
    BY <1>3, <1>5, <1>7, <2>1, OrderedLess, Zenon
  <2>3. Ordered(incoming'[s], session'[s].received) /\ incoming'[s] # NoFile
        /\ session'[s].status \notin {"gone", "completed"}
    BY <1>1, <1>3, <1>5, <1>11, <2>2, Zenon
  <2>. QED  BY <2>3, Zenon DEF InOrder
<1>18. ServedSoundly(r)'
  BY <1>15, <1>16, Zenon DEF ServedSoundly
<1>. QED  BY <1>9, <1>12, <1>13, <1>14, <1>15, <1>17, <1>18, UploadKeeps, Zenon

-----------------------------------------------------------------------------
(* Steps that change a row or a file of session s. *)

DataAt(s) ==
  /\ session' \in [Sessions -> UploadRows] /\ incoming' \in [Sessions -> Files]
  /\ stored' \in [Sessions -> Files]
  /\ \A x \in Sessions : x # s =>
       session'[x] = session[x] /\ incoming'[x] = incoming[x] /\ stored'[x] = stored[x]

LEMMA DataTypes ==
  UploadInv => /\ session \in [Sessions -> UploadRows] /\ incoming \in [Sessions -> Files]
               /\ stored \in [Sessions -> Files] /\ locked \in [Sessions -> Served \cup {Unlocked}]
               /\ serving \in [Served -> ServingRows]
BY Zenon DEF UploadInv, UploadTypes

\* The request replies.
LEMMA EndsAt ==
  ASSUME UploadInv, NEW r \in Served, NEW s \in Sessions, NEW ok, Replies(r, ok),
         spoiled \subseteq spoiled', DataAt(s), Spares(r, s), s \notin spoiled' => InOrder(s)'
  PROVE  UploadInv'
<1>1. /\ serving' \in [Served -> ServingRows] /\ locked' \in [Sessions -> Served \cup {Unlocked}]
      /\ widget' \in WidgetRows /\ PageKnows' /\ ~Moves(r)' /\ ServedSoundly(r)'
      /\ \A q \in Served : q # r =>
           serving'[q] = serving[q] /\ \A x \in Sessions : locked[x] = q => locked'[x] = q
  BY RepliesKeep, Zenon
<1>2. Frames(r, s)
  BY <1>1, Zenon DEF Frames, DataAt
<1>3. UploadTypes'
  BY <1>1, Zenon DEF DataAt, UploadTypes
<1>. QED  BY <1>1, <1>2, <1>3, UploadKeeps, Zenon

\* The request goes on, with or without the locks it has.
LEMMA GoesAt ==
  ASSUME UploadInv, NEW r \in Served, NEW s \in Sessions, serving[r].id = s,
         NEW step \in ServedSteps, GoesOn(r, step), widget' = widget,
         locked' \in [Sessions -> Served \cup {Unlocked}],
         \A q \in Served : q # r => \A x \in Sessions : locked[x] = q => locked'[x] = q,
         spoiled \subseteq spoiled', DataAt(s), Spares(r, s), s \notin spoiled' => InOrder(s)',
         ServedSoundly(r)',
         Moves(r)' => \A q \in Served :
           q # r /\ Moves(q) /\ serving[q].id = s => s \in spoiled'
  PROVE  UploadInv'
<1>1. /\ serving' \in [Served -> ServingRows] /\ widget' \in WidgetRows /\ PageKnows'
      /\ \A q \in Served : q # r => serving'[q] = serving[q]
      /\ serving'[r].id = s
  BY GoesOnKeeps, Zenon
<1>2. Frames(r, s)
  BY <1>1, Zenon DEF Frames, DataAt
<1>3. UploadTypes'
  BY <1>1, Zenon DEF DataAt, UploadTypes
<1>4. ASSUME Moves(r)'
      PROVE  \A q \in Served :
               q # r /\ Moves(q) /\ serving[q].id = serving'[r].id => serving[q].id \in spoiled'
  BY <1>1, <1>4, Zenon
<1>5. s \in Sessions \ spoiled' => InOrder(s)'
  BY Zenon
<1>. QED  BY <1>1, <1>2, <1>3, <1>4, <1>5, UploadKeeps, Zenon

LEMMA UnlockKeeps ==
  ASSUME UploadInv, NEW r \in Served, locked' = Unlock(r)
  PROVE  /\ locked' \in [Sessions -> Served \cup {Unlocked}]
         /\ \A q \in Served : q # r => \A x \in Sessions : locked[x] = q => locked'[x] = q
<1>1. locked' = [x \in Sessions |-> IF locked[x] = r THEN Unlocked ELSE locked[x]]
  BY Zenon DEF Unlock
<1>2. locked' \in [Sessions -> Served \cup {Unlocked}]
  BY <1>1, DataTypes, Zenon
<1>3. \A q \in Served : q # r => \A x \in Sessions : locked[x] = q => locked'[x] = q
  BY <1>1, Zenon
<1>. QED  BY <1>2, <1>3

LEMMA SaveChunkKeeps ==
  ASSUME UploadInv, NEW r \in Served, NEW s \in Sessions, serving[r].id = s, SaveChunk(r)
  PROVE  UploadInv'
<1>. DEFINE n == session[s].received
            entry == [status |-> "uploading", received |-> n + 1]
<1>1. /\ serving[r].op = "chunk" /\ serving[r].at = "save" /\ Replies(r, TRUE)
      /\ session' = [session EXCEPT ![s] = entry]
      /\ incoming' = incoming /\ stored' = stored /\ spoiled' = spoiled
  BY Zenon DEF SaveChunk, Serving
<1>2. Writing(r)
  BY <1>1, Zenon DEF Writing
<1>3. /\ n \in Nat /\ serving[r].part \in 1 .. Parts /\ serving[r].part = n + 1
  BY <1>2, WritingPart
<1>4. n + 1 \in 0 .. Parts
  BY <1>3, Distinct, SMT
<1>5. entry \in UploadRows
  <2>1. "uploading" \in UploadStates
    BY Zenon DEF UploadStates
  <2>. QED  BY <1>4, <2>1, Zenon DEF UploadRows
<1>6. entry.status = "uploading" /\ entry.received = n + 1
  BY SMT
<1>. HIDE DEF entry
<1>7. session' \in [Sessions -> UploadRows] /\ session'[s] = entry
      /\ \A x \in Sessions : x # s => session'[x] = session[x]
  <2>1. session \in [Sessions -> UploadRows] /\ session' = [session EXCEPT ![s] = entry]
    BY <1>1, DataTypes, Zenon
  <2>. QED  BY <1>5, <2>1, SMT
<1>8. DataAt(s)
  BY <1>1, <1>7, DataTypes, Zenon DEF DataAt
<1>9. Spares(r, s)
  BY <1>1, <1>2, WritingExcludes, Zenon DEF Spares
<1>10. ASSUME s \notin spoiled' PROVE InOrder(s)'
  <2>1. incoming[s] # NoFile /\ Ordered(incoming[s], n + 1)
    BY <1>1, <1>2, <1>10, Zenon DEF UploadInv, ServedSoundly, WrittenInOrder
  <2>2. /\ session'[s].status = "uploading" /\ incoming'[s] # NoFile
        /\ Ordered(incoming'[s], session'[s].received)
    BY <1>1, <1>6, <1>7, <2>1, Zenon
  <2>. QED  BY <2>2, Zenon DEF InOrder
<1>. QED  BY <1>1, <1>8, <1>9, <1>10, EndsAt, Zenon

LEMMA ChunkFailsKeeps ==
  ASSUME UploadInv, NEW r \in Served, NEW s \in Sessions, serving[r].id = s, ChunkFails(r)
  PROVE  UploadInv'
<1>1. /\ serving[r].op = "chunk" /\ GoesOn(r, "undo") /\ locked' = Unlock(r)
      /\ spoiled' = spoiled \cup {s} /\ widget' = widget
      /\ session' = session /\ incoming' = incoming /\ stored' = stored
  BY Zenon DEF ChunkFails
<1>2. /\ locked' \in [Sessions -> Served \cup {Unlocked}]
      /\ \A q \in Served : q # r => \A x \in Sessions : locked[x] = q => locked'[x] = q
  BY <1>1, UnlockKeeps
<1>3. "undo" \in ServedSteps
  BY Zenon DEF ServedSteps
<1>4. /\ serving'[r].op = "chunk" /\ serving'[r].id = s /\ serving'[r].at = "undo"
      /\ serving'[r].part = serving[r].part
  BY <1>1, <1>3, GoesOnKeeps, Zenon
<1>5. serving[r].part \in 1 .. Parts
  BY <1>1, Zenon DEF UploadInv, ServedSoundly, PartIsNext
<1>6. ~Moves(r)' /\ ServedSoundly(r)'
  BY <1>1, <1>4, <1>5, Zenon DEF ServedSoundly, RowIsHeld, PartIsNext, WrittenInOrder, Moved,
     SpoilsFirst, Writing, Moves, Moving, PutsBack
<1>7. spoiled \subseteq spoiled' /\ s \in spoiled'
  BY <1>1, Zenon
<1>8. Spares(r, s) /\ DataAt(s)
  BY <1>1, <1>7, DataSame, Zenon DEF DataAt
<1>. QED  BY <1>1, <1>2, <1>3, <1>6, <1>7, <1>8, GoesAt, Zenon

LEMMA UndoChunkKeeps ==
  ASSUME UploadInv, NEW r \in Served, NEW s \in Sessions, serving[r].id = s, UndoChunk(r)
  PROVE  UploadInv'
<1>. DEFINE f == IF incoming[s] = NoFile THEN incoming[s]
                 ELSE CutTo(incoming[s], Len(Held(serving[r].before)))
<1>1. /\ serving[r].op = "chunk" /\ serving[r].at = "undo" /\ Replies(r, FALSE)
      /\ incoming' = [incoming EXCEPT ![s] = f]
      /\ session' = session /\ stored' = stored /\ spoiled' = spoiled
  BY Zenon DEF UndoChunk, Serving
<1>2. s \in spoiled
  BY <1>1, Zenon DEF UploadInv, ServedSoundly, SpoilsFirst
<1>3. f \in Files
  <2>1. incoming[s] \in Files /\ serving[r].before \in Files
    BY SessionRow, ServedRow, Zenon
  <2>2. Held(serving[r].before) \in Files
    BY <2>1, HeldIsFile, Zenon
  <2>3. Len(Held(serving[r].before)) \in Nat
    BY <2>2, SMT DEF Files
  <2>. QED  BY <2>1, <2>3, CutIsFile, Zenon
<1>. HIDE DEF f
<1>4. incoming' \in [Sessions -> Files] /\ \A x \in Sessions : x # s => incoming'[x] = incoming[x]
  <2>1. incoming \in [Sessions -> Files] /\ incoming' = [incoming EXCEPT ![s] = f]
    BY <1>1, DataTypes, Zenon
  <2>. QED  BY <1>3, <2>1, SMT
<1>5. DataAt(s)
  BY <1>1, <1>4, DataTypes, Zenon DEF DataAt
<1>6. Spares(r, s)
  BY <1>1, <1>2, Zenon DEF Spares, UploadInv, ServedSoundly, PartIsNext
<1>. QED  BY <1>1, <1>2, <1>5, <1>6, EndsAt, Zenon

-----------------------------------------------------------------------------
(* Completions. *)

LEMMA CommitFailsKeeps ==
  ASSUME UploadInv, NEW r \in Served, NEW s \in Sessions, serving[r].id = s, CommitFails(r)
  PROVE  UploadInv'
<1>1. /\ serving[r].op = "complete" /\ serving[r].at = "save" /\ GoesOn(r, "undo")
      /\ locked' = Unlock(r) /\ spoiled' = spoiled /\ widget' = widget
      /\ session' = session /\ incoming' = incoming /\ stored' = stored
  BY Zenon DEF CommitFails, Serving
<1>2. /\ locked' \in [Sessions -> Served \cup {Unlocked}]
      /\ \A q \in Served : q # r => \A x \in Sessions : locked[x] = q => locked'[x] = q
  BY <1>1, UnlockKeeps
<1>3. "undo" \in ServedSteps
  BY Zenon DEF ServedSteps
<1>4. serving'[r].op = "complete" /\ serving'[r].id = s /\ serving'[r].at = "undo"
  BY <1>1, <1>3, GoesOnKeeps, Zenon
<1>5. Moves(r)
  BY <1>1, Zenon DEF Moves, Moving
<1>6. ServedSoundly(r)'
  <2>1. RowIsHeld(r)' /\ PartIsNext(r)' /\ WrittenInOrder(r)' /\ SpoilsFirst(r)'
    BY <1>4, Zenon DEF RowIsHeld, PartIsNext, WrittenInOrder, SpoilsFirst, Writing, Moving
  <2>2. Moved(r)
    BY Zenon DEF UploadInv, ServedSoundly
  <2>3. Moved(r)'
    BY <1>1, <1>4, <1>5, <2>2, Zenon DEF Moved, AllParts
  <2>. QED  BY <2>1, <2>3, Zenon DEF ServedSoundly
<1>7. \A q \in Served : q # r /\ Moves(q) /\ serving[q].id = s => s \in spoiled'
  BY <1>1, <1>5, Zenon DEF UploadInv, OneMoves
<1>8. spoiled \subseteq spoiled'
  BY <1>1, Zenon
<1>9. Spares(r, s) /\ (s \in Sessions \ spoiled' => InOrder(s)') /\ DataAt(s)
  BY <1>1, <1>8, DataSame, Zenon DEF DataAt
<1>. QED  BY <1>1, <1>2, <1>3, <1>6, <1>7, <1>8, <1>9, GoesAt, Zenon

LEMMA SaveCompleteKeeps ==
  ASSUME UploadInv, NEW r \in Served, NEW s \in Sessions, serving[r].id = s, SaveComplete(r)
  PROVE  UploadInv'
<1>. DEFINE entry == [session[s] EXCEPT !.status = "completed"]
<1>1. /\ serving[r].op = "complete" /\ serving[r].at = "save" /\ Replies(r, TRUE)
      /\ session' = [session EXCEPT ![s].status = "completed"]
      /\ incoming' = incoming /\ stored' = stored /\ spoiled' = spoiled
  BY Zenon DEF SaveComplete, Serving
<1>2. Moves(r) /\ Moving(r)
  BY <1>1, Zenon DEF Moves, Moving
<1>3. locked[s] = r
  BY <1>2, Zenon DEF UploadInv, ServedSoundly, RowIsHeld
<1>4. session' = [session EXCEPT ![s] = entry]
  BY <1>1, Zenon
<1>5. session[s] \in UploadRows
  BY SessionRow
<1>6. entry \in UploadRows
  <2>1. "completed" \in UploadStates
    BY Zenon DEF UploadStates
  <2>. QED  BY <1>5, <2>1, Zenon DEF UploadRows
<1>7. entry.status = "completed" /\ entry.received = session[s].received
  BY <1>5, SMT DEF UploadRows
<1>. HIDE DEF entry
<1>8. session' \in [Sessions -> UploadRows] /\ session'[s] = entry
      /\ \A x \in Sessions : x # s => session'[x] = session[x]
  <2>1. session \in [Sessions -> UploadRows]
    BY DataTypes, Zenon
  <2>. QED  BY <1>4, <1>6, <2>1, SMT
<1>9. DataAt(s)
  BY <1>1, <1>8, DataTypes, Zenon DEF DataAt
<1>10. Spares(r, s)
  <2>1. SUFFICES ASSUME NEW q \in Served, q # r, serving[q].id = s
                 PROVE  ~Writing(q) /\ (s \notin spoiled => ~Moves(q))
    BY <1>1, Zenon DEF Spares
  <2>2. ~Writing(q)
    BY <1>3, <2>1, LockExcludes, Zenon
  <2>. QED  BY <1>2, <2>1, <2>2, Zenon DEF UploadInv, OneMoves
<1>11. ASSUME s \notin spoiled' PROVE InOrder(s)'
  <2>1. /\ incoming[s] = NoFile /\ stored[s] = AllParts /\ session[s].received = Parts
    BY <1>1, <1>2, <1>11, Zenon DEF UploadInv, ServedSoundly, Moved
  <2>2. /\ session'[s].status = "completed" /\ incoming'[s] = NoFile /\ stored'[s] = AllParts
        /\ session'[s].received = Parts
    BY <1>1, <1>7, <1>8, <2>1, Zenon
  <2>. QED  BY <2>2, Zenon DEF InOrder, AllParts
<1>. QED  BY <1>1, <1>9, <1>10, <1>11, EndsAt, Zenon

LEMMA UndoCompleteKeeps ==
  ASSUME UploadInv, NEW r \in Served, NEW s \in Sessions, serving[r].id = s, UndoComplete(r)
  PROVE  UploadInv'
<1>1. /\ serving[r].op = "complete" /\ serving[r].at = "undo" /\ Replies(r, FALSE)
      /\ session' = session /\ spoiled' = spoiled
  BY Zenon DEF UndoComplete, Serving
<1>2. Moves(r)
  BY <1>1, Zenon DEF Moves, PutsBack
<1>3. CASE stored[s] = NoFile
  <2>1. incoming' = incoming /\ stored' = stored
    BY <1>3, Zenon DEF UndoComplete
  <2>. QED  BY <1>1, <2>1, EndKeeps, Zenon
<1>4. CASE stored[s] # NoFile
  <2>1. /\ incoming' = [incoming EXCEPT ![s] = stored[s]] /\ stored' = [stored EXCEPT ![s] = NoFile]
    BY <1>4, Zenon DEF UndoComplete
  <2>2. stored[s] \in Files /\ NoFile \in Files
    BY SessionRow, Distinct
  <2>3. incoming' \in [Sessions -> Files] /\ incoming'[s] = stored[s]
        /\ \A x \in Sessions : x # s => incoming'[x] = incoming[x]
    <3>1. incoming \in [Sessions -> Files]
      BY DataTypes, Zenon
    <3>. QED  BY <2>1, <2>2, <3>1, SMT
  <2>4. stored' \in [Sessions -> Files] /\ \A x \in Sessions : x # s => stored'[x] = stored[x]
    <3>1. stored \in [Sessions -> Files]
      BY DataTypes, Zenon
    <3>. QED  BY <2>1, <2>2, <3>1, SMT
  <2>5. DataAt(s)
    BY <1>1, <2>3, <2>4, DataTypes, Zenon DEF DataAt
  <2>6. s \notin spoiled => /\ stored[s] = AllParts /\ session[s].received = Parts
                            /\ session[s].status \notin {"gone", "completed"}
    BY <1>2, Zenon DEF UploadInv, ServedSoundly, Moved
  <2>7. Spares(r, s)
    <3>1. SUFFICES ASSUME NEW q \in Served, q # r, serving[q].id = s
                   PROVE  /\ Writing(q) => session[s].status \notin {"gone", "completed"}
                          /\ s \notin spoiled => ~Writing(q) /\ ~Moves(q)
      BY <1>1, Zenon DEF Spares
    <3>2. Writing(q) => session[s].status \notin {"gone", "completed"} /\ session[s].received # Parts
      BY <3>1, WritingPart, Zenon
    <3>3. s \notin spoiled => ~Moves(q)
      BY <1>2, <3>1, Zenon DEF UploadInv, OneMoves
    <3>. QED  BY <2>6, <3>2, <3>3, Zenon
  <2>8. ASSUME s \notin spoiled' PROVE InOrder(s)'
    <3>1. /\ incoming'[s] = AllParts /\ incoming'[s] # NoFile /\ Ordered(AllParts, Parts)
          /\ session'[s].received = Parts /\ session'[s].status \notin {"gone", "completed"}
      BY <1>1, <2>3, <2>6, <2>8, AllIsFile, Zenon
    <3>2. Ordered(incoming'[s], session'[s].received)
      BY <3>1, Zenon
    <3>. QED  BY <3>1, <3>2, Zenon DEF InOrder
  <2>9. spoiled \subseteq spoiled'
    BY <1>1, Zenon
  <2>. QED  BY <1>1, <2>5, <2>7, <2>8, <2>9, EndsAt, Zenon
<1>. QED  BY <1>3, <1>4, Zenon

LEMMA LockCompleteKeeps ==
  ASSUME UploadInv, NEW r \in Served, NEW s \in Sessions, serving[r].id = s, LockComplete(r)
  PROVE  UploadInv'
<1>. DEFINE entry == session[s]
<1>1. serving[r].op = "complete" /\ locked[s] = Unlocked /\ spoiled' = spoiled
  BY Zenon DEF LockComplete, Serving
<1>2. spoiled \subseteq spoiled'
  BY <1>1, Zenon
<1>3. \A q \in Served : serving[q].id = s => ~Writing(q) /\ ~Moving(q)
  <2>1. \A q \in Served : locked[s] # q
    BY <1>1, Distinct, Zenon
  <2>. QED  BY <2>1, LockExcludes, Zenon
<1>4. CASE \E ok \in BOOLEAN : Replies(r, ok) /\ UNCHANGED <<session, incoming, stored>>
  BY <1>1, <1>4, EndKeeps, Zenon
<1>5. CASE /\ entry.status \notin {"gone", "completed"} /\ entry.received = Parts
           /\ incoming[s] # NoFile /\ RightSize(incoming[s])
           /\ stored' = [stored EXCEPT ![s] = incoming[s]]
           /\ incoming' = [incoming EXCEPT ![s] = NoFile]
           /\ locked' = [locked EXCEPT ![s] = r] /\ GoesOn(r, "save")
           /\ UNCHANGED <<session, widget>>
  <2>1. session' = session /\ widget' = widget /\ "save" \in ServedSteps
    BY <1>5, Zenon DEF ServedSteps
  <2>2. incoming[s] \in Files /\ NoFile \in Files
    BY SessionRow, Distinct
  <2>3. stored' \in [Sessions -> Files] /\ stored'[s] = incoming[s]
        /\ \A x \in Sessions : x # s => stored'[x] = stored[x]
    <3>1. stored \in [Sessions -> Files] /\ stored' = [stored EXCEPT ![s] = incoming[s]]
      BY <1>5, DataTypes, Zenon
    <3>. QED  BY <2>2, <3>1, SMT
  <2>4. incoming' \in [Sessions -> Files] /\ incoming'[s] = NoFile
        /\ \A x \in Sessions : x # s => incoming'[x] = incoming[x]
    <3>1. incoming \in [Sessions -> Files] /\ incoming' = [incoming EXCEPT ![s] = NoFile]
      BY <1>5, DataTypes, Zenon
    <3>. QED  BY <2>2, <3>1, SMT
  <2>5. locked' \in [Sessions -> Served \cup {Unlocked}] /\ locked'[s] = r
        /\ \A x \in Sessions : x # s => locked'[x] = locked[x]
    <3>1. locked \in [Sessions -> Served \cup {Unlocked}] /\ locked' = [locked EXCEPT ![s] = r]
      BY <1>5, DataTypes, Zenon
    <3>. QED  BY <3>1, SMT
  <2>6. \A q \in Served : q # r => \A x \in Sessions : locked[x] = q => locked'[x] = q
    BY <1>1, <2>5, Distinct, Zenon
  <2>7. DataAt(s)
    BY <2>1, <2>3, <2>4, DataTypes, Zenon DEF DataAt
  <2>8. /\ serving'[r].op = "complete" /\ serving'[r].id = s /\ serving'[r].at = "save"
    BY <1>1, <1>5, <2>1, GoesOnKeeps, Zenon
  <2>9. ASSUME s \notin spoiled PROVE \A q \in Served : serving[q].id = s => ~Moves(q)
    BY <1>5, <2>9, Zenon DEF UploadInv, ServedSoundly, Moved
  <2>10. ASSUME s \notin spoiled PROVE incoming[s] = AllParts
    <3>1. Ordered(incoming[s], Parts)
      BY <1>5, <2>10, Zenon DEF UploadInv, InOrder
    <3>. QED  BY <1>5, <2>2, <3>1, OrderedAll, Zenon DEF RightSize
  <2>11. Spares(r, s)
    BY <1>1, <1>3, <2>9, Zenon DEF Spares
  <2>12. s \notin spoiled' => InOrder(s)'
    BY <1>1, <1>5, <2>1, <2>3, <2>4, <2>10, Zenon DEF InOrder, AllParts
  <2>13. RowIsHeld(r)' /\ PartIsNext(r)' /\ WrittenInOrder(r)' /\ SpoilsFirst(r)'
    BY <2>5, <2>8, Zenon DEF RowIsHeld, PartIsNext, WrittenInOrder, SpoilsFirst, Writing, Moving
  <2>14. Moved(r)'
    BY <1>1, <1>5, <2>1, <2>3, <2>4, <2>8, <2>10, Zenon DEF Moved, AllParts
  <2>15. ServedSoundly(r)'
    BY <2>13, <2>14, Zenon DEF ServedSoundly
  <2>16. \A q \in Served : q # r /\ Moves(q) /\ serving[q].id = s => s \in spoiled'
    BY <1>1, <2>9, Zenon
  <2>17. GoesOn(r, "save")
    BY <1>5, Zenon
  <2>. QED  BY <1>2, <2>1, <2>5, <2>6, <2>7, <2>11, <2>12, <2>15, <2>16, <2>17, GoesAt, Zenon
<1>6. CASE /\ entry.status \notin {"gone", "completed"} /\ entry.received = Parts
           /\ session' = [session EXCEPT ![s].status = "failed"]
           /\ Replies(r, FALSE) /\ UNCHANGED <<incoming, stored>>
  <2>. DEFINE new == [session[s] EXCEPT !.status = "failed"]
  <2>1. incoming' = incoming /\ stored' = stored /\ session' = [session EXCEPT ![s] = new]
    BY <1>6, Zenon
  <2>2. session[s] \in UploadRows /\ "failed" \in UploadStates
    BY SessionRow, Zenon DEF UploadStates
  <2>3. new \in UploadRows
    BY <2>2, Zenon DEF UploadRows
  <2>4. new.status = "failed" /\ new.received = session[s].received
    BY <2>2, SMT DEF UploadRows
  <2>. HIDE DEF new
  <2>5. session' \in [Sessions -> UploadRows] /\ session'[s] = new
        /\ \A x \in Sessions : x # s => session'[x] = session[x]
    <3>1. session \in [Sessions -> UploadRows] /\ session' = [session EXCEPT ![s] = new]
      BY <2>1, DataTypes, Zenon
    <3>. QED  BY <2>3, <3>1, SMT
  <2>6. DataAt(s)
    BY <2>1, <2>5, DataTypes, Zenon DEF DataAt
  <2>7. session'[s].status \notin {"gone", "completed"} /\ session'[s].received = session[s].received
    BY <2>4, <2>5, Zenon
  <2>8. Spares(r, s)
    BY <1>3, <2>1, <2>7, Zenon DEF Spares
  <2>9. ASSUME s \notin spoiled' PROVE InOrder(s)'
    <3>1. InOrder(s) /\ incoming'[s] = incoming[s] /\ stored'[s] = stored[s]
      BY <1>1, <2>1, <2>9, Zenon DEF UploadInv
    <3>. QED  BY <2>7, <3>1, Zenon DEF InOrder, AllParts
  <2>10. Replies(r, FALSE)
    BY <1>6, Zenon
  <2>. QED  BY <1>2, <2>6, <2>8, <2>9, <2>10, EndsAt, Zenon
<1>7. \/ \E ok \in BOOLEAN : Replies(r, ok) /\ UNCHANGED <<session, incoming, stored>>
      \/ /\ entry.status \notin {"gone", "completed"} /\ entry.received = Parts
         /\ incoming[s] # NoFile /\ RightSize(incoming[s])
         /\ stored' = [stored EXCEPT ![s] = incoming[s]]
         /\ incoming' = [incoming EXCEPT ![s] = NoFile]
         /\ locked' = [locked EXCEPT ![s] = r] /\ GoesOn(r, "save")
         /\ UNCHANGED <<session, widget>>
      \/ /\ entry.status \notin {"gone", "completed"} /\ entry.received = Parts
         /\ session' = [session EXCEPT ![s].status = "failed"]
         /\ Replies(r, FALSE) /\ UNCHANGED <<incoming, stored>>
  BY Zenon DEF LockComplete
<1>. QED  BY <1>4, <1>5, <1>6, <1>7, Zenon

-----------------------------------------------------------------------------
(* The Delete button and the sweep. *)

LEMMA RemoveFilesKeeps ==
  ASSUME UploadInv, NEW r \in Served, NEW s \in Sessions, serving[r].id = s, RemoveFiles(r)
  PROVE  UploadInv'
<1>1. /\ serving[r].op \in {"delete", "sweep"} /\ GoesOn(r, "row") /\ spoiled' = spoiled \cup {s}
      /\ incoming' = [incoming EXCEPT ![s] = NoFile]
      /\ stored' = (IF serving[r].final THEN [stored EXCEPT ![s] = NoFile] ELSE stored)
      /\ session' = session /\ locked' = locked /\ widget' = widget
  BY Zenon DEF RemoveFiles
<1>2. spoiled \subseteq spoiled' /\ s \in spoiled' /\ NoFile \in Files /\ "row" \in ServedSteps
  BY <1>1, Distinct, Zenon DEF ServedSteps
<1>3. incoming' \in [Sessions -> Files] /\ \A x \in Sessions : x # s => incoming'[x] = incoming[x]
  <2>1. incoming' = [incoming EXCEPT ![s] = NoFile] /\ incoming \in [Sessions -> Files]
    BY <1>1, DataTypes, Zenon
  <2>. QED  BY <1>2, <2>1, SMT
<1>4. stored' \in [Sessions -> Files] /\ \A x \in Sessions : x # s => stored'[x] = stored[x]
  <2>1. CASE stored' = stored
    BY <2>1, DataTypes, Zenon
  <2>2. CASE stored' = [stored EXCEPT ![s] = NoFile]
    <3>1. stored \in [Sessions -> Files]
      BY DataTypes, Zenon
    <3>. QED  BY <1>2, <2>2, <3>1, SMT
  <2>. QED  BY <1>1, <2>1, <2>2, Zenon
<1>5. DataAt(s)
  BY <1>1, <1>3, <1>4, DataTypes, Zenon DEF DataAt
<1>6. Spares(r, s)
  BY <1>1, <1>2, Zenon DEF Spares, UploadInv, ServedSoundly, PartIsNext
<1>7. /\ serving'[r].op \in {"delete", "sweep"} /\ serving'[r].id = s /\ serving'[r].at = "row"
  BY <1>1, <1>2, GoesOnKeeps, Zenon
<1>8. ServedSoundly(r)' /\ ~Moves(r)'
  BY <1>2, <1>7, Zenon DEF ServedSoundly, RowIsHeld, PartIsNext, WrittenInOrder, Moved, SpoilsFirst,
     Writing, Moves, Moving, PutsBack
<1>9. locked' \in [Sessions -> Served \cup {Unlocked}]
      /\ \A q \in Served : q # r => \A x \in Sessions : locked[x] = q => locked'[x] = q
  BY <1>1, DataTypes, Zenon
<1>. QED  BY <1>1, <1>2, <1>5, <1>6, <1>8, <1>9, GoesAt, Zenon

LEMMA RemoveRowKeeps ==
  ASSUME UploadInv, NEW r \in Served, NEW s \in Sessions, serving[r].id = s, RemoveRow(r)
  PROVE  UploadInv'
<1>1. /\ serving[r].op \in {"delete", "sweep"} /\ serving[r].at = "row" /\ locked[s] = Unlocked
      /\ session' = [session EXCEPT ![s] = Gone] /\ Replies(r, TRUE)
      /\ incoming' = incoming /\ stored' = stored /\ spoiled' = spoiled
  BY Zenon DEF RemoveRow
<1>2. s \in spoiled /\ spoiled \subseteq spoiled'
  BY <1>1, Zenon DEF UploadInv, ServedSoundly, SpoilsFirst
<1>3. Gone \in UploadRows
  <2>1. "gone" \in UploadStates /\ 0 \in 0 .. Parts
    BY Distinct, SMT DEF UploadStates
  <2>. QED  BY <2>1, Zenon DEF Gone, UploadRows
<1>4. session' \in [Sessions -> UploadRows] /\ \A x \in Sessions : x # s => session'[x] = session[x]
  <2>1. session \in [Sessions -> UploadRows] /\ session' = [session EXCEPT ![s] = Gone]
    BY <1>1, DataTypes, Zenon
  <2>. QED  BY <1>3, <2>1, SMT
<1>5. DataAt(s)
  BY <1>1, <1>4, DataTypes, Zenon DEF DataAt
<1>6. Spares(r, s)
  <2>1. \A q \in Served : locked[s] # q
    BY <1>1, Distinct, Zenon
  <2>2. \A q \in Served : serving[q].id = s => ~Writing(q)
    BY <2>1, LockExcludes, Zenon
  <2>. QED  BY <1>1, <1>2, <2>2, Zenon DEF Spares
<1>7. s \in spoiled'
  BY <1>2, Zenon
<1>. QED  BY <1>1, <1>2, <1>5, <1>6, <1>7, EndsAt, Zenon

-----------------------------------------------------------------------------
(* Every step. *)

LEMMA UploadStarts == UploadInit => UploadInv
<1>. SUFFICES ASSUME UploadInit PROVE UploadInv
  OBVIOUS
<1>1. /\ session = [s \in Sessions |-> Gone]
      /\ incoming = [s \in Sessions |-> NoFile] /\ stored = [s \in Sessions |-> NoFile]
      /\ locked = [s \in Sessions |-> Unlocked]
      /\ serving = [r \in Served |-> NotServing] /\ widget = Resting
  BY Zenon DEF UploadInit
<1>2. Gone \in UploadRows /\ Gone.status = "gone" /\ Gone.received = 0
  <2>1. "gone" \in UploadStates /\ 0 \in 0 .. Parts
    BY Distinct, SMT DEF UploadStates
  <2>2. Gone.status = "gone" /\ Gone.received = 0
    BY SMT DEF Gone
  <2>. QED  BY <2>1, <2>2, Zenon DEF Gone, UploadRows
<1>3. UploadTypes
  BY <1>1, <1>2, Distinct, NotServingRow, RestingRow, Zenon DEF UploadTypes
<1>4. PageKnows
  BY <1>1, RestingRow, Zenon DEF PageKnows
<1>5. \A r \in Served : serving[r].op = "none"
  BY <1>1, NotServingRow, Zenon
<1>6. OneMoves /\ \A r \in Served : ServedSoundly(r)
  BY <1>5, Zenon DEF OneMoves, ServedSoundly, RowIsHeld, PartIsNext, WrittenInOrder, Moved,
     SpoilsFirst, Writing, Moves, Moving, PutsBack
<1>7. \A s \in Sessions : session[s].status = "gone" /\ session[s].received = 0 /\ incoming[s] = NoFile
  BY <1>1, <1>2, Zenon
<1>8. \A s \in Sessions \ spoiled : InOrder(s)
  BY <1>7, Zenon DEF InOrder
<1>. QED  BY <1>3, <1>4, <1>6, <1>8, Zenon DEF UploadInv

\* One request's step.
LEMMA RequestStep ==
  ASSUME UploadInv, NEW r \in Served,
         \/ Ask(r) \/ ExamineChunk(r) \/ LockChunk(r) \/ AppendChunk(r)
         \/ SaveChunk(r) \/ ChunkFails(r) \/ UndoChunk(r)
         \/ LockComplete(r) \/ SaveComplete(r) \/ CommitFails(r)
         \/ UndoComplete(r) \/ ServingDies(r) \/ RemoveFiles(r) \/ RemoveRow(r)
         \/ \E s \in Sessions : AskDelete(r, s) \/ AskSweep(r, s)
  PROVE  UploadInv'
<1>1. PICK s \in Sessions : serving[r].id = s
  BY ServedRow, Zenon
<1>2. CASE Ask(r) \/ ExamineChunk(r) \/ ServingDies(r)
  BY <1>2, AskUploadKeeps, ExamineKeeps, DiesKeeps, Zenon
<1>3. CASE LockChunk(r) \/ AppendChunk(r) \/ SaveChunk(r) \/ ChunkFails(r) \/ UndoChunk(r)
  BY <1>1, <1>3, LockChunkKeeps, AppendKeeps, SaveChunkKeeps, ChunkFailsKeeps, UndoChunkKeeps, Zenon
<1>4. CASE LockComplete(r) \/ SaveComplete(r) \/ CommitFails(r) \/ UndoComplete(r)
  BY <1>1, <1>4, LockCompleteKeeps, SaveCompleteKeeps, CommitFailsKeeps, UndoCompleteKeeps, Zenon
<1>5. CASE RemoveFiles(r) \/ RemoveRow(r)
  BY <1>1, <1>5, RemoveFilesKeeps, RemoveRowKeeps, Zenon
<1>6. CASE \E x \in Sessions : AskDelete(r, x) \/ AskSweep(r, x)
  BY <1>6, RemovalKeeps, Zenon
<1>. QED  BY <1>2, <1>3, <1>4, <1>5, <1>6, Zenon

LEMMA UploadStep == UploadInv /\ [UploadNext]_uploadVars => UploadInv'
<1>. SUFFICES ASSUME UploadInv, [UploadNext]_uploadVars PROVE UploadInv'
  OBVIOUS
<1>1. CASE UNCHANGED uploadVars
  <2>1. UNCHANGED <<session, incoming, stored, locked, serving, widget, deleted, spoiled, failures>>
    BY <1>1, Zenon DEF uploadVars
  <2>2. UploadTypes' /\ PageKnows'
    BY <2>1, Zenon DEF UploadInv, UploadTypes, PageKnows
  <2>3. OneMoves' /\ \A s \in Sessions \ spoiled' : InOrder(s)'
    BY <2>1, Zenon DEF UploadInv, OneMoves, Moves, Moving, PutsBack, InOrder, AllParts
  <2>4. \A r \in Served : ServedSoundly(r)'
    BY <2>1, Zenon DEF UploadInv, ServedSoundly, RowIsHeld, PartIsNext, WrittenInOrder, Moved, SpoilsFirst,
       Writing, Moves, Moving, PutsBack, AllParts
  <2>. QED  BY <2>2, <2>3, <2>4, Zenon DEF UploadInv
<1>2. CASE AnswerLost
  BY <1>2, AnswerLostKeeps
<1>3. CASE \E s \in Sessions : StartUpload(s)
  BY <1>3, StartKeeps
<1>4. ASSUME NEW r \in Served,
             \/ Ask(r) \/ ExamineChunk(r) \/ LockChunk(r) \/ AppendChunk(r)
             \/ SaveChunk(r) \/ ChunkFails(r) \/ UndoChunk(r)
             \/ LockComplete(r) \/ SaveComplete(r) \/ CommitFails(r)
             \/ UndoComplete(r) \/ ServingDies(r) \/ RemoveFiles(r) \/ RemoveRow(r)
             \/ \E s \in Sessions : AskDelete(r, s) \/ AskSweep(r, s)
      PROVE  UploadInv'
  BY <1>4, RequestStep
<1>. QED  BY <1>1, <1>2, <1>3, <1>4, Zenon DEF UploadNext

\* However many requests are served at the same time, are repeated, unanswered, cut
\* short by a death or follow a write that failed, the file of a completed upload has
\* every chunk once and in order; an upload whose commit failed under a second attempt
\* or whose files were removed under a request is aside (_write_chunk,
\* upload_complete, release_delete and cleanup_uploads).
THEOREM CompletedUploadsAreWhole == UploadSpec => []CompletedIsWhole
<1>1. UploadInv => CompletedIsWhole
  BY Zenon DEF UploadInv, InOrder, CompletedIsWhole
<1>. QED  BY <1>1, UploadStarts, UploadStep, PTL DEF UploadSpec

\* The widget sends a chunk at most MAX_RETRIES_PER_CHUNK times.
UploadWithin ==
  /\ widget.tries \in 0 .. MaxAttempts
  /\ deleted \subseteq Sessions /\ spoiled \subseteq Sessions /\ failures \in 0 .. MaxFailures

LEMMA TriesWithin ==
  ASSUME UploadInv, UploadWithin, NEW op,
         widget' = AfterError(op) \/ widget' = AfterAnswer(op)
  PROVE  widget'.tries \in 0 .. MaxAttempts
<1>0. /\ widget \in WidgetRows /\ widget.tries \in 0 .. MaxAttempts /\ MaxAttempts \in Nat
      /\ 0 \in 0 .. MaxAttempts
  <2>1. MaxAttempts \in Nat /\ 0 \in 0 .. MaxAttempts
    BY UploadAssumption, SMT
  <2>. QED  BY <2>1, Zenon DEF UploadInv, UploadTypes, UploadWithin
<1>1. Resting.tries = 0
  BY SMT DEF Resting
<1>2. AfterError(op).tries \in 0 .. MaxAttempts
  <2>1. CASE op = "chunk" /\ widget.tries + 1 < MaxAttempts
    <3>1. AfterError(op) = [widget EXCEPT !.step = "send", !.waits = NoAttempt, !.tries = @ + 1]
      BY <2>1, Zenon DEF AfterError
    <3>2. AfterError(op).tries = widget.tries + 1
      BY <1>0, <3>1, SMT DEF WidgetRows
    <3>. QED  BY <1>0, <2>1, <3>2, SMT
  <2>2. CASE ~(op = "chunk" /\ widget.tries + 1 < MaxAttempts)
    BY <1>0, <1>1, <2>2, Zenon DEF AfterError
  <2>. QED  BY <2>1, <2>2, Zenon
<1>3. AfterAnswer(op).tries \in 0 .. MaxAttempts
  <2>1. CASE op = "complete"
    BY <1>0, <1>1, <2>1, Zenon DEF AfterAnswer
  <2>2. CASE op # "complete"
    <3>1. AfterAnswer(op).tries = 0
      BY <1>0, <2>2, SMT DEF AfterAnswer, WidgetRows
    <3>. QED  BY <1>0, <3>1
  <2>. QED  BY <2>1, <2>2
<1>. QED  BY <1>2, <1>3, Zenon

LEMMA RequestWithin ==
  ASSUME UploadInv, UploadWithin, NEW r \in Served,
         \/ Ask(r) \/ ExamineChunk(r) \/ LockChunk(r) \/ AppendChunk(r)
         \/ SaveChunk(r) \/ ChunkFails(r) \/ UndoChunk(r)
         \/ LockComplete(r) \/ SaveComplete(r) \/ CommitFails(r)
         \/ UndoComplete(r) \/ ServingDies(r) \/ RemoveFiles(r) \/ RemoveRow(r)
         \/ \E s \in Sessions : AskDelete(r, s) \/ AskSweep(r, s)
  PROVE  UploadWithin'
<1>0. /\ widget \in WidgetRows /\ widget.tries \in 0 .. MaxAttempts
      /\ deleted \subseteq Sessions /\ spoiled \subseteq Sessions
      /\ failures \in 0 .. MaxFailures /\ MaxFailures \in Nat
      /\ serving[r].id \in Sessions
  <2>1. serving[r].id \in Sessions
    BY ServedRow, Zenon
  <2>. QED  BY <2>1, FailuresCapped, Zenon DEF UploadInv, UploadTypes, UploadWithin
<1>1. widget'.tries \in 0 .. MaxAttempts
  <2>1. \/ widget' = widget \/ Ask(r)
        \/ \E ok : Replies(r, ok)
    BY Zenon DEF ExamineChunk, LockChunk, AppendChunk, SaveChunk, ChunkFails, UndoChunk,
       LockComplete, SaveComplete, CommitFails, UndoComplete, ServingDies, RemoveFiles, RemoveRow,
       AskDelete, AskSweep
  <2>2. CASE widget' = widget
    BY <1>0, <2>2, Zenon
  <2>3. CASE Ask(r)
    <3>1. widget' = [widget EXCEPT !.step = "wait", !.waits = r]
      BY <2>3, Zenon DEF Ask
    <3>2. widget'.tries = widget.tries
      BY <1>0, <3>1, SMT DEF WidgetRows
    <3>. QED  BY <1>0, <3>2
  <2>4. ASSUME NEW ok, Replies(r, ok) PROVE widget'.tries \in 0 .. MaxAttempts
    <3>1. \/ widget' = widget \/ widget' = AfterAnswer(serving[r].op)
          \/ widget' = AfterError(serving[r].op)
      BY <2>4, Zenon DEF Replies
    <3>. QED  BY <1>0, <3>1, TriesWithin, Zenon
  <2>. QED  BY <2>1, <2>2, <2>3, <2>4, Zenon
<1>2. failures' = failures \/ (failures < MaxFailures /\ failures' = failures + 1)
  BY Zenon DEF Ask, ExamineChunk, LockChunk, AppendChunk, SaveChunk, ChunkFails, UndoChunk,
     LockComplete, SaveComplete, CommitFails, UndoComplete, ServingDies, RemoveFiles, RemoveRow,
     AskDelete, AskSweep
<1>3. failures' \in 0 .. MaxFailures
  BY <1>0, <1>2, OneMore, Zenon
<1>4. spoiled' = spoiled \/ spoiled' = spoiled \cup {serving[r].id}
  BY Zenon DEF Ask, ExamineChunk, LockChunk, AppendChunk, SaveChunk, ChunkFails, UndoChunk,
     LockComplete, SaveComplete, CommitFails, UndoComplete, ServingDies, RemoveFiles, RemoveRow,
     AskDelete, AskSweep
<1>5. deleted' = deleted \/ deleted' = deleted \cup {serving[r].id}
  BY Zenon DEF Ask, ExamineChunk, LockChunk, AppendChunk, SaveChunk, ChunkFails, UndoChunk,
     LockComplete, SaveComplete, CommitFails, UndoComplete, ServingDies, RemoveFiles, RemoveRow,
     AskDelete, AskSweep
<1>6. deleted' \subseteq Sessions /\ spoiled' \subseteq Sessions
  BY <1>0, <1>4, <1>5, Zenon
<1>. QED  BY <1>1, <1>3, <1>6, Zenon DEF UploadWithin

\* However many requests are served at the same time, repeated or cut short: a row never
\* counts more chunks than its file has, a chunk is sent at most MAX_RETRIES_PER_CHUNK
\* times, and a row is locked by a request that is being served or by none.
THEOREM UploadTypeCorrect == UploadSpec => []UploadTypeOK
<1>1. UploadInit => UploadWithin
  <2>. SUFFICES ASSUME UploadInit PROVE UploadWithin
    OBVIOUS
  <2>1. widget.tries = 0
    BY SMT DEF UploadInit, Resting
  <2>2. 0 \in 0 .. MaxAttempts /\ 0 \in 0 .. MaxFailures
    BY UploadAssumption, FailuresCapped, SMT
  <2>. QED  BY <2>1, <2>2, Zenon DEF UploadInit, UploadWithin
<1>2. UploadInv /\ UploadWithin /\ [UploadNext]_uploadVars => UploadWithin'
  <2>. SUFFICES ASSUME UploadInv, UploadWithin, [UploadNext]_uploadVars PROVE UploadWithin'
    OBVIOUS
  <2>0. /\ failures \in 0 .. MaxFailures /\ MaxFailures \in Nat
        /\ deleted \subseteq Sessions /\ spoiled \subseteq Sessions
    BY FailuresCapped, Zenon DEF UploadWithin
  <2>1. CASE UNCHANGED uploadVars
    BY <2>1, Zenon DEF UploadWithin, uploadVars
  <2>2. CASE AnswerLost
    <3>1. /\ widget' = AfterError(serving[widget.waits].op)
          /\ failures < MaxFailures /\ failures' = failures + 1
          /\ deleted' = deleted /\ spoiled' = spoiled
      BY <2>2, Zenon DEF AnswerLost
    <3>2. widget'.tries \in 0 .. MaxAttempts
      BY <3>1, TriesWithin, Zenon
    <3>3. failures' \in 0 .. MaxFailures
      BY <2>0, <3>1, OneMore, Zenon
    <3>. QED  BY <2>0, <3>1, <3>2, <3>3, Zenon DEF UploadWithin
  <2>3. ASSUME NEW s \in Sessions, StartUpload(s) PROVE UploadWithin'
    <3>1. /\ widget' = [Resting EXCEPT !.step = "send", !.id = s]
          /\ failures' = failures /\ deleted' = deleted /\ spoiled' = spoiled
      BY <2>3, Zenon DEF StartUpload
    <3>2. widget'.tries = 0
      BY <3>1, SMT DEF Resting
    <3>3. 0 \in 0 .. MaxAttempts
      BY UploadAssumption, SMT
    <3>. QED  BY <2>0, <3>1, <3>2, <3>3, Zenon DEF UploadWithin
  <2>. QED  BY <2>1, <2>2, <2>3, RequestWithin, Zenon DEF UploadNext
<1>3. UploadInv /\ UploadWithin => UploadTypeOK
  <2>. SUFFICES ASSUME UploadInv, UploadWithin PROVE UploadTypeOK
    OBVIOUS
  <2>1. /\ session \in [Sessions -> UploadRows] /\ locked \in [Sessions -> Served \cup {Unlocked}]
        /\ serving \in [Served -> ServingRows] /\ widget \in WidgetRows
    BY Zenon DEF UploadInv, UploadTypes
  <2>2. \A s \in Sessions : session[s].status \in UploadStates /\ session[s].received \in 0 .. Parts
    BY <2>1, Zenon DEF UploadRows
  <2>3. \A r \in Served : serving[r].op \in ServedOps
    BY <2>1, Zenon DEF ServingRows
  <2>4. widget.step \in {"idle", "send", "complete", "wait"}
    BY <2>1, Zenon DEF WidgetRows
  <2>. QED  BY <2>1, <2>2, <2>3, <2>4, Zenon DEF UploadTypeOK, UploadStates, ServedOps, UploadWithin
<1>. QED  BY <1>1, <1>2, <1>3, UploadStarts, UploadStep, PTL DEF UploadSpec
=============================================================================
