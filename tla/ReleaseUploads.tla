----------------------------- MODULE ReleaseUploads -----------------------------
(***************************************************************************)
(* Uploads of the Releases page: the widget that sends a file in chunks,    *)
(* the upload engine's views for a release (TransferSend has the engine for *)
(* a transfer), the Delete button and the sweep of abandoned sessions.      *)
(*                                                                         *)
(* A request that the widget gives up may still be served, so that the next *)
(* attempt runs beside it.  Chunk and completion lock the session's row;    *)
(* the deletion and the sweep read it without a lock, remove its files and  *)
(* then delete it, which waits for the lock.                                *)
(***************************************************************************)
EXTENDS Naturals, Sequences

CONSTANTS Served,          \* requests served at the same time
          Parts,           \* total_chunks of a file
          MaxAttempts,     \* MAX_RETRIES_PER_CHUNK
          MaxSessions,     \* bound: sessions created
          MaxFailures      \* bound: answers that do not arrive, writes that
                           \* fail, processes that die, sweeps

ASSUME UploadAssumption ==
  /\ Parts \in Nat \ {0} /\ MaxAttempts \in Nat \ {0} /\ MaxSessions \in Nat \ {0}
  /\ Served \cap {"free", "none"} = {}      \* Unlocked and NoAttempt, below
ASSUME FailuresCapped == MaxFailures \in Nat

VARIABLES session,   \* the FileUpload rows: status and chunks_received
          incoming,   \* .tmp/<id>: the chunks in it
          stored,    \* <id>_<filename>: the chunks in it
          locked,    \* who holds the row of each session
          serving,   \* the requests being served
          widget,    \* the page that uploads
          deleted,   \* history: sessions whose deletion was answered
          spoiled,   \* history: sessions with a removed file or a failed commit
          failures

uploadVars == <<session, incoming, stored, locked, serving, widget, deleted, spoiled, failures>>

Sessions == 1 .. MaxSessions
Unlocked == "free"
NoAttempt == "none"
Gone == [status |-> "gone", received |-> 0]
NoFile == <<0>>                 \* no chunk has the number 0
AllParts == [i \in 1 .. Parts |-> i]
NotServing == [op |-> "none", id |-> 1, at |-> "none", part |-> 0, before |-> NoFile,
               final |-> FALSE]
Resting == [step |-> "idle", id |-> 1, part |-> 1, tries |-> 0, waits |-> NoAttempt]

UploadTypeOK ==
  /\ \A s \in Sessions : /\ session[s].status \in {"gone", "pending", "uploading",
                                                    "completed", "failed"}
                         /\ session[s].received \in 0 .. Parts
  /\ locked \in [Sessions -> Served \cup {Unlocked}]
  /\ \A r \in Served : serving[r].op \in {"none", "chunk", "complete", "delete", "sweep"}
  /\ widget.step \in {"idle", "send", "complete", "wait"} /\ widget.tries \in 0 .. MaxAttempts
  /\ deleted \subseteq Sessions /\ spoiled \subseteq Sessions /\ failures \in 0 .. MaxFailures

UploadInit ==
  /\ session = [s \in Sessions |-> Gone]
  /\ incoming = [s \in Sessions |-> NoFile] /\ stored = [s \in Sessions |-> NoFile]
  /\ locked = [s \in Sessions |-> Unlocked]
  /\ serving = [r \in Served |-> NotServing] /\ widget = Resting
  /\ deleted = {} /\ spoiled = {} /\ failures = 0

-----------------------------------------------------------------------------
(* The widget: one file after another, every chunk up to MaxAttempts times,  *)
(* the creation and the completion once.                                     *)

\* uploadFile() always creates a session: none is resumed.
StartUpload(s) ==
  /\ widget = Resting /\ session[s] = Gone /\ s \notin deleted
  /\ session' = [session EXCEPT ![s] = [status |-> "pending", received |-> 0]]
  /\ widget' = [Resting EXCEPT !.step = "send", !.id = s]
  /\ UNCHANGED <<incoming, stored, locked, serving, deleted, spoiled, failures>>

Serve(r, op, s, i) == serving' = [serving EXCEPT ![r] =
                        [NotServing EXCEPT !.op = op, !.id = s, !.at = "read", !.part = i]]

Ask(r) ==
  /\ widget.step \in {"send", "complete"} /\ serving[r] = NotServing
  /\ Serve(r, IF widget.step = "send" THEN "chunk" ELSE "complete", widget.id, widget.part)
  /\ widget' = [widget EXCEPT !.step = "wait", !.waits = r]
  /\ UNCHANGED <<session, incoming, stored, locked, deleted, spoiled, failures>>

\* The page after an error of the request it waits for.
AfterError(op) ==
  IF op = "chunk" /\ widget.tries + 1 < MaxAttempts
    THEN [widget EXCEPT !.step = "send", !.waits = NoAttempt, !.tries = @ + 1]
    ELSE Resting
AfterAnswer(op) ==
  IF op = "complete" THEN Resting
  ELSE [widget EXCEPT !.step = IF @ = "wait" /\ widget.part = Parts THEN "complete" ELSE "send",
                      !.part = @ + 1, !.tries = 0, !.waits = NoAttempt]

\* The connection is lost: the page goes on, and so does the server.
AnswerLost ==
  /\ widget.step = "wait" /\ failures < MaxFailures /\ failures' = failures + 1
  /\ widget' = AfterError(serving[widget.waits].op)
  /\ UNCHANGED <<session, incoming, stored, locked, serving, deleted, spoiled>>

-----------------------------------------------------------------------------
(* Requests. *)

Serving(r, op, at) == serving[r].op = op /\ serving[r].at = at
GoesOn(r, at) == serving' = [serving EXCEPT ![r].at = at]
Unlock(r) == [s \in Sessions |-> IF locked[s] = r THEN Unlocked ELSE locked[s]]

\* The request ends, its row lock is released and the page, if it waits, hears.
Replies(r, ok) ==
  /\ serving' = [serving EXCEPT ![r] = NotServing]
  /\ locked' = Unlock(r)
  /\ widget' = IF widget.waits # r THEN widget
               ELSE IF ok THEN AfterAnswer(serving[r].op) ELSE AfterError(serving[r].op)

\* A chunk by the row as read without, then with, the lock.
ExamineChunk(r) ==
  LET row == session[serving[r].id]
      i == serving[r].part
  IN  /\ Serving(r, "chunk", "read")
      /\ IF row.status \in {"gone", "completed", "failed"} \/ i # row.received + 1
           THEN Replies(r, row.status \in {"pending", "uploading"} /\ i <= row.received)
           ELSE GoesOn(r, "lock") /\ UNCHANGED <<locked, widget>>
      /\ UNCHANGED <<session, incoming, stored, deleted, spoiled, failures>>

\* Variant of StillExpected: the count is not read again under the lock.
ExpectedBefore(row, i) == row.status \notin {"gone", "completed"}
StillExpected(row, i) == row.status \notin {"gone", "completed"} /\ i = row.received + 1

LockChunk(r) ==
  LET s == serving[r].id
      row == session[s]
      i == serving[r].part
  IN  /\ Serving(r, "chunk", "lock") /\ locked[s] = Unlocked
      /\ IF StillExpected(row, i)
           THEN /\ locked' = [locked EXCEPT ![s] = r]
                /\ serving' = [serving EXCEPT ![r].at = "write", ![r].before = incoming[s]]
                /\ UNCHANGED widget
           ELSE Replies(r, row.status # "gone" /\ row.status # "completed" /\ i <= row.received)
      /\ UNCHANGED <<session, incoming, stored, deleted, spoiled, failures>>

Held(file) == IF file = NoFile THEN <<>> ELSE file

AppendChunk(r) ==
  LET s == serving[r].id IN
    /\ Serving(r, "chunk", "write")
    /\ incoming' = [incoming EXCEPT ![s] = Append(Held(@), serving[r].part)]
    /\ GoesOn(r, "save")
    /\ UNCHANGED <<session, stored, locked, widget, deleted, spoiled, failures>>

SaveChunk(r) ==
  LET s == serving[r].id IN
    /\ Serving(r, "chunk", "save")
    /\ session' = [session EXCEPT ![s] = [status |-> "uploading", received |-> @.received + 1]]
    /\ Replies(r, TRUE)
    /\ UNCHANGED <<incoming, stored, deleted, spoiled, failures>>

\* The lock, the write or the commit fails: the transaction is rolled back, and
\* then, without the lock, the file is cut back to the length it had when the lock
\* was taken, which is nothing when it was not.
ChunkFails(r) ==
  /\ serving[r].op = "chunk" /\ serving[r].at \in {"lock", "write", "save"}
  /\ failures < MaxFailures /\ failures' = failures + 1
  /\ GoesOn(r, "undo") /\ locked' = Unlock(r)
  /\ spoiled' = spoiled \cup {serving[r].id}
  /\ UNCHANGED <<session, incoming, stored, widget, deleted>>

CutTo(file, n) == IF n < Len(file) THEN SubSeq(file, 1, n) ELSE file

UndoChunk(r) ==
  LET s == serving[r].id IN
    /\ Serving(r, "chunk", "undo")
    /\ incoming' = [incoming EXCEPT ![s] =
                     IF @ = NoFile THEN @ ELSE CutTo(@, Len(Held(serving[r].before)))]
    /\ Replies(r, FALSE)
    /\ UNCHANGED <<session, stored, deleted, spoiled, failures>>

RightSize(file) == Len(file) = Parts

\* upload_complete(): the temporary file is missing, or of another size, or
\* becomes the stored one.
LockComplete(r) ==
  LET s == serving[r].id
      row == session[s]
  IN  /\ Serving(r, "complete", "read") /\ locked[s] = Unlocked
      /\ CASE row.status = "gone" \/ (row.status # "completed" /\ row.received # Parts)
                -> Replies(r, FALSE) /\ UNCHANGED <<session, incoming, stored>>
           [] row.status = "completed"
                -> Replies(r, TRUE) /\ UNCHANGED <<session, incoming, stored>>
           [] row.status \notin {"gone", "completed"} /\ row.received = Parts
              /\ incoming[s] # NoFile /\ RightSize(incoming[s])
                -> /\ stored' = [stored EXCEPT ![s] = incoming[s]]
                   /\ incoming' = [incoming EXCEPT ![s] = NoFile]
                   /\ locked' = [locked EXCEPT ![s] = r] /\ GoesOn(r, "save")
                   /\ UNCHANGED <<session, widget>>
           [] OTHER -> /\ session' = [session EXCEPT ![s].status = "failed"]
                       /\ Replies(r, FALSE) /\ UNCHANGED <<incoming, stored>>
      /\ UNCHANGED <<deleted, spoiled, failures>>

SaveComplete(r) ==
  /\ Serving(r, "complete", "save")
  /\ session' = [session EXCEPT ![serving[r].id].status = "completed"]
  /\ Replies(r, TRUE)
  /\ UNCHANGED <<incoming, stored, deleted, spoiled, failures>>

\* The commit fails: the transaction is rolled back, and then the file put back.
CommitFails(r) ==
  /\ Serving(r, "complete", "save")
  /\ failures < MaxFailures /\ failures' = failures + 1
  /\ GoesOn(r, "undo") /\ locked' = Unlock(r)
  /\ UNCHANGED <<session, incoming, stored, widget, deleted, spoiled>>

UndoComplete(r) ==
  LET s == serving[r].id IN
    /\ Serving(r, "complete", "undo")
    /\ IF stored[s] # NoFile
         THEN /\ incoming' = [incoming EXCEPT ![s] = stored[s]]
              /\ stored' = [stored EXCEPT ![s] = NoFile]
         ELSE UNCHANGED <<incoming, stored>>
    /\ Replies(r, FALSE)
    /\ UNCHANGED <<session, deleted, spoiled, failures>>

\* The process dies: its transaction is rolled back, its files stay.
ServingDies(r) ==
  /\ serving[r] # NotServing /\ failures < MaxFailures /\ failures' = failures + 1
  /\ Replies(r, FALSE)
  /\ UNCHANGED <<session, incoming, stored, deleted, spoiled>>

-----------------------------------------------------------------------------
(* The Delete button and cleanup_uploads: the row as it was read says        *)
(* whether there is a stored file to remove.                                 *)

AskDelete(r, s) ==
  /\ serving[r] = NotServing /\ session[s] # Gone
  /\ serving' = [serving EXCEPT ![r] = [NotServing EXCEPT !.op = "delete", !.id = s,
                   !.at = "files", !.final = session[s].status = "completed"]]
  /\ UNCHANGED <<session, incoming, stored, locked, widget, deleted, spoiled, failures>>

\* An abandoned session: not completed, and not updated for hours.
AskSweep(r, s) ==
  /\ serving[r] = NotServing /\ session[s].status \in {"pending", "uploading", "failed"}
  /\ failures < MaxFailures /\ failures' = failures + 1
  /\ serving' = [serving EXCEPT ![r] = [NotServing EXCEPT !.op = "sweep", !.id = s,
                   !.at = "files"]]
  /\ UNCHANGED <<session, incoming, stored, locked, widget, deleted, spoiled>>

RemoveFiles(r) ==
  LET s == serving[r].id IN
    /\ serving[r].op \in {"delete", "sweep"} /\ serving[r].at = "files"
    /\ incoming' = [incoming EXCEPT ![s] = NoFile]
    /\ stored' = IF serving[r].final THEN [stored EXCEPT ![s] = NoFile] ELSE stored
    /\ GoesOn(r, "row") /\ spoiled' = spoiled \cup {s}
    /\ UNCHANGED <<session, locked, widget, deleted, failures>>

RemoveRow(r) ==
  LET s == serving[r].id IN
    /\ serving[r].op \in {"delete", "sweep"} /\ serving[r].at = "row" /\ locked[s] = Unlocked
    /\ session' = [session EXCEPT ![s] = Gone]
    /\ deleted' = deleted \cup {s}
    /\ Replies(r, TRUE)
    /\ UNCHANGED <<incoming, stored, spoiled, failures>>

UploadNext ==
  \/ AnswerLost
  \/ \E s \in Sessions : StartUpload(s)
  \/ \E r \in Served : \/ Ask(r) \/ ExamineChunk(r) \/ LockChunk(r) \/ AppendChunk(r)
                       \/ SaveChunk(r) \/ ChunkFails(r) \/ UndoChunk(r)
                       \/ LockComplete(r) \/ SaveComplete(r) \/ CommitFails(r)
                       \/ UndoComplete(r) \/ ServingDies(r) \/ RemoveFiles(r) \/ RemoveRow(r)
                       \/ \E s \in Sessions : AskDelete(r, s) \/ AskSweep(r, s)

UploadSpec == UploadInit /\ [][UploadNext]_uploadVars

-----------------------------------------------------------------------------
\* The file of a completed upload has every chunk once and in order, whatever
\* requests overlapped, were repeated, unanswered or cut short by a death; a commit
\* that fails under a second attempt, or files removed under a request, aside.
CompletedIsWhole ==
  \A s \in Sessions \ spoiled :
    session[s].status = "completed" => stored[s] = AllParts

\* "Delete this upload record and its file?": once the row is gone and nothing of
\* it is being served, no file of it is left.
DeletedIsGone ==
  \A s \in deleted : session[s] = Gone /\ (\A r \in Served : serving[r].id # s \/ serving[r] = NotServing)
                       => incoming[s] = NoFile /\ stored[s] = NoFile
=============================================================================
