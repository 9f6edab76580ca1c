------------------------------- MODULE SendClient -------------------------------
(***************************************************************************)
(* The sending half of transfer-center.js and the views it calls: one page  *)
(* of the Transfer Center that sends one file.  The id of the file's        *)
(* transfer is kept in localStorage, so that a page that fails, or is       *)
(* reloaded, asks the server to resume it instead of creating another.      *)
(*                                                                         *)
(* The page may run two flows at once, because each disables only its own   *)
(* button: the form's ("submit") and that of a paused row ("resume").  Each *)
(* hashes the file as it sends it.  A request is served or not and its      *)
(* answer arrives or not; only chunks are asked again.  The server keeps of *)
(* a transfer what its answers depend on (TransferSend models the rest).    *)
(***************************************************************************)
EXTENDS Naturals, Sequences, FiniteSets

CONSTANTS FileChunks,    \* total_chunks of the file
          ChunkRetries,  \* retries of one chunk: transfer.max_retries
          MaxSends,      \* bound: transfers ever created for the file
          MaxLosses      \* bound: requests that are lost, refused or unanswered

ASSUME ClientAssumption == FileChunks \in Nat \ {0} /\ ChunkRetries \in Nat
                           /\ MaxSends \in Nat
ASSUME LossesCapped == MaxLosses \in Nat

VARIABLES held,      \* the server: transfer -> status, chunks received, staged?
          saved,     \* localStorage: the transfer of this file
          flow,      \* the flows of the page
          orphaned,  \* history: transfers whose creation was never answered
          losses

clientVars == <<held, saved, flow, orphaned, losses>>

NoSend == 0
Sends == 1 .. MaxSends
Flows == {"submit", "resume"}
WholeFile == [i \in 1 .. FileChunks |-> i]
Waiting == {"preparing", "transferring", "paused"}
Ended == {"completed", "failed", "cancelled", "expired"}
Still == [step |-> "idle", id |-> NoSend, next |-> 0, hash |-> <<>>, left |-> 0]

ClientTypeOK ==
  /\ DOMAIN held \subseteq Sends
  /\ \A t \in DOMAIN held : held[t].status \in Waiting \cup Ended \cup {"verifying", "gone"}
  /\ saved \in Sends \cup {NoSend}
  /\ \A f \in Flows : /\ flow[f].step \in {"idle", "init", "ask", "prime", "chunk",
                                           "complete", "finalize"}
                      /\ flow[f].left \in 0 .. ChunkRetries
  /\ losses \in 0 .. MaxLosses

ClientInit ==
  /\ held = <<>> /\ saved = NoSend /\ flow = [f \in Flows |-> Still]
  /\ orphaned = {} /\ losses = 0

-----------------------------------------------------------------------------
Doing(f, step) == flow[f].step = step
Go(f, step) == flow' = [flow EXCEPT ![f].step = step]
Fail(f) == flow' = [flow EXCEPT ![f] = Still]

\* What becomes of a request: "refused" is a server that did not act (429,
\* 5xx, no connection), "lost" one whose answer did not arrive.
Fate(fate) == losses' = IF fate = "answered" THEN losses ELSE losses + 1
Possible == IF losses < MaxLosses THEN {"answered", "lost", "refused"} ELSE {"answered"}

\* The form is submitted: the saved id is read.
SubmitForm ==
  /\ flow["submit"] = Still
  /\ flow' = [flow EXCEPT !["submit"] =
                [Still EXCEPT !.step = IF saved = NoSend THEN "init" ELSE "ask",
                              !.id = saved]]
  /\ UNCHANGED <<held, saved, orphaned, losses>>

\* The Resume button of a row the page shows as paused, with the file again.
PressResume(t) ==
  /\ flow["resume"] = Still
  /\ t \in DOMAIN held /\ held[t].status = "paused"
  /\ flow' = [flow EXCEPT !["resume"] = [Still EXCEPT !.step = "ask", !.id = t]]
  /\ UNCHANGED <<held, saved, orphaned, losses>>

\* transfer_send_init(): a row and its upload for every request that is served.
Created(t) == [x \in DOMAIN held \cup {t} |->
                 IF x = t THEN [status |-> "preparing", chunks |-> 0, staged |-> FALSE]
                 ELSE held[x]]

\* initNew(): the answer's id is saved.
InitSend(f) ==
  LET t == 1 + Cardinality(DOMAIN held) IN
    /\ Doing(f, "init") /\ t \in Sends
    /\ \E fate \in Possible :
         /\ Fate(fate)
         /\ IF fate = "refused" THEN UNCHANGED held ELSE held' = Created(t)
         /\ IF fate = "answered"
              THEN /\ saved' = t
                   /\ flow' = [flow EXCEPT ![f] = [Still EXCEPT !.step = "prime", !.id = t]]
              ELSE Fail(f) /\ UNCHANGED saved
         /\ orphaned' = IF fate = "lost" THEN orphaned \cup {t} ELSE orphaned

\* resume_send_transfer(): refused for an ended transfer and for one that is
\* gone, both with 400.
Resumable(t) == t \in DOMAIN held /\ held[t].status \notin Ended \cup {"gone"}
ResumedStatus(t) == IF held[t].staged THEN "verifying"
                    ELSE IF held[t].chunks > 0 THEN "transferring" ELSE "preparing"

\* transfer_send_resume(): the row is taken up, and the chunks received are told.
Resumed(t) == [held EXCEPT ![t].status = ResumedStatus(t)]

\* Variant of AfterRefusal: whatever the error, a new transfer is created.
AfterRefusalNew(f) == [flow EXCEPT ![f] = [Still EXCEPT !.step = "init"]]

\* Any answer but 404 is the flow's error, and the id stays saved.
AfterRefusal(f) == [flow EXCEPT ![f] = Still]

AskResume(f) ==
  LET t == flow[f].id IN
    /\ Doing(f, "ask")
    /\ \E fate \in Possible :
         /\ Fate(fate)
         /\ IF fate # "refused" /\ Resumable(t)
              THEN held' = Resumed(t)
              ELSE UNCHANGED held
         /\ IF fate = "answered" /\ Resumable(t)
              THEN /\ flow' = [flow EXCEPT ![f].step = "prime", ![f].next = held[t].chunks]
                   /\ saved' = IF f = "submit" THEN t ELSE saved
              ELSE flow' = AfterRefusal(f) /\ UNCHANGED saved
    /\ UNCHANGED orphaned

\* Variant of Primed: the chunks of an earlier page are not hashed.
NotPrimed(n) == <<>>
Primed(n) == [i \in 1 .. n |-> i]

\* primeHash(): what the server has already is read from the file and hashed.
PrimeHash(f) ==
  LET n == flow[f].next IN
    /\ Doing(f, "prime")
    /\ flow' = [flow EXCEPT ![f].hash = Primed(n), ![f].next = n + 1, ![f].left = ChunkRetries,
                            ![f].step = IF n >= FileChunks THEN "complete" ELSE "chunk"]
    /\ UNCHANGED <<held, saved, orphaned, losses>>

-----------------------------------------------------------------------------
\* upload_chunk(): an index already received is answered without a change.
Takes(t, i) == held[t].status \in {"preparing", "transferring"} /\ ~held[t].staged
               /\ i <= held[t].chunks + 1

\* retry(): a lost or refused chunk is asked again while retries are left.
SendChunk(f) ==
  LET t == flow[f].id
      i == flow[f].next
  IN  /\ Doing(f, "chunk")
      /\ \E fate \in Possible :
           /\ Fate(fate)
           /\ IF fate # "refused" /\ Takes(t, i) /\ i = held[t].chunks + 1
                THEN held' = [held EXCEPT ![t].chunks = i] ELSE UNCHANGED held
           /\ IF fate = "answered"
                THEN IF Takes(t, i)
                       THEN flow' = [flow EXCEPT ![f].hash = Append(@, i), ![f].next = i + 1,
                              ![f].left = ChunkRetries,
                              ![f].step = IF i = FileChunks THEN "complete" ELSE "chunk"]
                       ELSE Fail(f)
                ELSE IF flow[f].left > 0
                       THEN flow' = [flow EXCEPT ![f].left = @ - 1] ELSE Fail(f)
      /\ UNCHANGED <<saved, orphaned>>

\* upload_complete(): a second completion is answered like the first.
MayComplete(t) == held[t].status \in {"preparing", "transferring", "verifying"}
                  /\ (held[t].staged \/ held[t].chunks = FileChunks)

AskComplete(f) ==
  LET t == flow[f].id IN
    /\ Doing(f, "complete")
    /\ \E fate \in Possible :
         /\ Fate(fate)
         /\ IF fate # "refused" /\ MayComplete(t)
              THEN held' = [held EXCEPT ![t].staged = TRUE] ELSE UNCHANGED held
         /\ IF fate = "answered" /\ MayComplete(t) THEN Go(f, "finalize") ELSE Fail(f)
    /\ UNCHANGED <<saved, orphaned>>

\* transfer_send_finalize(): verified at once, in the background, or not at all
\* (its name was taken meanwhile); a completed row is answered as it is.
Finalized(t) ==
  CASE held[t].status = "completed" -> {"completed"}
    [] held[t].status \in {"preparing", "transferring", "verifying"} /\ held[t].staged
         -> {"completed", "verifying", "failed"}
    [] OTHER -> {}

\* The answer ends the transfer's turn in localStorage whatever its status.
AskFinalize(f) ==
  LET t == flow[f].id IN
    /\ Doing(f, "finalize")
    /\ \E fate \in Possible :
         /\ Fate(fate)
         /\ \/ /\ fate # "refused"
               /\ \E s \in Finalized(t) : held' = [held EXCEPT ![t].status = s]
               /\ saved' = IF fate = "answered" /\ (f = "submit" \/ saved = t)
                             THEN NoSend ELSE saved
            \/ (fate = "refused" \/ Finalized(t) = {}) /\ UNCHANGED <<held, saved>>
         /\ Fail(f)
    /\ UNCHANGED orphaned

-----------------------------------------------------------------------------
(* The buttons of the rows, another page, the maintenance pass, retention.  *)

Become(t, from, to) == /\ t \in DOMAIN held /\ held[t].status \in from
                       /\ held' = [held EXCEPT ![t].status = to]
                       /\ UNCHANGED <<saved, flow, orphaned, losses>>

PressPause(t) == Become(t, {"preparing", "transferring"}, "paused")
PressCancel(t) == Become(t, Waiting, "cancelled")
Expires(t) == Become(t, Waiting \cup {"verifying"}, "expired")
Verifies(t) == \E s \in {"completed", "failed"} : Become(t, {"verifying"}, s)
Pruned(t) == Become(t, Ended, "gone")

\* The page is closed or reloaded.
Reload ==
  /\ flow # [f \in Flows |-> Still] /\ losses < MaxLosses
  /\ losses' = losses + 1
  /\ orphaned' = orphaned
  /\ flow' = [f \in Flows |-> Still] /\ UNCHANGED <<held, saved>>

ClientNext ==
  \/ SubmitForm \/ Reload
  \/ \E f \in Flows : InitSend(f) \/ AskResume(f) \/ PrimeHash(f) \/ SendChunk(f)
                        \/ AskComplete(f) \/ AskFinalize(f)
  \/ \E t \in Sends : PressResume(t) \/ PressPause(t) \/ PressCancel(t)
                        \/ Expires(t) \/ Verifies(t) \/ Pruned(t)

ClientSpec == ClientInit /\ [][ClientNext]_clientVars

-----------------------------------------------------------------------------
\* The checksum a flow submits is that of the whole file, each chunk once and in
\* order, however often the send was broken off, resumed, asked again or run by
\* two flows: otherwise the server would refuse good bytes.
SubmitsWhole ==
  \A f \in Flows : Doing(f, "complete") \/ Doing(f, "finalize") => flow[f].hash = WholeFile

\* "A non-404 resume failure is surfaced as the real error rather than silently
\* creating a duplicate new transfer": at most one transfer of the file waits for
\* bytes, those aside whose creation was never answered.
NoDuplicate ==
  Cardinality({t \in DOMAIN held \ orphaned : held[t].status \in Waiting}) <= 1

\* A transfer that is gone is a resume miss: its id does not keep the file from
\* being sent as a new transfer.
MissIsNew ==
  [][\A f \in Flows : AskResume(f) /\ losses' = losses
                          /\ held[flow[f].id].status = "gone"
        => saved' = NoSend]_clientVars
=============================================================================
