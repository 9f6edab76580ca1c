-------------------------------- MODULE LiveLog --------------------------------
(***************************************************************************)
(* The live log console: each server process keeps the newest lines it       *)
(* logged in a bounded buffer, a poll merges the buffer of the process that  *)
(* answers with the newest persisted events, and the browser asks from its   *)
(* cursor on (PaxaliaLiveLogBuffer of logging/handler.py, live_log_feed of   *)
(* views/logs.py, initLiveConsole of static logs.js).                        *)
(*                                                                         *)
(* A record is the tick of the shared clock at which it was created.  Its    *)
(* handlers run later, the persisting one before the live one: its event may *)
(* be built and committed before its line is in the buffer (sync callers) or *)
(* after (the queue of async ones).  A line is numbered by the creation of   *)
(* its record, or one more than the last line of its process; an event by    *)
(* the tick at which its payload was built.  A line and its event are two    *)
(* entries; an entry is a natural number in the order of the feed, a line    *)
(* before an event with the same number.  A line appended while an answer is *)
(* put together is one appended after the answer.                            *)
(***************************************************************************)
EXTENDS Integers, FiniteSets, FiniteSetsExt

CONSTANTS Processes,    \* server processes
          Ticks,        \* records created and payloads built by all of them
          BufferSize,   \* LOG_BROWSER_MAX_REALTIME_BUFFER
          BatchSize,    \* persisted events one answer looks at
          FeedLimit     \* LOG_BROWSER_MAX_DISPLAY_EVENTS

ASSUME LiveBounds ==
  /\ Ticks \in Nat
  /\ BufferSize \in Nat \ {0} /\ BatchSize \in Nat \ {0} /\ FeedLimit \in Nat \ {0}

Created == 1..Ticks
NoCursor == -1

VARIABLES ticked,      \* the clock
          waiting,    \* records of each process the live handler has not seen
          made,       \* records that were created
          lineOf,     \* numbers of the lines each process logged
          buffer,     \* those its buffer still holds
          stamp,      \* number of the event built from a record, or 0
          persisted,  \* numbers of the events in the database
          cursor,     \* latestSequence of the browser
          shown,      \* entries the browser has
          since,      \* history: the first cursor the browser got
          served,     \* history: processes that answered a poll
          polled,     \* history: the entries there were when it was last answered
          behind      \* history: lines numbered no later than those entries

liveVars == <<ticked, waiting, made, lineOf, buffer, stamp, persisted,
              cursor, shown, since, served, polled, behind>>

records == <<waiting, made>>
browser == <<cursor, shown, since, served, polled>>

Lines(S) == {2 * n : n \in S}
Events(S) == {2 * n + 1 : n \in S}
SequenceOf(A) == {e \div 2 : e \in A}

LiveTypeOK ==
  /\ ticked \in 0..Ticks /\ made \subseteq 1..ticked
  /\ waiting \in [Processes -> SUBSET made]
  /\ lineOf \in [Processes -> SUBSET Nat]
  /\ \A p \in Processes : /\ buffer[p] \subseteq lineOf[p]
                          /\ Cardinality(buffer[p]) <= BufferSize
  /\ stamp \in [Created -> 0..ticked]
  /\ persisted \subseteq {stamp[n] : n \in made} \ {0}
  /\ cursor \in Nat \cup {NoCursor} /\ since \in Nat \cup {NoCursor}
  /\ shown \subseteq Lines(UNION {lineOf[p] : p \in served}) \cup Events(persisted)
  /\ served \subseteq Processes /\ polled \subseteq Nat
  /\ behind \in [Processes -> SUBSET Nat]

LiveInit ==
  /\ ticked = 0 /\ made = {} /\ waiting = [p \in Processes |-> {}]
  /\ lineOf = [p \in Processes |-> {}] /\ buffer = [p \in Processes |-> {}]
  /\ stamp = [n \in Created |-> 0] /\ persisted = {} /\ shown = {}
  /\ cursor = NoCursor /\ since = NoCursor
  /\ served = {} /\ polled = {} /\ behind = [p \in Processes |-> {}]

Newest(n, S) == {x \in S : Cardinality({y \in S : y > x}) < n}
Latest(S) == IF S = {} THEN 0 ELSE Max(S)

\* Entries the browser would see if it saw everything process p can answer.
Visible(p) == Lines(lineOf[p]) \cup Events(persisted)

\* A record is created; configure_logging gave its logger both handlers.
Log(p) ==
  /\ ticked < Ticks /\ ticked' = ticked + 1
  /\ made' = made \cup {ticked + 1}
  /\ waiting' = [waiting EXCEPT ![p] = @ \cup {ticked + 1}]
  /\ UNCHANGED <<lineOf, buffer, stamp, persisted, browser, behind>>

\* append: the record's time or the next number, and the oldest line goes when the
\* buffer is full.
AppendLine(p, r) ==
  LET n == Latest({Latest(lineOf[p]) + 1, r}) IN
  /\ r \in waiting[p]
  /\ waiting' = [waiting EXCEPT ![p] = @ \ {r}]
  /\ lineOf' = [lineOf EXCEPT ![p] = @ \cup {n}]
  /\ buffer' = [buffer EXCEPT ![p] = Newest(BufferSize, @ \cup {n})]
  /\ behind' = IF \E e \in polled : e >= 2 * n
               THEN [behind EXCEPT ![p] = @ \cup {n}] ELSE behind
  /\ UNCHANGED <<ticked, made, stamp, persisted, browser>>

\* build_from_log_record: the event gets its time ...
BuildEvent(r) ==
  /\ r \in made /\ stamp[r] = 0 /\ ticked < Ticks
  /\ ticked' = ticked + 1
  /\ stamp' = [stamp EXCEPT ![r] = ticked + 1]
  /\ UNCHANGED <<records, lineOf, buffer, persisted, browser, behind>>

\* ... and is committed, at some later time.
CommitEvent(r) ==
  /\ r \in made /\ stamp[r] # 0 /\ stamp[r] \notin persisted
  /\ persisted' = persisted \cup {stamp[r]}
  /\ UNCHANGED <<ticked, records, lineOf, buffer, stamp, browser, behind>>

\* snapshot of process p: the buffer has forgotten what followed the cursor.
Restart(p) == cursor # NoCursor /\ buffer[p] # {} /\ cursor + 1 < Min(buffer[p])

Snapshot(p) ==
  IF cursor = NoCursor \/ Restart(p) THEN Newest(FeedLimit, buffer[p])
  ELSE Newest(FeedLimit, {n \in buffer[p] : n > cursor})

\* live_log_feed adds the newest persisted events from the cursor on.
Answer(p) ==
  Newest(FeedLimit, Lines(Snapshot(p)) \cup
    Events(Newest(BatchSize, {n \in persisted : cursor = NoCursor \/ n >= cursor})))

\* The slip of a cursor that is not the newest line answered but the next one.
LatestAndOne(p) == Latest({Latest(lineOf[p]), Latest(SequenceOf(Answer(p)))}) + 1

\* latest_sequence: of the process's own lines, and of the answer.
LatestSequence(p) == Latest({Latest(lineOf[p]), Latest(SequenceOf(Answer(p)))})

\* The browser merges the answer; a restart empties its view first.
Poll(p) ==
  LET merged == (IF Restart(p) THEN {} ELSE shown) \cup Answer(p) IN
  /\ shown' = Newest(FeedLimit, merged)
  /\ cursor' = LatestSequence(p)
  /\ since' = IF since = NoCursor THEN LatestSequence(p) ELSE since
  /\ served' = served \cup {p}
  /\ polled' = Visible(p)
  /\ UNCHANGED <<ticked, records, lineOf, buffer, stamp, persisted, behind>>

\* The view is cleared; the cursor stays.
ClearView ==
  /\ cursor # NoCursor /\ shown # {}
  /\ shown' = {} /\ since' = cursor
  /\ UNCHANGED <<ticked, records, lineOf, buffer, stamp, persisted, cursor,
                 served, polled, behind>>

LiveNext ==
  \/ \E p \in Processes : \/ Log(p) \/ Poll(p)
                          \/ \E r \in Created : AppendLine(p, r)
  \/ \E r \in Created : BuildEvent(r) \/ CommitEvent(r)
  \/ ClearView

LiveSpec == LiveInit /\ [][LiveNext]_liveVars

\* A browser whose polls one process answers misses no line of that process that is
\* numbered after its first answer, was in the buffer when it was last answered and
\* still is, is among the newest the browser may show, and was appended with a
\* number newer than everything an answer had seen: buffers that overflow between
\* polls, restarts, numbers that run ahead of the clock and events that arrive
\* late, with numbers around the cursor, drop nothing else.
LiveIsComplete ==
  \A p \in Processes : served = {p} =>
    \A n \in buffer[p] :
      /\ n > since /\ n \notin behind[p]
      /\ 2 * n \in polled /\ 2 * n \in Newest(FeedLimit, Visible(p))
      => 2 * n \in shown

\* "Timestamp-based cursors let the shared DB-backed feed and this process-local
\* buffer use the same ordering space": no line is behind the cursor.
BufferIsComplete ==
  \A p \in Processes : served = {p} =>
    \A n \in buffer[p] :
      /\ n > since /\ 2 * n \in polled /\ 2 * n \in Newest(FeedLimit, Visible(p))
      => 2 * n \in shown

\* "production deployments with multiple workers still see logs from other workers
\* when persistence is enabled": a persisted event newer than the first answer
\* is shown once a later poll was answered.
OtherWorkersSeen ==
  \A n \in persisted :
    /\ n > since /\ n < cursor
    /\ 2 * n + 1 \in Newest(FeedLimit, UNION {Visible(p) : p \in Processes})
    => 2 * n + 1 \in shown

=============================================================================
