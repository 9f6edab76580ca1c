------------------------------ MODULE LogStore ------------------------------
(***************************************************************************)
(* The log store for one fingerprint (logging/services.py, persist_event):  *)
(* web processes, commands and logging threads that record the same problem *)
(* at the same time, the group row they share, the bounded samples kept of  *)
(* each window, and paxalia_logs_prune, which deletes events by age or      *)
(* count and then the groups it has read to be without events.             *)
(*                                                                         *)
(* Each call is one transaction, tried at most twice.  The group is locked  *)
(* when it is found; when it is not, nothing is locked, two calls may both  *)
(* insert it, and the unique fingerprint lets one of them succeed.  A       *)
(* payload is stamped before its transaction starts.                       *)
(***************************************************************************)
EXTENDS Integers, FiniteSets

CONSTANTS
    Writers,      \* calls of persist_event that may overlap
    MaxSamples,   \* LOG_MAX_SAMPLES_PER_GROUP
    Window,       \* LOG_DEDUPE_WINDOW_SECONDS
    MaxTime,      \* bound: the clock
    MaxCalls,     \* bound: calls that are made
    MaxFaults,    \* bound: transactions that fail in the database
    NoGroup,      \* no group row
    Nobody        \* no lock holder

ASSUME LogStoreAssumption ==
    /\ MaxSamples \in Nat
    /\ Window \in Nat \ {0}
    /\ MaxTime \in Nat
    /\ MaxCalls \in Nat
    /\ MaxFaults \in Nat
    /\ Nobody \notin Writers

Group == [occurrences : Nat, suppressed : Nat, window : Nat, samples : Nat]

ASSUME NoGroupAssumption == NoGroup \notin Group

VARIABLES
    clock,
    group,       \* the committed PaxaliaLogGroup row, or NoGroup
    locked,      \* the call that holds the row lock
    inserting,   \* the call whose INSERT of the group is not committed yet
    call,        \* the calls of persist_event
    linked,      \* events of the group
    loose,       \* events whose group was deleted
    dangling,    \* paxalia_logs_prune has read the group as one without events
    stored,      \* ghost: events stored for the group, deleted ones included
    inWindow,    \* ghost: events stored since the window of the group began
    lost,        \* ghost: calls that gave up without a database failure
    faults, calls, deletions

vars == <<clock, group, locked, inserting, call, linked, loose, dangling, stored,
          inWindow, lost, faults, calls, deletions>>

Call == [at : {"idle", "lookup", "create", "created", "update"}, attempt : {1, 2},
         now : Nat, row : Group]

NewGroup(t) == [occurrences |-> 1, suppressed |-> 0, window |-> t, samples |-> 0]
IdleCall == [at |-> "idle", attempt |-> 1, now |-> 0, row |-> NewGroup(0)]

Init ==
    /\ clock = 0
    /\ group = NoGroup
    /\ locked = Nobody
    /\ inserting = Nobody
    /\ call = [w \in Writers |-> IdleCall]
    /\ linked = 0
    /\ loose = 0
    /\ dangling = FALSE
    /\ stored = 0
    /\ inWindow = 0
    /\ lost = 0
    /\ faults = 0
    /\ calls = 0
    /\ deletions = 0

Rows == <<group, linked, loose, stored, inWindow>>
Bounds == <<faults, calls, deletions>>

Ended(w) == [call EXCEPT ![w] = IdleCall]

-----------------------------------------------------------------------------
(* persist_event. *)

\* _base_payload: what the event will hold is settled here, its time with it;
\* of the rest the group only tells the fingerprint, the same for all calls.
Stamped(w) == [call EXCEPT ![w].at = "lookup", ![w].now = clock]

\* The payload is built and the first transaction starts.
Begin(w) ==
    /\ call[w].at = "idle" /\ calls < MaxCalls
    /\ call' = Stamped(w)
    /\ calls' = calls + 1
    /\ UNCHANGED <<clock, locked, inserting, dangling, lost, faults, deletions, Rows>>

\* Variant of LookupFound: the row is read and not locked.
LookupUnlocked(w) ==
    /\ call[w].at = "lookup"
    /\ group # NoGroup
    /\ locked' = locked
    /\ call' = [call EXCEPT ![w].at = "update", ![w].row = group]
    /\ UNCHANGED <<clock, inserting, dangling, lost, Rows, Bounds>>

\* select_for_update finds the group, when nobody else holds it.
LookupFound(w) ==
    /\ call[w].at = "lookup"
    /\ group # NoGroup
    /\ locked = Nobody
    /\ locked' = w
    /\ call' = [call EXCEPT ![w].at = "update", ![w].row = group]
    /\ UNCHANGED <<clock, inserting, dangling, lost, Rows, Bounds>>

LookupMissing(w) ==
    /\ call[w].at = "lookup"
    /\ group = NoGroup
    /\ call' = [call EXCEPT ![w].at = "create"]
    /\ UNCHANGED <<clock, locked, inserting, dangling, lost, Rows, Bounds>>

\* The INSERT of the group waits for another one that is not committed.
CreateGroup(w) ==
    /\ call[w].at = "create"
    /\ group = NoGroup
    /\ inserting = Nobody
    /\ inserting' = w
    /\ call' = [call EXCEPT ![w].at = "created", ![w].row = NewGroup(call[w].now)]
    /\ UNCHANGED <<clock, locked, dangling, lost, Rows, Bounds>>

\* Variant of Retried: the first integrity error is the end.
NotRetried(w) == Ended(w)

\* A second try after the race of two first inserts, and no third.
Retried(w) ==
    IF call[w].attempt = 1
    THEN [call EXCEPT ![w].at = "lookup", ![w].attempt = 2]
    ELSE Ended(w)

\* IntegrityError: the fingerprint has been committed by another call.
CreateCollides(w) ==
    /\ call[w].at = "create"
    /\ group # NoGroup
    /\ call' = Retried(w)
    /\ lost' = IF call'[w].at = "idle" THEN lost + 1 ELSE lost
    /\ UNCHANGED <<clock, locked, inserting, dangling, Rows, Bounds>>

\* The row after one more occurrence at the time t; a window that has lasted
\* begins anew.
Occurred(row, t) ==
    LET renewed == t - row.window >= Window
    IN  [occurrences |-> row.occurrences + 1,
         suppressed |-> row.suppressed,
         window |-> IF renewed THEN t ELSE row.window,
         samples |-> IF renewed THEN 0 ELSE row.samples]

\* Whether the occurrence is kept as an event.
Sampled(row) == row.samples < MaxSamples

\* The new group and its first event are committed; without samples, the
\* group alone.
CommitCreated(w) ==
    LET row == call[w].row
        kept == IF Sampled(row) THEN 1 ELSE 0
    IN  /\ call[w].at = "created"
        /\ group' = [row EXCEPT !.samples = @ + kept]
        /\ linked' = kept
        /\ stored' = kept
        /\ inWindow' = kept
        /\ inserting' = Nobody
        /\ call' = Ended(w)
        /\ UNCHANGED <<clock, locked, loose, dangling, lost, Bounds>>

\* The occurrence is counted; it is stored as an event or suppressed.
CommitUpdated(w) ==
    LET row == Occurred(call[w].row, call[w].now)
        kept == IF Sampled(row) THEN 1 ELSE 0
    IN  /\ call[w].at = "update"
        /\ group' = IF Sampled(row) THEN [row EXCEPT !.samples = @ + 1]
                    ELSE [row EXCEPT !.suppressed = @ + 1]
        /\ linked' = linked + kept
        /\ stored' = stored + kept
        /\ inWindow' = kept + IF row.window = call[w].row.window THEN inWindow ELSE 0
        /\ locked' = IF locked = w THEN Nobody ELSE locked
        /\ call' = Ended(w)
        /\ UNCHANGED <<clock, inserting, loose, dangling, lost, Bounds>>

\* Any other database error: the transaction is rolled back, the call returns
\* without an event.
Fail(w) ==
    /\ call[w].at # "idle" /\ faults < MaxFaults
    /\ locked' = IF locked = w THEN Nobody ELSE locked
    /\ inserting' = IF inserting = w THEN Nobody ELSE inserting
    /\ call' = Ended(w)
    /\ faults' = faults + 1
    /\ UNCHANGED <<clock, dangling, lost, calls, deletions, Rows>>

-----------------------------------------------------------------------------
(* prune_log_events. *)

\* Retention, the record limit or the storage limit take events.
PruneEvents ==
    /\ linked > 0
    /\ linked' \in 0 .. linked - 1
    /\ UNCHANGED <<clock, group, locked, inserting, call, loose, dangling, stored,
                   inWindow, lost, Bounds>>

\* The ids of the groups without events are read ...
PruneReadsGroups ==
    /\ group # NoGroup /\ linked = 0 /\ ~dangling
    /\ dangling' = TRUE
    /\ UNCHANGED <<clock, locked, inserting, call, lost, Rows, Bounds>>

\* ... and these groups are deleted when no call holds them; an event stored
\* meanwhile loses its group (SET_NULL).
PruneDeletesGroup ==
    /\ dangling
    /\ group # NoGroup /\ locked = Nobody
    /\ group' = NoGroup
    /\ loose' = loose + linked
    /\ linked' = 0
    /\ stored' = 0
    /\ inWindow' = 0
    /\ dangling' = FALSE
    /\ deletions' = deletions + 1
    /\ UNCHANGED <<clock, locked, inserting, call, lost, faults, calls>>

\* A call that held the group while the deletion waited has stored an event
\* of it: the deletion is rolled back.
PruneCollides ==
    /\ dangling /\ locked # Nobody
    /\ dangling' = FALSE
    /\ UNCHANGED <<clock, locked, inserting, call, lost, Rows, Bounds>>

Tick ==
    /\ clock < MaxTime
    /\ clock' = clock + 1
    /\ UNCHANGED <<locked, inserting, call, dangling, lost, Rows, Bounds>>

-----------------------------------------------------------------------------
Persist(w) ==
    \/ Begin(w) \/ LookupFound(w) \/ LookupMissing(w) \/ CreateGroup(w)
    \/ CreateCollides(w) \/ CommitCreated(w) \/ CommitUpdated(w) \/ Fail(w)

Cleanup == PruneEvents \/ PruneReadsGroups \/ PruneDeletesGroup \/ PruneCollides

Next == (\E w \in Writers : Persist(w)) \/ Cleanup \/ Tick

Spec == Init /\ [][Next]_vars

-----------------------------------------------------------------------------
(* Properties. *)

\* Rows, locks, calls and counters have values of their types.
TypeOK ==
    /\ clock \in 0 .. MaxTime
    /\ group \in Group \union {NoGroup}
    /\ locked \in Writers \union {Nobody}
    /\ inserting \in Writers \union {Nobody}
    /\ call \in [Writers -> Call]
    /\ linked \in Nat /\ loose \in Nat /\ stored \in Nat /\ inWindow \in Nat /\ lost \in Nat
    /\ dangling \in BOOLEAN
    /\ faults \in 0 .. MaxFaults /\ calls \in 0 .. MaxCalls /\ deletions \in Nat

\* However calls overlap, the group counts every occurrence once: those that
\* were stored and those that were suppressed.  With samples switched off the
\* first occurrence of a group is neither.
CountsAgree ==
    group # NoGroup =>
        group.occurrences = stored + group.suppressed + IF MaxSamples = 0 THEN 1 ELSE 0

\* Of one window at most MaxSamples events are stored, and sample_count says
\* how many.
CapHolds ==
    group # NoGroup => inWindow <= MaxSamples /\ group.samples = inWindow

\* The counters of the group are true, whichever calls overlap.
CountersAgree == CountsAgree /\ CapHolds

\* Without a cleanup that deletes the group, the race of two first inserts
\* loses no event: one retry is enough.
RetryIsEnough == deletions = 0 => lost = 0
=============================================================================
