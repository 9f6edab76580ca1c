-------------------------- MODULE LogStore_proofs --------------------------
(* Proofs about LogStore: for any number of overlapping calls, any limit of *)
(* samples and any window, the group counts every occurrence once, keeps at *)
(* most the limit of a window, and needs one retry only.                    *)
EXTENDS LogStore, TLAPS

-----------------------------------------------------------------------------
(* The inductive invariant. *)

\* The call that updates the group is the one that holds its lock, and the row
\* it has read is the row.
LockSound ==
    \A w \in Writers : call[w].at = "update" =>
        locked = w /\ group # NoGroup /\ call[w].row = group

\* The call that has inserted the group is the only one, and there is none yet.
InsertSound ==
    \A w \in Writers : call[w].at = "created" =>
        inserting = w /\ group = NoGroup /\ call[w].row = NewGroup(call[w].now)

\* A lock and an INSERT in progress have their call.
HoldersExist ==
    /\ locked # Nobody => call[locked].at = "update"
    /\ inserting # Nobody => call[inserting].at = "created"

\* A second attempt finds the group, unless it has been deleted.
SecondAttemptFinds ==
    \A w \in Writers : call[w].attempt = 2 /\ deletions = 0 =>
        group # NoGroup /\ call[w].at \in {"lookup", "update"}

Inv == TypeOK /\ LockSound /\ InsertSound /\ HoldersExist /\ SecondAttemptFinds
       /\ CountsAgree /\ CapHolds /\ RetryIsEnough

-----------------------------------------------------------------------------
(* The rows. *)

LEMMA NewGroupType == \A t \in Nat : NewGroup(t) \in Group
  BY DEF NewGroup, Group

LEMMA OccurredType ==
  ASSUME NEW row \in Group, NEW t \in Nat
  PROVE  /\ Occurred(row, t) \in Group
         /\ Occurred(row, t).occurrences = row.occurrences + 1
         /\ Occurred(row, t).suppressed = row.suppressed
         /\ \/ Occurred(row, t).window = row.window /\ Occurred(row, t).samples = row.samples
            \/ Occurred(row, t).window # row.window /\ Occurred(row, t).samples = 0
  <1>1. Window \in Nat \ {0}
    BY LogStoreAssumption
  <1>2. row.window \in Nat /\ row.occurrences \in Nat /\ row.suppressed \in Nat /\ row.samples \in Nat
    BY DEF Group
  <1>3. CASE t - row.window >= Window
    <2>1. t # row.window
      BY <1>1, <1>2, <1>3
    <2>2. QED
      BY <1>2, <1>3, <2>1 DEF Occurred, Group
  <1>4. CASE ~(t - row.window >= Window)
    BY <1>2, <1>4 DEF Occurred, Group
  <1>5. QED
    BY <1>3, <1>4

LEMMA IdleCallType == IdleCall \in Call
  BY NewGroupType DEF IdleCall, Call

-----------------------------------------------------------------------------
(* The initial states. *)

LEMMA InitInv == Init => Inv
  <1> SUFFICES ASSUME Init PROVE Inv
    OBVIOUS
  <1>1. \A w \in Writers : call[w] = IdleCall
    BY DEF Init
  <1>2. \A w \in Writers : call[w].at = "idle" /\ call[w].attempt = 1
    BY <1>1 DEF IdleCall
  <1>3. TypeOK
    <2>1. call \in [Writers -> Call]
      BY IdleCallType DEF Init
    <2>2. dangling \in BOOLEAN
      BY DEF Init
    <2>3. clock \in 0 .. MaxTime /\ faults \in 0 .. MaxFaults /\ calls \in 0 .. MaxCalls
      BY LogStoreAssumption DEF Init
    <2>4. QED
      BY <2>1, <2>2, <2>3 DEF Init, TypeOK
  <1>4. LockSound /\ InsertSound /\ SecondAttemptFinds
    BY <1>2 DEF LockSound, InsertSound, SecondAttemptFinds
  <1>5. HoldersExist /\ CountsAgree /\ CapHolds /\ RetryIsEnough
    BY DEF Init, HoldersExist, CountsAgree, CapHolds, RetryIsEnough
  <1>6. QED
    BY <1>3, <1>4, <1>5 DEF Inv

-----------------------------------------------------------------------------
(* One call. *)

\* A step of one call changes that call alone.
LEMMA OneCall ==
  ASSUME TypeOK, NEW w \in Writers, NEW c \in Call, call' = [call EXCEPT ![w] = c]
  PROVE  /\ call' \in [Writers -> Call]
         /\ call'[w] = c
         /\ \A v \in Writers \ {w} : call'[v] = call[v]
  BY DEF TypeOK

\* A call that returns is idle, and the others are as they were.
LEMMA EndedCall ==
  ASSUME TypeOK, NEW w \in Writers, call' = Ended(w)
  PROVE  /\ call' \in [Writers -> Call]
         /\ call'[w].at = "idle" /\ call'[w].attempt = 1
         /\ \A v \in Writers \ {w} : call'[v] = call[v]
  <1>1. call' = [call EXCEPT ![w] = IdleCall]
    BY DEF Ended
  <1>2. /\ call' \in [Writers -> Call] /\ call'[w] = IdleCall
        /\ \A v \in Writers \ {w} : call'[v] = call[v]
    BY <1>1, IdleCallType, OneCall
  <1>3. QED
    BY <1>2 DEF IdleCall

LEMMA BeginInv == ASSUME Inv, NEW w \in Writers, Begin(w) PROVE Inv'
  <1> DEFINE c == [call[w] EXCEPT !.at = "lookup", !.now = clock]
  <1>1. call[w] \in Call /\ clock \in Nat /\ calls' \in 0 .. MaxCalls
    BY LogStoreAssumption DEF Inv, TypeOK, Begin
  <1>2. c \in Call /\ c.at = "lookup" /\ c.attempt = call[w].attempt
    BY <1>1 DEF Call
  <1>3. call' = [call EXCEPT ![w] = c]
    BY DEF Begin, Stamped, Inv, TypeOK
  <1> HIDE DEF c
  <1>4. call' \in [Writers -> Call] /\ call'[w] = c /\ \A v \in Writers \ {w} : call'[v] = call[v]
    BY <1>2, <1>3, OneCall DEF Inv
  <1>5. TypeOK'
    BY <1>1, <1>4 DEF Inv, TypeOK, Begin, Rows
  <1>6. LockSound' /\ InsertSound'
    BY <1>2, <1>4 DEF Inv, LockSound, InsertSound, Begin, Rows
  <1>7. HoldersExist'
    BY <1>4 DEF Inv, TypeOK, HoldersExist, Begin
  <1>8. SecondAttemptFinds'
    BY <1>2, <1>4 DEF Inv, SecondAttemptFinds, Begin, Rows
  <1>9. (CountsAgree /\ CapHolds /\ RetryIsEnough)'
    BY DEF Inv, CountsAgree, CapHolds, RetryIsEnough, Begin, Rows
  <1>10. QED
    BY <1>5, <1>6, <1>7, <1>8, <1>9 DEF Inv

LEMMA LookupFoundInv == ASSUME Inv, NEW w \in Writers, LookupFound(w) PROVE Inv'
  <1> DEFINE c == [call[w] EXCEPT !.at = "update", !.row = group]
  <1>1. call[w] \in Call /\ group \in Group
    BY DEF Inv, TypeOK, LookupFound
  <1>2. c \in Call /\ c.at = "update" /\ c.attempt = call[w].attempt /\ c.row = group
    BY <1>1 DEF Call
  <1>3. call' = [call EXCEPT ![w] = c]
    BY DEF LookupFound, Inv, TypeOK
  <1> HIDE DEF c
  <1>4. call' \in [Writers -> Call] /\ call'[w] = c /\ \A v \in Writers \ {w} : call'[v] = call[v]
    BY <1>2, <1>3, OneCall DEF Inv
  <1>5. TypeOK'
    BY <1>4 DEF Inv, TypeOK, LookupFound, Rows, Bounds
  <1>6. LockSound'
    BY <1>2, <1>4, LogStoreAssumption DEF Inv, LockSound, LookupFound, Rows
  <1>7. InsertSound'
    BY <1>2, <1>4 DEF Inv, InsertSound, LookupFound, Rows
  <1>8. HoldersExist'
    BY <1>2, <1>4 DEF Inv, TypeOK, HoldersExist, LookupFound
  <1>9. SecondAttemptFinds'
    BY <1>2, <1>4 DEF Inv, SecondAttemptFinds, LookupFound, Rows, Bounds
  <1>10. (CountsAgree /\ CapHolds /\ RetryIsEnough)'
    BY DEF Inv, CountsAgree, CapHolds, RetryIsEnough, LookupFound, Rows, Bounds
  <1>11. QED
    BY <1>5, <1>6, <1>7, <1>8, <1>9, <1>10 DEF Inv

LEMMA LookupMissingInv == ASSUME Inv, NEW w \in Writers, LookupMissing(w) PROVE Inv'
  <1> DEFINE c == [call[w] EXCEPT !.at = "create"]
  <1>1. call[w] \in Call
    BY DEF Inv, TypeOK
  <1>2. c \in Call /\ c.at = "create" /\ c.attempt = call[w].attempt
    BY <1>1 DEF Call
  <1>3. call' = [call EXCEPT ![w] = c]
    BY DEF LookupMissing, Inv, TypeOK
  <1> HIDE DEF c
  <1>4. call' \in [Writers -> Call] /\ call'[w] = c /\ \A v \in Writers \ {w} : call'[v] = call[v]
    BY <1>2, <1>3, OneCall DEF Inv
  <1>5. TypeOK'
    BY <1>4 DEF Inv, TypeOK, LookupMissing, Rows, Bounds
  <1>6. LockSound' /\ InsertSound'
    BY <1>2, <1>4 DEF Inv, LockSound, InsertSound, LookupMissing, Rows
  <1>7. HoldersExist'
    BY <1>4 DEF Inv, TypeOK, HoldersExist, LookupMissing
  <1>8. SecondAttemptFinds'
    BY <1>2, <1>4 DEF Inv, SecondAttemptFinds, LookupMissing, Rows, Bounds
  <1>9. (CountsAgree /\ CapHolds /\ RetryIsEnough)'
    BY DEF Inv, CountsAgree, CapHolds, RetryIsEnough, LookupMissing, Rows, Bounds
  <1>10. QED
    BY <1>5, <1>6, <1>7, <1>8, <1>9 DEF Inv

LEMMA CreateGroupInv == ASSUME Inv, NEW w \in Writers, CreateGroup(w) PROVE Inv'
  <1> DEFINE c == [call[w] EXCEPT !.at = "created", !.row = NewGroup(call[w].now)]
  <1>1. call[w] \in Call /\ NewGroup(call[w].now) \in Group
    BY NewGroupType DEF Inv, TypeOK, Call
  <1>2. c \in Call /\ c.at = "created" /\ c.attempt = call[w].attempt /\ c.row = NewGroup(c.now)
    BY <1>1 DEF Call
  <1>3. call' = [call EXCEPT ![w] = c]
    BY DEF CreateGroup, Inv, TypeOK
  <1> HIDE DEF c
  <1>4. call' \in [Writers -> Call] /\ call'[w] = c /\ \A v \in Writers \ {w} : call'[v] = call[v]
    BY <1>2, <1>3, OneCall DEF Inv
  <1>5. TypeOK'
    BY <1>4 DEF Inv, TypeOK, CreateGroup, Rows, Bounds
  <1>6. LockSound'
    BY <1>2, <1>4 DEF Inv, LockSound, CreateGroup, Rows
  <1>7. InsertSound'
    BY <1>2, <1>4, LogStoreAssumption DEF Inv, InsertSound, CreateGroup, Rows
  <1>8. HoldersExist'
    BY <1>2, <1>4 DEF Inv, TypeOK, HoldersExist, CreateGroup
  <1>9. SecondAttemptFinds'
    BY <1>2, <1>4 DEF Inv, SecondAttemptFinds, CreateGroup, Rows, Bounds
  <1>10. (CountsAgree /\ CapHolds /\ RetryIsEnough)'
    BY DEF Inv, CountsAgree, CapHolds, RetryIsEnough, CreateGroup, Rows, Bounds
  <1>11. QED
    BY <1>5, <1>6, <1>7, <1>8, <1>9, <1>10 DEF Inv

\* The fingerprint is taken: a first attempt looks again, a second one ends,
\* which SecondAttemptFinds excludes as long as no group has been deleted.
LEMMA CreateCollidesInv == ASSUME Inv, NEW w \in Writers, CreateCollides(w) PROVE Inv'
  <1>1. call[w] \in Call /\ call[w].at = "create" /\ group # NoGroup
    BY DEF Inv, TypeOK, CreateCollides
  <1>2. /\ call' \in [Writers -> Call]
        /\ \A v \in Writers \ {w} : call'[v] = call[v]
        /\ call'[w].at \in {"idle", "lookup"}
        /\ call'[w].attempt = 2 => call'[w].at = "lookup"
        /\ call'[w].at = "idle" => call[w].attempt = 2
    <2>1. CASE call[w].attempt = 1
      <3> DEFINE c == [call[w] EXCEPT !.at = "lookup", !.attempt = 2]
      <3>1. c \in Call /\ c.at = "lookup"
        BY <1>1 DEF Call
      <3>2. call' = [call EXCEPT ![w] = c]
        BY <2>1 DEF CreateCollides, Retried, Inv, TypeOK
      <3> HIDE DEF c
      <3>3. QED
        BY <3>1, <3>2, OneCall DEF Inv
    <2>2. CASE call[w].attempt # 1
      <3>1. call' = Ended(w) /\ call[w].attempt = 2
        BY <1>1, <2>2 DEF CreateCollides, Retried, Call
      <3>2. QED
        BY <3>1, EndedCall DEF Inv
    <2>3. QED
      BY <2>1, <2>2
  <1>3. lost' \in Nat /\ (deletions = 0 => lost' = lost)
    <2>1. lost \in Nat /\ lost' = IF call'[w].at = "idle" THEN lost + 1 ELSE lost
      BY DEF Inv, TypeOK, CreateCollides
    <2>2. deletions = 0 => call'[w].at # "idle"
      BY <1>1, <1>2 DEF Inv, SecondAttemptFinds
    <2>3. QED
      BY <2>1, <2>2
  <1>4. TypeOK'
    BY <1>2, <1>3 DEF Inv, TypeOK, CreateCollides, Rows, Bounds
  <1>5. LockSound' /\ InsertSound'
    BY <1>2 DEF Inv, LockSound, InsertSound, CreateCollides, Rows
  <1>6. HoldersExist'
    BY <1>1, <1>2 DEF Inv, TypeOK, HoldersExist, CreateCollides
  <1>7. SecondAttemptFinds'
    BY <1>1, <1>2 DEF Inv, SecondAttemptFinds, CreateCollides, Rows, Bounds
  <1>8. (CountsAgree /\ CapHolds /\ RetryIsEnough)'
    BY <1>3 DEF Inv, CountsAgree, CapHolds, RetryIsEnough, CreateCollides, Rows, Bounds
  <1>9. QED
    BY <1>4, <1>5, <1>6, <1>7, <1>8 DEF Inv

\* While the INSERT is not committed there is no group, so no other call holds
\* or inserts one.
LEMMA CommitCreatedInv == ASSUME Inv, NEW w \in Writers, CommitCreated(w) PROVE Inv'
  <1> DEFINE row == call[w].row
             kept == IF Sampled(row) THEN 1 ELSE 0
  <1>1. /\ inserting = w /\ group = NoGroup /\ row = NewGroup(call[w].now)
        /\ call[w].now \in Nat /\ call[w].at = "created"
    BY DEF Inv, TypeOK, InsertSound, CommitCreated, Call
  <1>2. /\ row \in Group /\ row.occurrences = 1 /\ row.suppressed = 0 /\ row.samples = 0
    BY <1>1, NewGroupType DEF NewGroup
  <1>3. kept \in {0, 1} /\ kept <= MaxSamples
    BY <1>2, LogStoreAssumption DEF Sampled
  <1>3a. kept = IF MaxSamples = 0 THEN 0 ELSE 1
    BY <1>2, LogStoreAssumption DEF Sampled
  <1>4. /\ group' = [row EXCEPT !.samples = @ + kept]
        /\ linked' = kept /\ stored' = kept /\ inWindow' = kept /\ call' = Ended(w)
        /\ inserting' = Nobody
        /\ UNCHANGED <<clock, locked, loose, dangling, lost, faults, calls, deletions>>
    BY DEF CommitCreated, Bounds
  <1>5. /\ group' \in Group /\ group'.samples = kept
        /\ group'.occurrences = 1 /\ group'.suppressed = 0
    BY <1>2, <1>3, <1>4 DEF Group
  <1>5a. group' # NoGroup
    BY <1>5, NoGroupAssumption
  <1>6. /\ call' \in [Writers -> Call]
        /\ call'[w].at = "idle" /\ call'[w].attempt = 1
        /\ \A v \in Writers \ {w} : call'[v] = call[v]
    BY <1>4, EndedCall DEF Inv
  <1> HIDE DEF row, kept
  <1>7. TypeOK'
    BY <1>3, <1>4, <1>5, <1>6 DEF Inv, TypeOK
  <1>8. LockSound' /\ InsertSound'
    BY <1>1, <1>6 DEF Inv, LockSound, InsertSound
  <1>9. HoldersExist'
    BY <1>1, <1>4, <1>6 DEF Inv, TypeOK, HoldersExist
  <1>10. SecondAttemptFinds'
    BY <1>1, <1>4, <1>6 DEF Inv, SecondAttemptFinds
  <1>11. CountsAgree'
    BY <1>3, <1>3a, <1>4, <1>5, LogStoreAssumption DEF CountsAgree
  <1>12. (CapHolds /\ RetryIsEnough)'
    BY <1>3, <1>4, <1>5 DEF Inv, CapHolds, RetryIsEnough
  <1>13. QED
    BY <1>7, <1>8, <1>9, <1>10, <1>11, <1>12 DEF Inv

\* The call holds the lock, so the row it counts on is the row.
LEMMA CommitUpdatedInv == ASSUME Inv, NEW w \in Writers, CommitUpdated(w) PROVE Inv'
  <1> DEFINE old == call[w].row
             row == Occurred(old, call[w].now)
             kept == IF Sampled(row) THEN 1 ELSE 0
  <1>1. /\ locked = w /\ group # NoGroup /\ old = group /\ old \in Group
        /\ call[w].now \in Nat /\ call[w].at = "update"
    BY DEF Inv, TypeOK, LockSound, CommitUpdated, Call
  <1>2. /\ row \in Group /\ row.occurrences = old.occurrences + 1
        /\ row.suppressed = old.suppressed
        /\ \/ row.window = old.window /\ row.samples = old.samples
           \/ row.window # old.window /\ row.samples = 0
    BY <1>1, OccurredType
  <1>3. /\ group' = IF Sampled(row) THEN [row EXCEPT !.samples = @ + 1]
                    ELSE [row EXCEPT !.suppressed = @ + 1]
        /\ linked' = linked + kept /\ stored' = stored + kept /\ call' = Ended(w)
        /\ inWindow' = kept + IF row.window = old.window THEN inWindow ELSE 0
        /\ locked' = Nobody
        /\ UNCHANGED <<clock, inserting, loose, dangling, lost, faults, calls, deletions>>
    BY <1>1 DEF CommitUpdated, Bounds
  <1>4. /\ call' \in [Writers -> Call]
        /\ call'[w].at = "idle" /\ call'[w].attempt = 1
        /\ \A v \in Writers \ {w} : call'[v] = call[v]
    BY <1>3, EndedCall DEF Inv
  <1>5. /\ old.occurrences = stored + old.suppressed + IF MaxSamples = 0 THEN 1 ELSE 0
        /\ inWindow <= MaxSamples /\ old.samples = inWindow
        /\ linked \in Nat /\ stored \in Nat /\ inWindow \in Nat
    BY <1>1 DEF Inv, TypeOK, CountsAgree, CapHolds
  <1> HIDE DEF row, old
  <1>6. /\ kept \in {0, 1} /\ group' \in Group
        /\ group'.occurrences = row.occurrences
        /\ group'.suppressed = row.suppressed + (1 - kept)
        /\ group'.samples = row.samples + kept
        /\ kept = 1 => row.samples < MaxSamples
    BY <1>2, <1>3 DEF Group, Sampled
  <1>6a. group' # NoGroup
    BY <1>6, NoGroupAssumption
  <1> HIDE DEF kept
  <1>7. row.samples \in Nat /\ row.suppressed \in Nat /\ old.suppressed \in Nat
    BY <1>1, <1>2 DEF Group
  <1>8. inWindow' = row.samples + kept /\ inWindow' \in Nat /\ inWindow' <= MaxSamples
    BY <1>2, <1>3, <1>5, <1>6, <1>7, LogStoreAssumption
  <1>9. linked' \in Nat /\ stored' \in Nat
    BY <1>3, <1>5, <1>6
  <1>10. TypeOK'
    BY <1>3, <1>4, <1>6, <1>8, <1>9 DEF Inv, TypeOK
  <1>11. LockSound' /\ InsertSound'
    BY <1>1, <1>4 DEF Inv, LockSound, InsertSound
  <1>12. HoldersExist'
    BY <1>1, <1>3, <1>4 DEF Inv, TypeOK, HoldersExist
  <1>13. SecondAttemptFinds'
    BY <1>3, <1>4, <1>6a DEF Inv, SecondAttemptFinds
  <1>14. CountsAgree'
    BY <1>2, <1>3, <1>5, <1>6, <1>7 DEF CountsAgree
  <1>15. (CapHolds /\ RetryIsEnough)'
    BY <1>3, <1>6, <1>8 DEF Inv, CapHolds, RetryIsEnough
  <1>16. QED
    BY <1>10, <1>11, <1>12, <1>13, <1>14, <1>15 DEF Inv

LEMMA FailInv == ASSUME Inv, NEW w \in Writers, Fail(w) PROVE Inv'
  <1>1. /\ call' \in [Writers -> Call]
        /\ call'[w].at = "idle" /\ call'[w].attempt = 1
        /\ \A v \in Writers \ {w} : call'[v] = call[v]
    BY EndedCall DEF Inv, Fail
  <1>2. faults' \in 0 .. MaxFaults
    BY LogStoreAssumption DEF Inv, TypeOK, Fail
  <1>3. /\ locked' \in Writers \union {Nobody} /\ inserting' \in Writers \union {Nobody}
        /\ locked' = (IF locked = w THEN Nobody ELSE locked)
        /\ inserting' = (IF inserting = w THEN Nobody ELSE inserting)
    BY DEF Inv, TypeOK, Fail
  <1>4. TypeOK'
    BY <1>1, <1>2, <1>3 DEF Inv, TypeOK, Fail, Rows
  <1>5. LockSound' /\ InsertSound'
    BY <1>1, <1>3 DEF Inv, LockSound, InsertSound, Fail, Rows
  <1>6. HoldersExist'
    BY <1>1, <1>3 DEF Inv, TypeOK, HoldersExist
  <1>7. SecondAttemptFinds'
    BY <1>1 DEF Inv, SecondAttemptFinds, Fail, Rows
  <1>8. (CountsAgree /\ CapHolds /\ RetryIsEnough)'
    BY DEF Inv, CountsAgree, CapHolds, RetryIsEnough, Fail, Rows
  <1>9. QED
    BY <1>4, <1>5, <1>6, <1>7, <1>8 DEF Inv

-----------------------------------------------------------------------------
(* The cleanup and the clock: no call changes. *)

\* A step that leaves the calls, their locks and the number of deletions alone
\* and keeps the group row keeps what is known about the calls.
LEMMA CallsKept ==
  ASSUME Inv, UNCHANGED <<call, locked, inserting, group, deletions>>
  PROVE  (LockSound /\ InsertSound /\ HoldersExist /\ SecondAttemptFinds)'
  BY DEF Inv, LockSound, InsertSound, HoldersExist, SecondAttemptFinds

LEMMA PruneEventsInv == ASSUME Inv, PruneEvents PROVE Inv'
  <1>1. linked' \in Nat
    BY DEF Inv, TypeOK, PruneEvents
  <1>2. TypeOK'
    BY <1>1 DEF Inv, TypeOK, PruneEvents, Bounds
  <1>3. (LockSound /\ InsertSound /\ HoldersExist /\ SecondAttemptFinds)'
    BY CallsKept DEF PruneEvents, Bounds
  <1>4. QED
    BY <1>2, <1>3 DEF Inv, CountsAgree, CapHolds, RetryIsEnough, PruneEvents, Bounds

LEMMA PruneReadsGroupsInv == ASSUME Inv, PruneReadsGroups PROVE Inv'
  <1>1. dangling' \in BOOLEAN
    BY DEF PruneReadsGroups
  <1>2. TypeOK'
    BY <1>1 DEF Inv, TypeOK, PruneReadsGroups, Rows, Bounds
  <1>3. (LockSound /\ InsertSound /\ HoldersExist /\ SecondAttemptFinds)'
    BY CallsKept DEF PruneReadsGroups, Rows, Bounds
  <1>4. QED
    BY <1>2, <1>3 DEF Inv, CountsAgree, CapHolds, RetryIsEnough, PruneReadsGroups, Rows, Bounds

LEMMA PruneCollidesInv == ASSUME Inv, PruneCollides PROVE Inv'
  <1>1. dangling' \in BOOLEAN
    BY DEF PruneCollides
  <1>2. TypeOK'
    BY <1>1 DEF Inv, TypeOK, PruneCollides, Rows, Bounds
  <1>3. (LockSound /\ InsertSound /\ HoldersExist /\ SecondAttemptFinds)'
    BY CallsKept DEF PruneCollides, Rows, Bounds
  <1>4. QED
    BY <1>2, <1>3 DEF Inv, CountsAgree, CapHolds, RetryIsEnough, PruneCollides, Rows, Bounds

LEMMA PruneDeletesGroupInv == ASSUME Inv, PruneDeletesGroup PROVE Inv'
  <1>1. dangling' \in BOOLEAN
    BY DEF PruneDeletesGroup
  <1>2. /\ loose' \in Nat /\ linked' = 0 /\ stored' = 0 /\ inWindow' = 0
        /\ deletions' \in Nat /\ deletions' # 0
    BY DEF Inv, TypeOK, PruneDeletesGroup
  <1>3. TypeOK'
    BY <1>1, <1>2 DEF Inv, TypeOK, PruneDeletesGroup
  <1>4. LockSound' /\ InsertSound' /\ HoldersExist'
    BY LogStoreAssumption
    DEF Inv, LockSound, InsertSound, HoldersExist, PruneDeletesGroup
  <1>5. SecondAttemptFinds' /\ RetryIsEnough'
    BY <1>2 DEF SecondAttemptFinds, RetryIsEnough
  <1>6. CountsAgree' /\ CapHolds'
    BY DEF CountsAgree, CapHolds, PruneDeletesGroup
  <1>7. QED
    BY <1>3, <1>4, <1>5, <1>6 DEF Inv

LEMMA TickInv == ASSUME Inv, Tick PROVE Inv'
  <1>1. clock' \in 0 .. MaxTime
    BY LogStoreAssumption DEF Inv, TypeOK, Tick
  <1>2. TypeOK'
    BY <1>1 DEF Inv, TypeOK, Tick, Rows, Bounds
  <1>3. (LockSound /\ InsertSound /\ HoldersExist /\ SecondAttemptFinds)'
    BY CallsKept DEF Tick, Rows, Bounds
  <1>4. QED
    BY <1>2, <1>3 DEF Inv, CountsAgree, CapHolds, RetryIsEnough, Tick, Rows, Bounds

-----------------------------------------------------------------------------
(* Every step, and the theorems. *)

LEMMA NextInv == Inv /\ [Next]_vars => Inv'
  <1> SUFFICES ASSUME Inv, [Next]_vars PROVE Inv'
    OBVIOUS
  <1>1. ASSUME NEW w \in Writers, Persist(w) PROVE Inv'
    BY <1>1, BeginInv, LookupFoundInv, LookupMissingInv, CreateGroupInv, CreateCollidesInv,
       CommitCreatedInv, CommitUpdatedInv, FailInv DEF Persist
  <1>2. CASE Cleanup
    BY <1>2, PruneEventsInv, PruneReadsGroupsInv, PruneDeletesGroupInv, PruneCollidesInv
    DEF Cleanup
  <1>3. CASE Tick
    BY <1>3, TickInv
  <1>4. CASE UNCHANGED vars
    BY <1>4 DEF vars, Inv, TypeOK, LockSound, InsertSound, HoldersExist, SecondAttemptFinds,
                CountsAgree, CapHolds, RetryIsEnough
  <1>5. QED
    BY <1>1, <1>2, <1>3, <1>4 DEF Next

\* The inductive invariant holds in every reachable state.
LEMMA Invariance == Spec => []Inv
  <1>1. Init => Inv
    BY InitInv
  <1>2. Inv /\ [Next]_vars => Inv'
    BY NextInv
  <1>3. QED
    BY <1>1, <1>2, PTL DEF Spec

\* persist_event and the cleanup keep every row and call of its type; no call
\* makes a third attempt.
THEOREM StoreTypeCorrect == Spec => []TypeOK
  <1>1. Inv => TypeOK
    BY DEF Inv
  <1>2. QED
    BY <1>1, Invariance, PTL

\* persist_event counts every occurrence once, for any number of concurrent
\* calls, also over a cleanup that deletes groups.
THEOREM OccurrencesCounted == Spec => []CountsAgree
  <1>1. Inv => CountsAgree
    BY DEF Inv
  <1>2. QED
    BY <1>1, Invariance, PTL

\* persist_event keeps at most LOG_MAX_SAMPLES_PER_GROUP events of a window.
THEOREM SamplesBounded == Spec => []CapHolds
  <1>1. Inv => CapHolds
    BY DEF Inv
  <1>2. QED
    BY <1>1, Invariance, PTL

\* The two counters of a group are true at once, for any number of concurrent
\* calls.
THEOREM CountersAlwaysAgree == Spec => []CountersAgree
  <1>1. CountsAgree /\ CapHolds => CountersAgree
    BY DEF CountersAgree
  <1>2. QED
    BY <1>1, OccurrencesCounted, SamplesBounded, PTL

\* The one retry of persist_event is enough for any number of concurrent first
\* inserts, as long as no cleanup deletes the group between the attempts.
THEOREM OneRetrySuffices == Spec => []RetryIsEnough
  <1>1. Inv => RetryIsEnough
    BY DEF Inv
  <1>2. QED
    BY <1>1, Invariance, PTL

=============================================================================
