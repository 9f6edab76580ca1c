---------------------------- MODULE Availability ----------------------------
(***************************************************************************)
(* One availability monitor (uptime.py): scheduler runs that find it due,   *)
(* take its lease in the cache, probe the target and record what they saw;  *)
(* the incidents that record_check opens and closes by the thresholds; the  *)
(* alerts sent after the commit; and administrators who acknowledge an      *)
(* incident, change the thresholds or let retention delete old incidents    *)
(* meanwhile.                                                              *)
(*                                                                         *)
(* The lease is never given back: it lapses, and may do so while its taker  *)
(* still waits for a slow target.  A run may die at any point.              *)
(*                                                                         *)
(* record_check looks only at the newest checks, so a check is its status   *)
(* and its place n in the streak of equal statuses it belongs to (counted   *)
(* up to MaxStreak): n = 1 is the first observation of its streak, and an   *)
(* incident's boundary timestamps are the places of the checks they were    *)
(* copied from.                                                            *)
(***************************************************************************)
EXTENDS Integers, Sequences, FiniteSets

CONSTANTS
    Runs,          \* scheduler runs that may overlap
    Admins,        \* administrators who acknowledge incidents
    Incidents,     \* incident ids; bound: how many can exist at a time
    Failure,       \* failure_threshold to begin with
    Recovery,      \* recovery_threshold to begin with
    MaxThreshold,  \* bound: thresholds an edit may choose (20 in the code)
    MaxStreak,     \* bound: how far a streak is counted
    MaxEdits,      \* bound: changes of the thresholds
    MaxCrashes,    \* bound: runs killed
    Nobody         \* no incident

ASSUME AvailabilityAssumption ==
    /\ MaxThreshold \in Nat
    /\ Failure \in 1 .. MaxThreshold
    /\ Recovery \in 1 .. MaxThreshold
    /\ MaxStreak \in Nat /\ MaxStreak > MaxThreshold + 2
    /\ MaxEdits \in Nat
    /\ MaxCrashes \in Nat
    /\ Nobody \notin Incidents

VARIABLES
    due,         \* the interval has elapsed since the newest check
    lease,       \* the lease key is in the cache
    run,         \* the scheduler runs
    checks,      \* UptimeCheck rows, newest first, as far as they are read
    incidents,   \* UptimeIncident rows, oldest first
    thresholds,  \* the monitor's two thresholds
    reading,     \* incident an administrator has read and will acknowledge
    cooling,     \* the "opened" alert key is in the cache
    edits, crashes

vars == <<due, lease, run, checks, incidents, thresholds, reading, cooling, edits, crashes>>

Statuses == {"up", "down", "unknown"}
Keep == MaxThreshold + 2

Check == [status : Statuses, n : 1 .. MaxStreak]
Incident == [id : Incidents, state : {"open", "acknowledged", "recovered"},
             failure : 1 .. MaxStreak,       \* first_confirmed_failure_at
             recovery : 0 .. MaxStreak,      \* first_confirmed_recovery_at, 0 for none
             told : SUBSET {"opened", "recovered"}]   \* alerts delivered
Run == [at : {"idle", "listed", "probing", "seen", "alerting"}, seen : Statuses,
        alert : {"opened", "recovered"}, about : Incidents \union {Nobody}]

IdleRun == [at |-> "idle", seen |-> "unknown", alert |-> "opened", about |-> Nobody]

Init ==
    /\ due = TRUE
    /\ lease = FALSE
    /\ run = [r \in Runs |-> IdleRun]
    /\ checks = <<>>
    /\ incidents = <<>>
    /\ thresholds = [failure |-> Failure, recovery |-> Recovery]
    /\ reading = [a \in Admins |-> Nobody]
    /\ cooling = FALSE
    /\ edits = 0
    /\ crashes = 0

-----------------------------------------------------------------------------
(* check_uptime: the list of due monitors, the lease, the probe. *)

\* monitors_due_for_check is asked once, before the first probe of the run.
List(r) ==
    /\ run[r].at = "idle" /\ due
    /\ run' = [run EXCEPT ![r].at = "listed"]
    /\ UNCHANGED <<due, lease, checks, incidents, thresholds, reading, cooling, edits, crashes>>

\* acquire_monitor_check_lease, when the run gets to this monitor.
TakeTurn(r) ==
    /\ run[r].at = "listed"
    /\ run' = [run EXCEPT ![r].at = IF lease THEN "idle" ELSE "probing"]
    /\ lease' = TRUE
    /\ UNCHANGED <<due, checks, incidents, thresholds, reading, cooling, edits, crashes>>

\* _evaluate_response and what comes before it: a probe that cannot be made safely
\* says nothing; an answer that breaks off, is of another type or status, or fails
\* an assertion is a failure, like none at all.
Fates == {"not made", "no answer", "not as expected", "as expected"}
Verdict(f) == CASE f = "not made" -> "unknown"
                [] f = "as expected" -> "up"
                [] OTHER -> "down"

\* perform_check: what it sees is decided at one moment; the answer may take
\* long to be recorded.
Probe(r) ==
    /\ run[r].at = "probing"
    /\ \E f \in Fates : run' = [run EXCEPT ![r].at = "seen", ![r].seen = Verdict(f)]
    /\ UNCHANGED <<due, lease, checks, incidents, thresholds, reading, cooling, edits, crashes>>

-----------------------------------------------------------------------------
(* record_check. *)

\* The checks with a new one, as many as any later call can look at.
Observed(s) ==
    LET place == IF checks # <<>> /\ checks[1].status = s
                 THEN IF checks[1].n < MaxStreak THEN checks[1].n + 1 ELSE MaxStreak
                 ELSE 1
        all == <<[status |-> s, n |-> place]>> \o checks
    IN  IF Len(all) > Keep THEN SubSeq(all, 1, Keep) ELSE all

\* Variant of Recent: no room beside the larger threshold.
RecentTight(cs) ==
    LET larger == IF thresholds.failure > thresholds.recovery
                  THEN thresholds.failure ELSE thresholds.recovery
    IN  IF Len(cs) > larger - 1 THEN SubSeq(cs, 1, larger - 1) ELSE cs

\* The checks record_check reads.
Recent(cs) ==
    LET larger == IF thresholds.failure > thresholds.recovery
                  THEN thresholds.failure ELSE thresholds.recovery
    IN  IF Len(cs) > larger + 2 THEN SubSeq(cs, 1, larger + 2) ELSE cs

\* _streak: how many of the newest checks in a row have the status s.
IsStreak(cs, s, k) ==
    /\ k \in 0 .. Len(cs)
    /\ \A i \in 1 .. k : cs[i].status = s
    /\ k < Len(cs) => cs[k + 1].status # s

Streak(cs, s) == CHOOSE k \in 0 .. Len(cs) : IsStreak(cs, s, k)

Ongoing == {i \in DOMAIN incidents : incidents[i].state \in {"open", "acknowledged"}}

\* The ongoing incident that started last.
OpenIncident == CHOOSE i \in Ongoing : \A j \in Ongoing : j <= i

\* Ids are never used twice, so a stale reader must not meet a new incident.
FreeIds == Incidents \ ({incidents[i].id : i \in DOMAIN incidents}
                        \union {reading[a] : a \in Admins} \union {run[r].about : r \in Runs})

\* Variant of Opens: an ongoing incident is not looked for.
OpensAgain(s, recent) == s = "down" /\ Streak(recent, s) >= thresholds.failure

Opens(s, recent) ==
    s = "down" /\ Streak(recent, s) >= thresholds.failure /\ Ongoing = {}

\* Variant of Recovers: one observation too many is asked for.
RecoversLate(s, recent) ==
    s = "up" /\ Streak(recent, s) > thresholds.recovery /\ Ongoing # {}

Recovers(s, recent) ==
    s = "up" /\ Streak(recent, s) >= thresholds.recovery /\ Ongoing # {}

\* The place of the oldest check of the newest streak, among those read.
FirstSeen(s, recent) == recent[Streak(recent, s)].n

Done(r) == [run EXCEPT ![r] = IdleRun]
Alerting(r, a, i) == [run EXCEPT ![r].at = "alerting", ![r].alert = a, ![r].about = i]

RecordOpens(r) ==
    LET s == run[r].seen
        recent == Recent(Observed(s))
    IN  /\ run[r].at = "seen"
        /\ Opens(s, recent)
        /\ \E i \in FreeIds :
              /\ incidents' = Append(incidents,
                     [id |-> i, state |-> "open", failure |-> FirstSeen(s, recent),
                      recovery |-> 0, told |-> {}])
              /\ run' = Alerting(r, "opened", i)
        /\ checks' = Observed(s)
        /\ due' = FALSE
        /\ UNCHANGED <<lease, thresholds, reading, cooling, edits, crashes>>

RecordRecovers(r) ==
    LET s == run[r].seen
        recent == Recent(Observed(s))
    IN  /\ run[r].at = "seen"
        /\ Recovers(s, recent)
        /\ incidents' = [incidents EXCEPT ![OpenIncident].state = "recovered",
                                          ![OpenIncident].recovery = FirstSeen(s, recent)]
        /\ run' = Alerting(r, "recovered", incidents[OpenIncident].id)
        /\ checks' = Observed(s)
        /\ due' = FALSE
        /\ UNCHANGED <<lease, thresholds, reading, cooling, edits, crashes>>

RecordOnly(r) ==
    LET s == run[r].seen
        recent == Recent(Observed(s))
    IN  /\ run[r].at = "seen"
        /\ ~Opens(s, recent) /\ ~Recovers(s, recent)
        /\ run' = Done(r)
        /\ checks' = Observed(s)
        /\ due' = FALSE
        /\ UNCHANGED <<lease, incidents, thresholds, reading, cooling, edits, crashes>>

Record(r) == RecordOpens(r) \/ RecordRecovers(r) \/ RecordOnly(r)

\* send_alert, after the commit.  The opening of any incident of the monitor
\* has one deduplication key, a recovery has one of its own per incident.
Alert(r) ==
    LET suppressed == run[r].alert = "opened" /\ cooling IN
    /\ run[r].at = "alerting"
    /\ incidents' = [i \in DOMAIN incidents |->
           IF incidents[i].id = run[r].about /\ ~suppressed
           THEN [incidents[i] EXCEPT !.told = @ \union {run[r].alert}] ELSE incidents[i]]
    /\ cooling' = (cooling \/ run[r].alert = "opened")
    /\ run' = Done(r)
    /\ UNCHANGED <<due, lease, checks, thresholds, reading, edits, crashes>>

\* The process dies: its lease stays.
Crash(r) ==
    /\ run[r].at # "idle" /\ crashes < MaxCrashes
    /\ run' = Done(r)
    /\ crashes' = crashes + 1
    /\ UNCHANGED <<due, lease, checks, incidents, thresholds, reading, cooling, edits>>

-----------------------------------------------------------------------------
(* Administrators and retention. *)

\* availability_incident_acknowledge reads the incident ...
AckRead(a) ==
    /\ reading[a] = Nobody
    /\ \E i \in Ongoing : reading' = [reading EXCEPT ![a] = incidents[i].id]
    /\ UNCHANGED <<due, lease, run, checks, incidents, thresholds, cooling, edits, crashes>>

\* ... and then writes the state, without a lock and without a second look.
AckWrite(a) ==
    /\ reading[a] # Nobody
    /\ incidents' = [i \in DOMAIN incidents |->
           IF incidents[i].id = reading[a]
           THEN [incidents[i] EXCEPT !.state = "acknowledged"] ELSE incidents[i]]
    /\ reading' = [reading EXCEPT ![a] = Nobody]
    /\ UNCHANGED <<due, lease, run, checks, thresholds, cooling, edits, crashes>>

\* uptime_monitor_update.
Edit ==
    /\ edits < MaxEdits
    /\ \E f, c \in 1 .. MaxThreshold : thresholds' = [failure |-> f, recovery |-> c]
    /\ edits' = edits + 1
    /\ UNCHANGED <<due, lease, run, checks, incidents, reading, cooling, crashes>>

\* paxalia_resource_prune deletes recovered incidents, the oldest first.
Prune ==
    /\ \E i \in DOMAIN incidents :
          /\ incidents[i].state = "recovered"
          /\ \A j \in 1 .. i - 1 : incidents[j].state # "recovered"
          /\ incidents' = SubSeq(incidents, 1, i - 1) \o SubSeq(incidents, i + 1, Len(incidents))
    /\ UNCHANGED <<due, lease, run, checks, thresholds, reading, cooling, edits, crashes>>

-----------------------------------------------------------------------------
(* The cache and the clock. *)

ComesDue ==
    /\ ~due /\ due' = TRUE
    /\ UNCHANGED <<lease, run, checks, incidents, thresholds, reading, cooling, edits, crashes>>

\* Variant of LeaseLapses: a key without a timeout.
LeaseStays ==
    /\ ~lease /\ lease' = FALSE
    /\ UNCHANGED <<due, run, checks, incidents, thresholds, reading, cooling, edits, crashes>>

LeaseLapses ==
    /\ lease /\ lease' = FALSE
    /\ UNCHANGED <<due, run, checks, incidents, thresholds, reading, cooling, edits, crashes>>

CooldownEnds ==
    /\ cooling /\ cooling' = FALSE
    /\ UNCHANGED <<due, lease, run, checks, incidents, thresholds, reading, edits, crashes>>

-----------------------------------------------------------------------------
RunStep(r) == List(r) \/ TakeTurn(r) \/ Probe(r) \/ Record(r) \/ Alert(r) \/ Crash(r)
AdminStep(a) == AckRead(a) \/ AckWrite(a)
Outside == Edit \/ Prune \/ ComesDue \/ LeaseLapses \/ CooldownEnds

Next == (\E r \in Runs : RunStep(r)) \/ (\E a \in Admins : AdminStep(a)) \/ Outside

Spec == Init /\ [][Next]_vars

-----------------------------------------------------------------------------
(* Properties. *)

\* Every row, run and key has a value of its type.
TypeOK ==
    /\ due \in BOOLEAN /\ lease \in BOOLEAN /\ cooling \in BOOLEAN
    /\ run \in [Runs -> Run]
    /\ checks \in Seq(Check) /\ Len(checks) <= Keep
    /\ incidents \in Seq(Incident)
    /\ thresholds \in [failure : 1 .. MaxThreshold, recovery : 1 .. MaxThreshold]
    /\ reading \in [Admins -> Incidents \union {Nobody}]
    /\ edits \in 0 .. MaxEdits
    /\ crashes \in 0 .. MaxCrashes

\* The newest k checks all have the status s.
Last(k, s) == Len(checks) >= k /\ \A i \in 1 .. k : checks[i].status = s

\* The monitor is never down for as many observations in a row as its
\* threshold asks for without an ongoing incident, whichever runs recorded
\* them and in whatever order they finished.
OutageHasIncident ==
    edits = 0 => (Last(thresholds.failure, "down") => Ongoing # {})

\* An incident is opened by the check that completes the streak, so the
\* failure it was opened for is the first observation of that streak.
FailureIsFirst ==
    edits = 0 => \A i \in DOMAIN incidents : incidents[i].failure = 1

\* However runs overlap, a monitor has at most one ongoing incident.
OneOngoing == \A i, j \in Ongoing : i = j

\* An incident never outlives as many healthy observations in a row as its
\* threshold asks for, and is recovered as of the first of them.
RecoveryIsFirst ==
    edits = 0 =>
        /\ Last(thresholds.recovery, "up") => Ongoing = {}
        /\ \A i \in DOMAIN incidents : incidents[i].recovery \in {0, 1}

\* Both edges of an outage are recorded at the threshold and dated by the first
\* observation of the streak, whatever runs overlap.
EdgesAreFirst == FailureIsFirst /\ RecoveryIsFirst

\* Fairness: the scheduler starts runs again and again, a run that is not
\* killed goes on, so does an acknowledgement, the cache drops the key, time
\* passes, retention is run.
Fairness ==
    /\ \A r \in Runs : WF_vars(List(r)) /\ WF_vars(TakeTurn(r)) /\ WF_vars(Probe(r))
                       /\ WF_vars(Record(r)) /\ WF_vars(Alert(r))
    /\ \A a \in Admins : WF_vars(AckWrite(a))
    /\ WF_vars(LeaseLapses) /\ WF_vars(ComesDue) /\ WF_vars(Prune)

FairSpec == Spec /\ Fairness

\* Every probe that has been answered and not recorded found the target down.
SeenDown == \A r \in Runs : run[r].at = "seen" => run[r].seen = "down"

\* A target that stays down ends up with an incident that stays, whatever
\* runs die holding the lease.
LastingOutageIsFound == <>[]SeenDown => <>[](Ongoing # {})

-----------------------------------------------------------------------------
(* What the repository says of itself and the code does not do. *)

\* availability_incident_acknowledge: "This incident is already recovered." is
\* the answer for an incident that is not ongoing, and it is left alone.
RecoveredStays ==
    [][\A i \in DOMAIN incidents : incidents[i].state = "recovered" =>
          \A j \in DOMAIN incidents' :
              incidents'[j].id = incidents[i].id => incidents'[j].state = "recovered"]_vars

\* docs/notifications.md: "Availability transitions use the shared alert system
\* for incident-opened and incident-recovered notifications."
RecoveryWasAnnounced ==
    \A i \in DOMAIN incidents : "recovered" \in incidents[i].told => "opened" \in incidents[i].told
=============================================================================
