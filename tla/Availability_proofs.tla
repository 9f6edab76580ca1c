------------------------ MODULE Availability_proofs ------------------------
(* Proofs about Availability: for any number of overlapping runs and any    *)
(* thresholds, an outage that reaches its threshold has an incident, opened *)
(* for the first observation of the outage; and, when no administrator acts *)
(* on a stale read, incidents are closed by their recovery and there is at  *)
(* most one.                                                               *)
EXTENDS Availability, WellFoundedInduction, TLAPS

-----------------------------------------------------------------------------
(* Numbers and streaks. *)

\* A nonempty set of numbers has a least one.
LEMMA Least ==
  ASSUME NEW T \in SUBSET Nat, T # {}
  PROVE  \E x \in T : \A y \in T : x <= y
  <1> DEFINE R == {p \in Nat \X Nat : p[1] < p[2]}
  <1>1. IsWellFoundedOn(R, Nat)
    BY NatLessThanWellFounded DEF OpToRel
  <1> HIDE DEF R
  <1>2. PICK x \in T : \A y \in T : ~ (<<y, x>> \in R)
    BY <1>1, WFMin
  <1>3. \A y \in T : ~ (y < x)
    BY <1>2 DEF R
  <1>4. QED
    BY <1>3

\* A nonempty set of positions of a sequence has a last one.
LEMMA LastPosition ==
  ASSUME NEW n \in Nat, NEW S \in SUBSET (1 .. n), S # {}
  PROVE  \E i \in S : \A j \in S : j <= i
  <1> DEFINE T == {n - i : i \in S}
  <1>1. T \in SUBSET Nat
    <2>1. \A i \in S : n - i \in Nat
      OBVIOUS
    <2>2. QED
      BY <2>1
  <1>2. T # {}
    <2>1. PICK i : i \in S
      OBVIOUS
    <2>2. n - i \in T
      BY <2>1
    <2>3. QED
      BY <2>2
  <1>3. PICK x \in T : \A y \in T : x <= y
    <2> HIDE DEF T
    <2>1. QED
      BY <1>1, <1>2, Least
  <1>4. PICK i \in S : x = n - i
    BY <1>3
  <1>5. \A j \in S : j <= i
    <2> SUFFICES ASSUME NEW j \in S PROVE j <= i
      OBVIOUS
    <2>1. n - j \in T
      OBVIOUS
    <2>2. n - i <= n - j
      BY <1>3, <1>4, <2>1
    <2>3. QED
      BY <2>2
  <1>6. QED
    BY <1>5

\* Every sequence of checks has a streak of every status, and Streak is it.
LEMMA StreakIs ==
  ASSUME NEW cs \in Seq(Check), NEW s
  PROVE  /\ Streak(cs, s) \in 0 .. Len(cs)
         /\ IsStreak(cs, s, Streak(cs, s))
  <1> DEFINE B == {i \in 1 .. Len(cs) : cs[i].status # s}
  <1>1. \E k \in 0 .. Len(cs) : IsStreak(cs, s, k)
    <2>1. CASE B = {}
      <3>1. IsStreak(cs, s, Len(cs))
        BY <2>1 DEF IsStreak
      <3>2. QED
        BY <3>1
    <2>2. CASE B # {}
      <3>1. B \in SUBSET Nat
        OBVIOUS
      <3>2. PICK x \in B : \A y \in B : x <= y
        <4> HIDE DEF B
        <4>1. QED
          BY <2>2, <3>1, Least
      <3>3. x \in 1 .. Len(cs) /\ cs[x].status # s
        BY <3>2
      <3>4. \A i \in 1 .. x - 1 : cs[i].status = s
        BY <3>2, <3>3
      <3>5. x - 1 \in 0 .. Len(cs) /\ IsStreak(cs, s, x - 1)
        BY <3>3, <3>4 DEF IsStreak
      <3>6. QED
        BY <3>5
    <2>3. QED
      BY <2>1, <2>2
  <1>2. QED
    BY <1>1 DEF Streak

-----------------------------------------------------------------------------
(* The checks. *)

\* What a new check does to the rows: it is the newest, the others move on.
LEMMA ObservedIs ==
  ASSUME NEW s \in Statuses, TypeOK
  PROVE  /\ Observed(s) \in Seq(Check)
         /\ Len(Observed(s)) \in 1 .. Keep
         /\ Len(Observed(s)) = IF Len(checks) < Keep THEN Len(checks) + 1 ELSE Keep
         /\ Observed(s)[1].status = s
         /\ Observed(s)[1].n = IF checks # <<>> /\ checks[1].status = s
                               THEN IF checks[1].n < MaxStreak THEN checks[1].n + 1 ELSE MaxStreak
                               ELSE 1
         /\ \A i \in 2 .. Len(Observed(s)) : Observed(s)[i] = checks[i - 1]
  <1> DEFINE place == IF checks # <<>> /\ checks[1].status = s
                      THEN IF checks[1].n < MaxStreak THEN checks[1].n + 1 ELSE MaxStreak
                      ELSE 1
             first == [status |-> s, n |-> place]
             all == <<first>> \o checks
  <1>1. checks \in Seq(Check) /\ Len(checks) <= Keep /\ Len(checks) \in Nat
    BY DEF TypeOK
  <1>2. MaxStreak \in Nat /\ MaxStreak >= 1 /\ Keep \in Nat /\ Keep >= 1
    BY AvailabilityAssumption DEF Keep
  <1>3. place \in 1 .. MaxStreak
    <2>1. CASE checks # <<>>
      <3>1. checks[1] \in Check
        BY <1>1, <2>1
      <3>2. checks[1].n \in 1 .. MaxStreak
        BY <3>1 DEF Check
      <3>3. QED
        BY <1>2, <3>2
    <2>2. CASE checks = <<>>
      BY <1>2, <2>2
    <2>3. QED
      BY <2>1, <2>2
  <1> HIDE DEF place
  <1>4. first \in Check /\ first.status = s /\ first.n = place
    BY <1>3 DEF Check
  <1> HIDE DEF first
  <1>5. /\ all \in Seq(Check)
        /\ Len(all) = Len(checks) + 1
        /\ all[1] = first
        /\ \A i \in 2 .. Len(all) : all[i] = checks[i - 1]
    BY <1>1, <1>4
  <1>6. Observed(s) = IF Len(all) > Keep THEN SubSeq(all, 1, Keep) ELSE all
    BY DEF Observed, all, first, place
  <1> HIDE DEF all
  <1>7. CASE Len(all) > Keep
    <2>1. Observed(s) = SubSeq(all, 1, Keep)
      BY <1>6, <1>7
    <2>2. /\ SubSeq(all, 1, Keep) \in Seq(Check)
          /\ Len(SubSeq(all, 1, Keep)) = Keep
          /\ \A i \in 1 .. Keep : SubSeq(all, 1, Keep)[i] = all[i]
      BY <1>2, <1>5, <1>7
    <2>3. QED
      BY <1>1, <1>2, <1>4, <1>5, <1>7, <2>1, <2>2 DEF place
  <1>8. CASE ~ (Len(all) > Keep)
    <2>1. Observed(s) = all
      BY <1>6, <1>8
    <2>2. QED
      BY <1>1, <1>2, <1>4, <1>5, <1>8, <2>1 DEF place
  <1>9. QED
    BY <1>7, <1>8

\* The checks read are the newest ones, two more than the larger threshold.
LEMMA RecentIs ==
  ASSUME NEW cs \in Seq(Check), TypeOK
  PROVE  LET cs1 == Recent(cs)
         IN  /\ cs1 \in Seq(Check)
             /\ Len(cs1) <= Len(cs)
             /\ \A i \in 1 .. Len(cs1) : cs1[i] = cs[i]
             /\ Len(cs1) < Len(cs) =>
                   /\ Len(cs1) >= thresholds.failure + 2
                   /\ Len(cs1) >= thresholds.recovery + 2
  <1> DEFINE larger == IF thresholds.failure > thresholds.recovery
                       THEN thresholds.failure ELSE thresholds.recovery
  <1>1. /\ thresholds.failure \in Nat /\ thresholds.recovery \in Nat
        /\ larger \in Nat /\ larger >= thresholds.failure /\ larger >= thresholds.recovery
    BY DEF TypeOK
  <1>2. Recent(cs) = IF Len(cs) > larger + 2 THEN SubSeq(cs, 1, larger + 2) ELSE cs
    BY DEF Recent
  <1> HIDE DEF larger
  <1>3. CASE Len(cs) > larger + 2
    <2>1. Recent(cs) = SubSeq(cs, 1, larger + 2)
      BY <1>2, <1>3
    <2>2. /\ SubSeq(cs, 1, larger + 2) \in Seq(Check)
          /\ Len(SubSeq(cs, 1, larger + 2)) = larger + 2
          /\ \A i \in 1 .. larger + 2 : SubSeq(cs, 1, larger + 2)[i] = cs[i]
      BY <1>1, <1>3
    <2>3. QED
      BY <1>1, <1>3, <2>1, <2>2
  <1>4. CASE ~ (Len(cs) > larger + 2)
    <2>1. Recent(cs) = cs
      BY <1>2, <1>4
    <2>2. QED
      BY <2>1
  <1>5. QED
    BY <1>3, <1>4

\* Where the status changes, a streak begins; so it does at the oldest check
\* while none has been left out.
Places(cs) ==
  /\ \A i \in 1 .. Len(cs) - 1 : cs[i + 1].status # cs[i].status => cs[i].n = 1
  /\ 0 < Len(cs) /\ Len(cs) < Keep => cs[Len(cs)].n = 1

\* A new check keeps the places right.
LEMMA ObservedPlaces ==
  ASSUME NEW s \in Statuses, TypeOK, Places(checks)
  PROVE  Places(Observed(s))
  <1> DEFINE cs == Observed(s)
  <1>1. /\ checks \in Seq(Check) /\ Len(checks) \in Nat /\ Len(checks) <= Keep
        /\ Keep \in Nat /\ Keep >= 2
    BY AvailabilityAssumption DEF TypeOK, Keep
  <1>2. /\ cs \in Seq(Check)
        /\ Len(cs) = IF Len(checks) < Keep THEN Len(checks) + 1 ELSE Keep
        /\ cs[1].status = s
        /\ (checks # <<>> /\ checks[1].status = s) \/ cs[1].n = 1
        /\ \A i \in 2 .. Len(cs) : cs[i] = checks[i - 1]
    BY ObservedIs
  <1> HIDE DEF cs
  <1>3. ASSUME NEW i \in 1 .. Len(cs) - 1, cs[i + 1].status # cs[i].status
        PROVE  cs[i].n = 1
    <2>1. CASE i = 1
      <3>1. cs[2] = checks[1]
        BY <1>1, <1>2, <1>3, <2>1
      <3>2. QED
        BY <1>2, <1>3, <2>1, <3>1
    <2>2. CASE i # 1
      <3>1. cs[i] = checks[i - 1] /\ cs[i + 1] = checks[i]
        BY <1>1, <1>2, <2>2
      <3>2. i - 1 \in 1 .. Len(checks) - 1
        BY <1>1, <1>2, <2>2
      <3>3. checks[(i - 1) + 1].status # checks[i - 1].status => checks[i - 1].n = 1
        BY <3>2 DEF Places
      <3>4. QED
        BY <1>3, <3>1, <3>3
    <2>3. QED
      BY <2>1, <2>2
  <1>4. ASSUME 0 < Len(cs), Len(cs) < Keep
        PROVE  cs[Len(cs)].n = 1
    <2>1. Len(cs) = Len(checks) + 1 /\ Len(checks) < Keep
      BY <1>1, <1>2, <1>4
    <2>2. CASE Len(checks) = 0
      BY <1>1, <1>2, <2>1, <2>2
    <2>3. CASE Len(checks) # 0
      <3>1. checks[Len(checks)].n = 1
        BY <1>1, <2>1, <2>3 DEF Places
      <3>2. cs[Len(cs)] = checks[Len(checks)]
        BY <1>1, <1>2, <2>1, <2>3
      <3>3. QED
        BY <3>1, <3>2
    <2>4. QED
      BY <2>2, <2>3
  <1>5. QED
    BY <1>3, <1>4 DEF Places, cs

\* A streak no longer than a threshold is read to its beginning, so the
\* oldest of its checks among those read is the first of them all.
LEMMA FirstPlace ==
  ASSUME NEW s \in Statuses, TypeOK, Places(checks),
         NEW t \in {thresholds.failure, thresholds.recovery},
         Streak(Recent(Observed(s)), s) \in 1 .. t
  PROVE  FirstSeen(s, Recent(Observed(s))) = 1
  <1> DEFINE cs == Observed(s)
             recent == Recent(cs)
             k == Streak(recent, s)
  <1>1. /\ cs \in Seq(Check) /\ Len(cs) \in 1 .. Keep
        /\ Places(cs)
    BY ObservedIs, ObservedPlaces
  <1> HIDE DEF cs
  <1>2. /\ recent \in Seq(Check)
        /\ Len(recent) <= Len(cs) /\ Len(recent) \in Nat
        /\ \A i \in 1 .. Len(recent) : recent[i] = cs[i]
        /\ Len(recent) < Len(cs) => Len(recent) >= t + 2
    BY <1>1, RecentIs
  <1> HIDE DEF recent
  <1>3. k \in 0 .. Len(recent) /\ IsStreak(recent, s, k)
    BY <1>2, StreakIs
  <1>4. k \in 1 .. t
    BY DEF cs, recent
  <1> HIDE DEF k
  <1>5. t \in 1 .. MaxThreshold /\ MaxThreshold \in Nat /\ Keep = MaxThreshold + 2
    BY AvailabilityAssumption DEF TypeOK, Keep
  <1>6. recent[k] = cs[k] /\ recent[k].status = s
    BY <1>2, <1>3, <1>4 DEF IsStreak
  <1>7. CASE k < Len(recent)
    <2>1. recent[k + 1] = cs[k + 1] /\ recent[k + 1].status # s
      BY <1>2, <1>3, <1>4, <1>7 DEF IsStreak
    <2>2. k \in 1 .. Len(cs) - 1
      BY <1>1, <1>2, <1>4, <1>7
    <2>3. cs[k].n = 1
      BY <1>1, <1>6, <2>1, <2>2 DEF Places
    <2>4. QED
      BY <1>6, <2>3 DEF FirstSeen, k, recent, cs
  <1>8. CASE k = Len(recent)
    <2>1. Len(recent) = Len(cs)
      BY <1>1, <1>2, <1>4, <1>5, <1>8
    <2>2. 0 < Len(cs) /\ Len(cs) < Keep
      BY <1>1, <1>4, <1>5, <1>8, <2>1
    <2>3. cs[k].n = 1
      BY <1>1, <1>8, <2>1, <2>2 DEF Places
    <2>4. QED
      BY <1>6, <2>3 DEF FirstSeen, k, recent, cs
  <1>9. QED
    BY <1>2, <1>3, <1>7, <1>8

\* The streak a call finds reaches a threshold exactly when the newest checks,
\* the new one with them, do.
LEMMA StreakReaches ==
  ASSUME NEW s \in Statuses, TypeOK,
         NEW t \in {thresholds.failure, thresholds.recovery},
         Len(Observed(s)) >= t, \A i \in 1 .. t : Observed(s)[i].status = s
  PROVE  Streak(Recent(Observed(s)), s) >= t
  <1> DEFINE cs == Observed(s)
             recent == Recent(cs)
             k == Streak(recent, s)
  <1>1. cs \in Seq(Check) /\ Len(cs) \in Nat
    BY ObservedIs
  <1>2. Len(cs) >= t /\ \A i \in 1 .. t : cs[i].status = s
    OBVIOUS
  <1> HIDE DEF cs
  <1>3. /\ recent \in Seq(Check) /\ Len(recent) \in Nat
        /\ \A i \in 1 .. Len(recent) : recent[i] = cs[i]
        /\ Len(recent) < Len(cs) => Len(recent) >= t + 2
        /\ Len(recent) <= Len(cs)
    BY <1>1, RecentIs
  <1> HIDE DEF recent
  <1>4. k \in 0 .. Len(recent) /\ IsStreak(recent, s, k)
    BY <1>3, StreakIs
  <1> HIDE DEF k
  <1>5. t \in Nat
    BY DEF TypeOK
  <1>6. ~ (k < t)
    <2> SUFFICES ASSUME k < t PROVE FALSE
      OBVIOUS
    <2>1. k < Len(recent) /\ k + 1 \in 1 .. t /\ k + 1 \in 1 .. Len(recent)
      BY <1>1, <1>2, <1>3, <1>4, <1>5
    <2>2. recent[k + 1].status # s
      BY <1>4, <2>1 DEF IsStreak
    <2>3. recent[k + 1].status = s
      BY <1>2, <1>3, <2>1
    <2>4. QED
      BY <2>2, <2>3
  <1>7. k >= t
    BY <1>4, <1>5, <1>6
  <1>8. QED
    BY <1>7 DEF k, recent, cs

\* When the checks before did not reach the threshold, the streak is at most
\* as long as the threshold now.
LEMMA StreakBounded ==
  ASSUME NEW s \in Statuses, TypeOK,
         NEW t \in {thresholds.failure, thresholds.recovery},
         ~ Last(t, s)
  PROVE  Streak(Recent(Observed(s)), s) <= t
  <1> DEFINE cs == Observed(s)
             recent == Recent(cs)
             k == Streak(recent, s)
  <1>1. /\ cs \in Seq(Check) /\ Len(cs) \in Nat
        /\ Len(cs) = IF Len(checks) < Keep THEN Len(checks) + 1 ELSE Keep
        /\ \A i \in 2 .. Len(cs) : cs[i] = checks[i - 1]
    BY ObservedIs
  <1> HIDE DEF cs
  <1>2. /\ recent \in Seq(Check) /\ Len(recent) \in Nat
        /\ \A i \in 1 .. Len(recent) : recent[i] = cs[i]
        /\ Len(recent) <= Len(cs)
    BY <1>1, RecentIs
  <1> HIDE DEF recent
  <1>3. k \in 0 .. Len(recent) /\ IsStreak(recent, s, k)
    BY <1>2, StreakIs
  <1> HIDE DEF k
  <1>4. t \in Nat /\ checks \in Seq(Check) /\ Len(checks) \in Nat /\ Len(checks) <= Keep
    BY DEF TypeOK
  <1>5. ~ (k > t)
    <2> SUFFICES ASSUME k > t PROVE FALSE
      OBVIOUS
    <2>1. Len(checks) >= t
      BY <1>1, <1>2, <1>3, <1>4
    <2>2. \A i \in 1 .. t : checks[i].status = s
      <3> SUFFICES ASSUME NEW i \in 1 .. t PROVE checks[i].status = s
        OBVIOUS
      <3>1. i + 1 \in 2 .. Len(cs) /\ i + 1 \in 1 .. Len(recent) /\ i + 1 \in 1 .. k
        BY <1>2, <1>3, <1>4
      <3>2. cs[i + 1] = checks[(i + 1) - 1] /\ recent[i + 1] = cs[i + 1]
        BY <1>1, <1>2, <3>1
      <3>3. recent[i + 1].status = s
        BY <1>3, <3>1 DEF IsStreak
      <3>4. (i + 1) - 1 = i
        BY <1>4
      <3>5. QED
        BY <3>2, <3>3, <3>4
    <2>3. QED
      BY <2>1, <2>2 DEF Last
  <1>6. k <= t
    BY <1>3, <1>4, <1>5
  <1>7. QED
    BY <1>6 DEF k, recent, cs

\* What a call copies into an incident is the place of a check.
LEMMA FirstSeenType ==
  ASSUME NEW s \in Statuses, TypeOK, Streak(Recent(Observed(s)), s) >= 1
  PROVE  FirstSeen(s, Recent(Observed(s))) \in 1 .. MaxStreak
  <1> DEFINE recent == Recent(Observed(s))
             k == Streak(recent, s)
  <1>1. recent \in Seq(Check) /\ Len(recent) \in Nat
    BY ObservedIs, RecentIs
  <1>2. k \in 0 .. Len(recent) /\ k >= 1
    BY <1>1, StreakIs
  <1> HIDE DEF k
  <1>3. recent[k] \in Check
    BY <1>1, <1>2
  <1>4. recent[k].n \in 1 .. MaxStreak
    BY <1>3 DEF Check
  <1>5. QED
    BY <1>4 DEF FirstSeen, k

-----------------------------------------------------------------------------
(* The incidents. *)

\* The incident a recovery closes is an ongoing one.
LEMMA OpenIncidentIs ==
  ASSUME TypeOK, Ongoing # {}
  PROVE  OpenIncident \in Ongoing
  <1>1. Len(incidents) \in Nat /\ Ongoing \in SUBSET (1 .. Len(incidents))
    BY DEF TypeOK, Ongoing
  <1>2. \E i \in Ongoing : \A j \in Ongoing : j <= i
    BY <1>1, LastPosition
  <1>3. QED
    BY <1>2 DEF OpenIncident

\* What retention does: one recovered incident goes, the others keep their
\* order and what they say.
LEMMA PruneIs ==
  ASSUME TypeOK, Prune
  PROVE  /\ incidents' \in Seq(Incident)
         /\ \E p \in DOMAIN incidents :
               /\ incidents[p].state = "recovered"
               /\ DOMAIN incidents' = 1 .. Len(incidents) - 1
               /\ \A i \in DOMAIN incidents' :
                     incidents'[i] = incidents[IF i < p THEN i ELSE i + 1]
  <1>1. PICK p \in DOMAIN incidents :
          /\ incidents[p].state = "recovered"
          /\ incidents' = SubSeq(incidents, 1, p - 1) \o SubSeq(incidents, p + 1, Len(incidents))
    BY DEF Prune
  <1>2. incidents \in Seq(Incident) /\ Len(incidents) \in Nat /\ p \in 1 .. Len(incidents)
    <2>1. incidents \in Seq(Incident)
      BY DEF TypeOK
    <2>. QED  BY <1>1, <2>1, SMT
  <1> DEFINE a == SubSeq(incidents, 1, p - 1)
             b == SubSeq(incidents, p + 1, Len(incidents))
  <1>3. /\ a \in Seq(Incident) /\ Len(a) = p - 1
        /\ \A i \in 1 .. p - 1 : a[i] = incidents[i]
    BY <1>2
  <1>4. /\ b \in Seq(Incident) /\ Len(b) = Len(incidents) - p
        /\ \A i \in 1 .. Len(incidents) - p : b[i] = incidents[p + i]
    BY <1>2
  <1>5. incidents' = a \o b
    BY <1>1
  <1> HIDE DEF a, b
  <1>6. /\ a \o b \in Seq(Incident) /\ Len(a \o b) = Len(incidents) - 1
        /\ \A i \in 1 .. Len(incidents) - 1 :
              (a \o b)[i] = IF i <= Len(a) THEN a[i] ELSE b[i - Len(a)]
    <2>1. a \in Seq(Incident) /\ b \in Seq(Incident)
      BY <1>3, <1>4
    <2>2. /\ a \o b \in Seq(Incident) /\ Len(a \o b) = Len(a) + Len(b)
          /\ \A i \in 1 .. Len(a) + Len(b) :
               (a \o b)[i] = IF i <= Len(a) THEN a[i] ELSE b[i - Len(a)]
      BY <2>1, SMT
    <2>3. Len(a) + Len(b) = Len(incidents) - 1
      BY <1>2, <1>3, <1>4, SMT
    <2>. QED  BY <2>2, <2>3, SMT
  <1>7. DOMAIN incidents' = 1 .. Len(incidents) - 1
    BY <1>5, <1>6
  <1>8. ASSUME NEW i \in 1 .. Len(incidents) - 1
        PROVE  incidents'[i] = incidents[IF i < p THEN i ELSE i + 1]
    <2>1. CASE i < p
      BY <1>2, <1>3, <1>5, <1>6, <2>1
    <2>2. CASE ~ (i < p)
      <3>1. i - Len(a) \in 1 .. Len(incidents) - p /\ p + (i - Len(a)) = i + 1
        BY <1>2, <1>3, <2>2
      <3>2. b[i - Len(a)] = incidents[p + (i - Len(a))]
        BY <1>4, <3>1
      <3>3. QED
        BY <1>2, <1>3, <1>5, <1>6, <2>2, <3>1, <3>2, SMTT(30)
    <2>3. QED
      BY <2>1, <2>2
  <1>9. QED
    BY <1>1, <1>5, <1>6, <1>7, <1>8

\* Retention takes away no ongoing incident and adds none.
LEMMA PruneKeeps ==
  ASSUME TypeOK, Prune
  PROVE  /\ \A i \in DOMAIN incidents' : \E j \in DOMAIN incidents : incidents'[i] = incidents[j]
         /\ Ongoing # {} => Ongoing' # {}
         /\ OneOngoing => OneOngoing'
  <1>1. PICK p \in DOMAIN incidents :
               /\ incidents[p].state = "recovered"
               /\ DOMAIN incidents' = 1 .. Len(incidents) - 1
               /\ \A i \in DOMAIN incidents' :
                     incidents'[i] = incidents[IF i < p THEN i ELSE i + 1]
    BY PruneIs
  <1>2. DOMAIN incidents = 1 .. Len(incidents) /\ Len(incidents) \in Nat /\ p \in 1 .. Len(incidents)
    BY <1>1 DEF TypeOK
  <1> DEFINE old(i) == IF i < p THEN i ELSE i + 1
  <1>3. ASSUME NEW i \in DOMAIN incidents'
        PROVE  old(i) \in DOMAIN incidents /\ incidents'[i] = incidents[old(i)]
    BY <1>1, <1>2
  <1>4. ASSUME NEW i \in Ongoing'
        PROVE  i \in DOMAIN incidents' /\ old(i) \in Ongoing
    <2>1. i \in DOMAIN incidents' /\ incidents'[i].state \in {"open", "acknowledged"}
      BY DEF Ongoing
    <2>2. old(i) \in DOMAIN incidents /\ incidents'[i] = incidents[old(i)]
      BY <1>3, <2>1
    <2>3. QED
      BY <2>1, <2>2 DEF Ongoing
  <1>5. ASSUME Ongoing # {} PROVE Ongoing' # {}
    <2>1. PICK j \in Ongoing : TRUE
      BY <1>5
    <2>2. j \in DOMAIN incidents /\ incidents[j].state \in {"open", "acknowledged"} /\ j # p
      BY <1>1, <2>1 DEF Ongoing
    <2>3. PICK i \in 1 .. Len(incidents) - 1 : old(i) = j
      <3>1. CASE j < p
        BY <1>2, <2>2, <3>1
      <3>2. CASE j > p
        <4>1. j - 1 \in 1 .. Len(incidents) - 1 /\ old(j - 1) = j
          BY <1>2, <2>2, <3>2
        <4>2. QED
          BY <4>1
      <3>3. QED
        BY <1>2, <2>2, <3>1, <3>2
    <2>4. i \in DOMAIN incidents' /\ incidents'[i] = incidents[j]
      BY <1>1, <2>3
    <2>5. i \in Ongoing'
      BY <2>2, <2>4 DEF Ongoing
    <2>6. QED
      BY <2>5
  <1>6. ASSUME OneOngoing PROVE OneOngoing'
    <2> SUFFICES ASSUME NEW i \in Ongoing', NEW j \in Ongoing' PROVE i = j
      BY DEF OneOngoing
    <2>1. old(i) = old(j)
      BY <1>4, <1>6 DEF OneOngoing
    <2>2. i \in Nat /\ j \in Nat
      BY <1>1, <1>2, <1>4
    <2>3. QED
      BY <1>2, <2>1, <2>2
  <1>7. QED
    BY <1>3, <1>5, <1>6

-----------------------------------------------------------------------------
(* Type correctness. *)

\* A run that has seen something saw a status.
LEMMA SeenStatus ==
  ASSUME TypeOK, NEW r \in Runs
  PROVE  run[r].seen \in Statuses
  BY DEF TypeOK, Run

LEMMA RunType ==
  ASSUME TypeOK, NEW r \in Runs, RunStep(r)
  PROVE  TypeOK'
  <1>1. /\ run \in [Runs -> Run] /\ run[r] \in Run /\ run[r].seen \in Statuses
        /\ Nobody \in Incidents \union {Nobody}
    BY SeenStatus DEF TypeOK
  <1>2. IdleRun \in Run
    BY DEF IdleRun, Run, Statuses
  <1>3. Done(r) \in [Runs -> Run]
    BY <1>1, <1>2 DEF Done
  <1>4. CASE List(r)
    <2>1. run' \in [Runs -> Run]
      BY <1>1, <1>4 DEF List, Run
    <2>2. QED
      BY <1>4, <2>1 DEF List, TypeOK
  <1>5. CASE TakeTurn(r)
    <2>1. run' \in [Runs -> Run]
      BY <1>1, <1>5 DEF TakeTurn, Run
    <2>2. QED
      BY <1>5, <2>1 DEF TakeTurn, TypeOK
  <1>6. CASE Probe(r)
    <2>1. PICK s \in Statuses : run' = [run EXCEPT ![r].at = "seen", ![r].seen = s]
      <3>1. PICK f \in Fates : run' = [run EXCEPT ![r].at = "seen", ![r].seen = Verdict(f)]
        BY <1>6 DEF Probe
      <3>2. Verdict(f) \in Statuses
        BY DEF Fates, Verdict, Statuses
      <3>. QED  BY <3>1, <3>2
    <2>2. run' \in [Runs -> Run]
      BY <1>1, <2>1 DEF Run
    <2>3. QED
      BY <1>6, <2>2 DEF Probe, TypeOK
  <1>7. CASE RecordOpens(r)
    <2> DEFINE s == run[r].seen
    <2>1. checks' = Observed(s) /\ Streak(Recent(Observed(s)), s) >= thresholds.failure
      BY <1>7 DEF RecordOpens, Opens
    <2>2. Observed(s) \in Seq(Check) /\ Len(Observed(s)) <= Keep
      BY <1>1, ObservedIs
    <2>3. thresholds.failure >= 1 /\ thresholds.failure \in Nat
      BY DEF TypeOK
    <2>4. FirstSeen(s, Recent(Observed(s))) \in 1 .. MaxStreak
      <3>1. Observed(s) \in Seq(Check)
        BY <2>2
      <3>2. Streak(Recent(Observed(s)), s) \in 0 .. Len(Recent(Observed(s)))
        BY <3>1, RecentIs, StreakIs
      <3>3. Len(Recent(Observed(s))) \in Nat
        BY <3>1, RecentIs
      <3>4. Streak(Recent(Observed(s)), s) >= 1
        BY <2>1, <2>3, <3>2, <3>3
      <3>5. QED
        BY <1>1, <3>4, FirstSeenType
    <2>5. PICK i \in FreeIds :
            /\ incidents' = Append(incidents,
                 [id |-> i, state |-> "open", failure |-> FirstSeen(s, Recent(Observed(s))),
                  recovery |-> 0, told |-> {}])
            /\ run' = Alerting(r, "opened", i)
      BY <1>7 DEF RecordOpens
    <2>6. i \in Incidents
      BY <2>5 DEF FreeIds
    <2>7. run' \in [Runs -> Run]
      BY <1>1, <2>5, <2>6 DEF Alerting, Run
    <2>8. incidents' \in Seq(Incident)
      <3> DEFINE f == FirstSeen(s, Recent(Observed(s)))
                 new == [id |-> i, state |-> "open", failure |-> f, recovery |-> 0, told |-> {}]
      <3>1. f \in 1 .. MaxStreak
        BY <2>4
      <3> HIDE DEF f
      <3>2. 0 \in 0 .. MaxStreak
        BY AvailabilityAssumption
      <3>3. new \in Incident
        BY <2>6, <3>1, <3>2 DEF Incident
      <3> HIDE DEF new
      <3>4. incidents' = Append(incidents, new)
        BY <2>5 DEF new, f
      <3>5. incidents \in Seq(Incident)
        BY DEF TypeOK
      <3>6. QED
        BY <3>3, <3>4, <3>5
    <2>9. QED
      BY <1>7, <2>1, <2>2, <2>7, <2>8 DEF RecordOpens, TypeOK
  <1>8. CASE RecordRecovers(r)
    <2> DEFINE s == run[r].seen
               f == FirstSeen(s, Recent(Observed(s)))
               o == OpenIncident
    <2>1. /\ checks' = Observed(s) /\ Streak(Recent(Observed(s)), s) >= thresholds.recovery
          /\ Ongoing # {}
          /\ incidents' = [incidents EXCEPT ![o].state = "recovered", ![o].recovery = f]
          /\ run' = Alerting(r, "recovered", incidents[o].id)
      BY <1>8 DEF RecordRecovers, Recovers
    <2>2. Observed(s) \in Seq(Check) /\ Len(Observed(s)) <= Keep
      BY <1>1, ObservedIs
    <2>3. thresholds.recovery >= 1 /\ thresholds.recovery \in Nat
      BY DEF TypeOK
    <2>4. f \in 1 .. MaxStreak
      <3>1. Observed(s) \in Seq(Check)
        BY <2>2
      <3>2. Streak(Recent(Observed(s)), s) \in 0 .. Len(Recent(Observed(s)))
        BY <3>1, RecentIs, StreakIs
      <3>3. Len(Recent(Observed(s))) \in Nat
        BY <3>1, RecentIs
      <3>4. Streak(Recent(Observed(s)), s) >= 1
        BY <2>1, <2>3, <3>2, <3>3
      <3>5. QED
        BY <1>1, <3>4, FirstSeenType
    <2>5. o \in DOMAIN incidents
      BY <2>1, OpenIncidentIs DEF Ongoing
    <2> HIDE DEF f, o
    <2>6. incidents \in Seq(Incident) /\ Len(incidents) \in Nat /\ o \in 1 .. Len(incidents)
      BY <2>5 DEF TypeOK
    <2>7. incidents[o] \in Incident
      BY <2>6
    <2>8. incidents[o].id \in Incidents
      BY <2>7 DEF Incident
    <2>9. run' \in [Runs -> Run]
      BY <1>1, <2>1, <2>8 DEF Alerting, Run
    <2>10. incidents' \in Seq(Incident)
      <3> DEFINE new == [incidents[o] EXCEPT !.state = "recovered", !.recovery = f]
      <3>1. f \in 0 .. MaxStreak
        BY <2>4
      <3>2. new \in Incident
        BY <2>7, <3>1 DEF Incident
      <3>3. incidents' = [incidents EXCEPT ![o] = new]
        BY <2>1, <2>6
      <3> HIDE DEF new
      <3>4. QED
        BY <2>6, <3>2, <3>3
    <2>11. QED
      BY <1>8, <2>1, <2>2, <2>9, <2>10 DEF RecordRecovers, TypeOK
  <1>9. CASE RecordOnly(r)
    <2>1. Observed(run[r].seen) \in Seq(Check) /\ Len(Observed(run[r].seen)) <= Keep
      BY <1>1, ObservedIs
    <2>2. QED
      BY <1>3, <1>9, <2>1 DEF RecordOnly, TypeOK
  <1>10. CASE Alert(r)
    <2> DEFINE suppressed == run[r].alert = "opened" /\ cooling
               new(i) == IF incidents[i].id = run[r].about /\ ~suppressed
                         THEN [incidents[i] EXCEPT !.told = @ \union {run[r].alert}]
                         ELSE incidents[i]
    <2>1. incidents' = [i \in DOMAIN incidents |-> new(i)]
      BY <1>10 DEF Alert
    <2>2. run[r].alert \in {"opened", "recovered"}
      BY <1>1 DEF Run
    <2>3. incidents \in Seq(Incident) /\ Len(incidents) \in Nat /\ DOMAIN incidents = 1 .. Len(incidents)
      BY DEF TypeOK
    <2>4. ASSUME NEW i \in DOMAIN incidents PROVE new(i) \in Incident
      <3>1. incidents[i] \in Incident
        BY <2>3
      <3>2. QED
        BY <2>2, <3>1 DEF Incident
    <2> HIDE DEF new
    <2>5. incidents' \in Seq(Incident)
      BY <2>1, <2>3, <2>4
    <2>6. cooling' \in BOOLEAN
      BY <1>10 DEF Alert
    <2>7. QED
      BY <1>3, <1>10, <2>5, <2>6 DEF Alert, TypeOK
  <1>11. CASE Crash(r)
    <2>1. crashes' \in 0 .. MaxCrashes
      BY <1>11, AvailabilityAssumption DEF Crash, TypeOK
    <2>2. QED
      BY <1>3, <1>11, <2>1 DEF Crash, TypeOK
  <1>12. QED
    BY <1>4, <1>5, <1>6, <1>7, <1>8, <1>9, <1>10, <1>11 DEF RunStep, Record

LEMMA AdminType ==
  ASSUME TypeOK, NEW a \in Admins, AdminStep(a)
  PROVE  TypeOK'
  <1>1. incidents \in Seq(Incident) /\ Len(incidents) \in Nat /\ DOMAIN incidents = 1 .. Len(incidents)
    BY DEF TypeOK
  <1>2. CASE AckRead(a)
    <2>1. PICK i \in Ongoing : reading' = [reading EXCEPT ![a] = incidents[i].id]
      BY <1>2 DEF AckRead
    <2>2. incidents[i] \in Incident
      BY <1>1, <2>1 DEF Ongoing
    <2>3. incidents[i].id \in Incidents
      BY <2>2 DEF Incident
    <2>4. QED
      BY <1>2, <2>1, <2>3 DEF AckRead, TypeOK
  <1>3. CASE AckWrite(a)
    <2> DEFINE new(i) == IF incidents[i].id = reading[a]
                         THEN [incidents[i] EXCEPT !.state = "acknowledged"]
                         ELSE incidents[i]
    <2>1. incidents' = [i \in DOMAIN incidents |-> new(i)]
      BY <1>3 DEF AckWrite
    <2>2. ASSUME NEW i \in DOMAIN incidents PROVE new(i) \in Incident
      <3>1. incidents[i] \in Incident
        BY <1>1
      <3>2. QED
        BY <3>1 DEF Incident
    <2> HIDE DEF new
    <2>3. incidents' \in Seq(Incident)
      BY <1>1, <2>1, <2>2
    <2>4. QED
      BY <1>3, <2>3 DEF AckWrite, TypeOK
  <1>4. QED
    BY <1>2, <1>3 DEF AdminStep

LEMMA OutsideType ==
  ASSUME TypeOK, Outside
  PROVE  TypeOK'
  <1>1. CASE Edit
    <2>1. edits' \in 0 .. MaxEdits
      BY <1>1, AvailabilityAssumption DEF Edit, TypeOK
    <2>2. thresholds' \in [failure : 1 .. MaxThreshold, recovery : 1 .. MaxThreshold]
      BY <1>1 DEF Edit
    <2>3. QED
      BY <1>1, <2>1, <2>2 DEF Edit, TypeOK
  <1>2. CASE Prune
    <2>1. incidents' \in Seq(Incident)
      BY <1>2, PruneIs
    <2>2. QED
      BY <1>2, <2>1 DEF Prune, TypeOK
  <1>3. CASE ComesDue
    BY <1>3 DEF ComesDue, TypeOK
  <1>4. CASE LeaseLapses
    BY <1>4 DEF LeaseLapses, TypeOK
  <1>5. CASE CooldownEnds
    BY <1>5 DEF CooldownEnds, TypeOK
  <1>6. QED
    BY <1>1, <1>2, <1>3, <1>4, <1>5 DEF Outside

LEMMA InitType == Init => TypeOK
  <1> SUFFICES ASSUME Init PROVE TypeOK
    OBVIOUS
  <1>1. IdleRun \in Run
    BY DEF IdleRun, Run, Statuses
  <1>2. 0 \in 0 .. MaxEdits /\ 0 \in 0 .. MaxCrashes /\ 0 <= Keep
    BY AvailabilityAssumption DEF Keep
  <1>3. thresholds \in [failure : 1 .. MaxThreshold, recovery : 1 .. MaxThreshold]
    BY AvailabilityAssumption DEF Init
  <1>4. run \in [Runs -> Run]
    BY <1>1 DEF Init
  <1>5. checks \in Seq(Check) /\ Len(checks) <= Keep
    BY <1>2 DEF Init
  <1>6. incidents \in Seq(Incident)
    BY DEF Init
  <1>7. QED
    BY <1>2, <1>3, <1>4, <1>5, <1>6 DEF Init, TypeOK

LEMMA StepType == TypeOK /\ [Next]_vars => TypeOK'
  <1> SUFFICES ASSUME TypeOK, [Next]_vars PROVE TypeOK'
    OBVIOUS
  <1>1. CASE \E r \in Runs : RunStep(r)
    BY <1>1, RunType
  <1>2. CASE \E a \in Admins : AdminStep(a)
    BY <1>2, AdminType
  <1>3. CASE Outside
    BY <1>3, OutsideType
  <1>4. CASE UNCHANGED vars
    BY <1>4 DEF vars, TypeOK
  <1>5. QED
    BY <1>1, <1>2, <1>3, <1>4 DEF Next

\* Every row, run and key keeps a value of its type.
THEOREM TypeCorrect == Spec => []TypeOK
  <1>1. QED
    BY InitType, StepType, PTL DEF Spec

-----------------------------------------------------------------------------
(* An outage has an incident, opened for its first observation. *)

SafeInv ==
  /\ TypeOK
  /\ Places(checks)
  /\ OutageHasIncident
  /\ FailureIsFirst

\* A step that records nothing and closes no incident.
LEMMA QuietStep ==
  ASSUME SafeInv, TypeOK',
         checks' = checks, edits' # 0 \/ (edits' = edits /\ thresholds' = thresholds),
         \A i \in DOMAIN incidents' :
            \E j \in DOMAIN incidents : incidents'[i].failure = incidents[j].failure,
         Ongoing # {} => Ongoing' # {}
  PROVE  SafeInv'
  <1>1. Places(checks)'
    BY DEF SafeInv, Places
  <1>2. OutageHasIncident'
    BY DEF SafeInv, OutageHasIncident, Last
  <1>3. FailureIsFirst'
    BY DEF SafeInv, FailureIsFirst
  <1>4. QED
    BY <1>1, <1>2, <1>3 DEF SafeInv

\* A step that leaves the incidents alone leaves the ongoing ones alone.
LEMMA SameIncidents ==
  ASSUME incidents' = incidents
  PROVE  /\ Ongoing' = Ongoing
         /\ \A i \in DOMAIN incidents' :
               \E j \in DOMAIN incidents : incidents'[i] = incidents[j]
  BY DEF Ongoing

\* A change of the incidents, one by one, that keeps the ongoing ones so.
LEMMA EachIncident ==
  ASSUME DOMAIN incidents' = DOMAIN incidents,
         \A i \in DOMAIN incidents :
            incidents[i].state \in {"open", "acknowledged"}
               => incidents'[i].state \in {"open", "acknowledged"}
  PROVE  Ongoing # {} => Ongoing' # {}
  BY DEF Ongoing

\* A record that leaves the incidents alone.
LEMMA OnlySafe ==
  ASSUME SafeInv, NEW r \in Runs, RecordOnly(r), TypeOK'
  PROVE  SafeInv'
  <1> DEFINE s == run[r].seen
  <1>1. TypeOK /\ s \in Statuses
    BY SeenStatus DEF SafeInv
  <1>2. /\ checks' = Observed(s) /\ incidents' = incidents
        /\ thresholds' = thresholds /\ edits' = edits
        /\ ~ Opens(s, Recent(Observed(s)))
    BY DEF RecordOnly
  <1>3. Places(checks)'
    BY <1>1, <1>2, ObservedPlaces DEF SafeInv, Places
  <1>4. FailureIsFirst'
    BY <1>2 DEF SafeInv, FailureIsFirst
  <1>5. Ongoing' = Ongoing
    BY <1>2 DEF Ongoing
  <1>6. ASSUME Last(thresholds.failure, "down")' PROVE Ongoing # {}
    <2>1. /\ Len(Observed(s)) >= thresholds.failure
          /\ \A i \in 1 .. thresholds.failure : Observed(s)[i].status = "down"
      BY <1>2, <1>6 DEF Last
    <2>2. thresholds.failure \in Nat /\ thresholds.failure >= 1
      BY <1>1 DEF TypeOK
    <2>3. s = "down"
      BY <1>1, <2>1, <2>2, ObservedIs
    <2>4. Streak(Recent(Observed(s)), s) >= thresholds.failure
      BY <1>1, <2>1, <2>3, StreakReaches
    <2>5. QED
      BY <1>2, <2>3, <2>4 DEF Opens
  <1>7. OutageHasIncident'
    BY <1>5, <1>6 DEF OutageHasIncident
  <1>8. QED
    BY <1>3, <1>4, <1>7 DEF SafeInv

\* A record that opens an incident: its streak has just reached the
\* threshold, so the first observation of the streak is within reach.
LEMMA OpensSafe ==
  ASSUME SafeInv, NEW r \in Runs, RecordOpens(r), TypeOK'
  PROVE  /\ SafeInv'
         /\ \E i \in FreeIds : \E f :
               incidents' = Append(incidents, [id |-> i, state |-> "open", failure |-> f,
                                               recovery |-> 0, told |-> {}])
  <1> DEFINE s == run[r].seen
             recent == Recent(Observed(s))
             f == FirstSeen(s, recent)
  <1>1. TypeOK /\ s \in Statuses
    BY SeenStatus DEF SafeInv
  <1>2. /\ checks' = Observed(s) /\ thresholds' = thresholds /\ edits' = edits
        /\ s = "down" /\ Streak(recent, s) >= thresholds.failure /\ Ongoing = {}
    BY DEF RecordOpens, Opens
  <1>3. PICK i \in FreeIds :
          incidents' = Append(incidents, [id |-> i, state |-> "open", failure |-> f,
                                          recovery |-> 0, told |-> {}])
    BY DEF RecordOpens
  <1>4. Places(checks)'
    BY <1>1, <1>2, ObservedPlaces DEF SafeInv, Places
  <1>5. /\ incidents \in Seq(Incident) /\ Len(incidents) \in Nat
        /\ DOMAIN incidents = 1 .. Len(incidents)
    BY <1>1 DEF TypeOK
  <1>6. ASSUME edits = 0 PROVE f = 1
    <2>1. ~ Last(thresholds.failure, s)
      BY <1>2, <1>6 DEF SafeInv, OutageHasIncident
    <2>2. Streak(recent, s) <= thresholds.failure
      BY <1>1, <2>1, StreakBounded
    <2>3. Streak(recent, s) \in Int
      <3>1. recent \in Seq(Check) /\ Len(recent) \in Nat
        BY <1>1, ObservedIs, RecentIs
      <3>2. QED
        BY <3>1, StreakIs
    <2>4. thresholds.failure \in Nat /\ thresholds.failure >= 1
      BY <1>1 DEF TypeOK
    <2>5. Streak(recent, s) \in 1 .. thresholds.failure
      BY <1>2, <2>2, <2>3, <2>4
    <2>6. QED
      BY <1>1, <2>5, FirstPlace DEF SafeInv
  <1> HIDE DEF f, recent, s
  <1>7. /\ DOMAIN incidents' = 1 .. Len(incidents) + 1
        /\ \A j \in 1 .. Len(incidents) : incidents'[j] = incidents[j]
        /\ incidents'[Len(incidents) + 1].state = "open"
        /\ incidents'[Len(incidents) + 1].failure = f
    BY <1>3, <1>5
  <1>8. FailureIsFirst'
    <2> SUFFICES ASSUME edits = 0, NEW j \in DOMAIN incidents' PROVE incidents'[j].failure = 1
      BY <1>2 DEF FailureIsFirst
    <2>1. CASE j \in 1 .. Len(incidents)
      BY <1>5, <1>7, <2>1 DEF SafeInv, FailureIsFirst
    <2>2. CASE j = Len(incidents) + 1
      BY <1>6, <1>7, <2>2
    <2>3. QED
      BY <1>5, <1>7, <2>1, <2>2
  <1>9. Len(incidents) + 1 \in Ongoing'
    BY <1>5, <1>7 DEF Ongoing
  <1>10. OutageHasIncident'
    BY <1>9 DEF OutageHasIncident
  <1>11. QED
    BY <1>3, <1>4, <1>8, <1>10 DEF SafeInv

\* A record that closes an incident: the target is up, and no outage lasts.
LEMMA RecoversSafe ==
  ASSUME SafeInv, NEW r \in Runs, RecordRecovers(r), TypeOK'
  PROVE  SafeInv'
  <1> DEFINE s == run[r].seen
  <1>1. TypeOK /\ s \in Statuses
    BY SeenStatus DEF SafeInv
  <1>2. /\ checks' = Observed(s) /\ thresholds' = thresholds /\ edits' = edits
        /\ s = "up" /\ Ongoing # {}
        /\ incidents' = [incidents EXCEPT ![OpenIncident].state = "recovered",
                                  ![OpenIncident].recovery = FirstSeen(s, Recent(Observed(s)))]
    BY DEF RecordRecovers, Recovers
  <1>3. Places(checks)'
    BY <1>1, <1>2, ObservedPlaces DEF SafeInv, Places
  <1>4. OpenIncident \in DOMAIN incidents
    BY <1>1, <1>2, OpenIncidentIs DEF Ongoing
  <1>5. incidents[OpenIncident] \in Incident
    BY <1>1, <1>4 DEF TypeOK
  <1>6. \A i \in DOMAIN incidents' : i \in DOMAIN incidents /\ incidents'[i].failure = incidents[i].failure
    BY <1>2, <1>4, <1>5 DEF Incident
  <1>7. FailureIsFirst'
    BY <1>2, <1>6 DEF SafeInv, FailureIsFirst
  <1>8. ~ Last(thresholds.failure, "down")'
    <2>1. thresholds.failure \in Nat /\ thresholds.failure >= 1
      BY <1>1 DEF TypeOK
    <2>2. Observed(s)[1].status = "up"
      BY <1>1, <1>2, ObservedIs
    <2>3. QED
      BY <1>2, <2>1, <2>2 DEF Last
  <1>9. OutageHasIncident'
    BY <1>8 DEF OutageHasIncident
  <1>10. QED
    BY <1>3, <1>7, <1>9 DEF SafeInv

\* An alert writes only who has been told.
LEMMA AlertIs ==
  ASSUME TypeOK, NEW r \in Runs, Alert(r)
  PROVE  /\ DOMAIN incidents' = DOMAIN incidents
         /\ \A i \in DOMAIN incidents :
               /\ incidents'[i].state = incidents[i].state
               /\ incidents'[i].failure = incidents[i].failure
               /\ incidents'[i].recovery = incidents[i].recovery
  <1>1. \A i \in DOMAIN incidents : incidents[i] \in Incident
    BY DEF TypeOK
  <1>2. DOMAIN incidents' = DOMAIN incidents
    BY DEF Alert
  <1>3. ASSUME NEW i \in DOMAIN incidents
        PROVE  /\ incidents'[i].state = incidents[i].state
               /\ incidents'[i].failure = incidents[i].failure
               /\ incidents'[i].recovery = incidents[i].recovery
    <2>1. \/ incidents'[i] = incidents[i]
          \/ incidents'[i] = [incidents[i] EXCEPT !.told = @ \union {run[r].alert}]
      BY DEF Alert
    <2>2. incidents[i] \in Incident
      BY <1>1
    <2>3. QED
      BY <2>1, <2>2 DEF Incident
  <1>4. QED
    BY <1>2, <1>3

\* An acknowledgement writes only the state, and keeps an ongoing incident
\* ongoing.
LEMMA AckIs ==
  ASSUME TypeOK, NEW a \in Admins, AckWrite(a)
  PROVE  /\ DOMAIN incidents' = DOMAIN incidents
         /\ \A i \in DOMAIN incidents :
               /\ incidents'[i].failure = incidents[i].failure
               /\ incidents[i].state \in {"open", "acknowledged"}
                     => incidents'[i].state \in {"open", "acknowledged"}
  <1>1. \A i \in DOMAIN incidents : incidents[i] \in Incident
    BY DEF TypeOK
  <1>2. DOMAIN incidents' = DOMAIN incidents
    BY DEF AckWrite
  <1>3. ASSUME NEW i \in DOMAIN incidents
        PROVE  /\ incidents'[i].failure = incidents[i].failure
               /\ incidents[i].state \in {"open", "acknowledged"}
                     => incidents'[i].state \in {"open", "acknowledged"}
    <2>1. \/ incidents'[i] = incidents[i]
          \/ incidents'[i] = [incidents[i] EXCEPT !.state = "acknowledged"]
      BY DEF AckWrite
    <2>2. incidents[i] \in Incident
      BY <1>1
    <2>3. QED
      BY <2>1, <2>2 DEF Incident
  <1>4. QED
    BY <1>2, <1>3

LEMMA RunSafe ==
  ASSUME SafeInv, NEW r \in Runs, RunStep(r), TypeOK'
  PROVE  SafeInv'
  <1>1. CASE List(r) \/ TakeTurn(r) \/ Probe(r) \/ Crash(r)
    <2>1. /\ checks' = checks /\ edits' = edits /\ thresholds' = thresholds
          /\ incidents' = incidents
      BY <1>1 DEF List, TakeTurn, Probe, Crash
    <2>2. QED
      BY <2>1, SameIncidents, QuietStep
  <1>2. CASE Alert(r)
    <2>1. checks' = checks /\ edits' = edits /\ thresholds' = thresholds
      BY <1>2 DEF Alert
    <2>2. /\ DOMAIN incidents' = DOMAIN incidents
          /\ \A i \in DOMAIN incidents :
                incidents'[i].state = incidents[i].state /\ incidents'[i].failure = incidents[i].failure
      BY <1>2, AlertIs DEF SafeInv
    <2>3. Ongoing # {} => Ongoing' # {}
      BY <2>2, EachIncident
    <2>4. QED
      BY <2>1, <2>2, <2>3, QuietStep
  <1>3. QED
    BY <1>1, <1>2, OnlySafe, OpensSafe, RecoversSafe DEF RunStep, Record

LEMMA AdminSafe ==
  ASSUME SafeInv, NEW a \in Admins, AdminStep(a), TypeOK'
  PROVE  SafeInv'
  <1>1. CASE AckRead(a)
    <2>1. /\ checks' = checks /\ edits' = edits /\ thresholds' = thresholds
          /\ incidents' = incidents
      BY <1>1 DEF AckRead
    <2>2. QED
      BY <2>1, SameIncidents, QuietStep
  <1>2. CASE AckWrite(a)
    <2>1. checks' = checks /\ edits' = edits /\ thresholds' = thresholds
      BY <1>2 DEF AckWrite
    <2>2. /\ DOMAIN incidents' = DOMAIN incidents
          /\ \A i \in DOMAIN incidents :
                /\ incidents'[i].failure = incidents[i].failure
                /\ incidents[i].state \in {"open", "acknowledged"}
                     => incidents'[i].state \in {"open", "acknowledged"}
      BY <1>2, AckIs DEF SafeInv
    <2>3. Ongoing # {} => Ongoing' # {}
      BY <2>2, EachIncident
    <2>4. QED
      BY <2>1, <2>2, <2>3, QuietStep
  <1>3. QED
    BY <1>1, <1>2 DEF AdminStep

LEMMA OutsideSafe ==
  ASSUME SafeInv, Outside, TypeOK'
  PROVE  SafeInv'
  <1>1. CASE Edit
    <2>1. checks' = checks /\ incidents' = incidents /\ edits' # 0
      BY <1>1 DEF Edit, SafeInv, TypeOK
    <2>2. QED
      BY <2>1, SameIncidents, QuietStep
  <1>2. CASE Prune
    <2>1. checks' = checks /\ edits' = edits /\ thresholds' = thresholds
      BY <1>2 DEF Prune
    <2>2. /\ \A i \in DOMAIN incidents' : \E j \in DOMAIN incidents : incidents'[i] = incidents[j]
          /\ Ongoing # {} => Ongoing' # {}
      BY <1>2, PruneKeeps DEF SafeInv
    <2>3. \A i \in DOMAIN incidents' :
             \E j \in DOMAIN incidents : incidents'[i].failure = incidents[j].failure
      BY <2>2
    <2>4. QED
      BY <2>1, <2>2, <2>3, QuietStep
  <1>3. CASE ComesDue \/ LeaseLapses \/ CooldownEnds
    <2>1. /\ checks' = checks /\ edits' = edits /\ thresholds' = thresholds
          /\ incidents' = incidents
      BY <1>3 DEF ComesDue, LeaseLapses, CooldownEnds
    <2>2. QED
      BY <2>1, SameIncidents, QuietStep
  <1>4. QED
    BY <1>1, <1>2, <1>3 DEF Outside

LEMMA InitSafe == Init => SafeInv
  <1> SUFFICES ASSUME Init PROVE SafeInv
    OBVIOUS
  <1>1. checks = <<>> /\ incidents = <<>>
    BY DEF Init
  <1>2. TypeOK
    BY InitType
  <1>3. thresholds.failure \in Nat /\ thresholds.failure >= 1
    BY <1>2 DEF TypeOK
  <1>4. QED
    BY <1>1, <1>2, <1>3 DEF SafeInv, Places, OutageHasIncident, FailureIsFirst, Last

LEMMA StepSafe == SafeInv /\ [Next]_vars => SafeInv'
  <1> SUFFICES ASSUME SafeInv, [Next]_vars PROVE SafeInv'
    OBVIOUS
  <1>1. TypeOK'
    BY StepType DEF SafeInv
  <1>2. CASE \E r \in Runs : RunStep(r)
    BY <1>1, <1>2, RunSafe
  <1>3. CASE \E a \in Admins : AdminStep(a)
    BY <1>1, <1>3, AdminSafe
  <1>4. CASE Outside
    BY <1>1, <1>4, OutsideSafe
  <1>5. CASE UNCHANGED vars
    <2>1. /\ checks' = checks /\ edits' = edits /\ thresholds' = thresholds
          /\ incidents' = incidents
      BY <1>5 DEF vars
    <2>2. QED
      BY <1>1, <2>1, SameIncidents, QuietStep
  <1>6. QED
    BY <1>2, <1>3, <1>4, <1>5 DEF Next

\* Whichever runs overlap, crash or record in whatever order, a monitor whose
\* newest observations reach the failure threshold has an ongoing incident.
THEOREM OutageFound == Spec => []OutageHasIncident
  <1>1. SafeInv => OutageHasIncident
    BY DEF SafeInv
  <1>2. QED
    BY <1>1, InitSafe, StepSafe, PTL DEF Spec

\* Every incident is dated by the first observation of its outage.
THEOREM FirstFailureRecorded == Spec => []FailureIsFirst
  <1>1. SafeInv => FailureIsFirst
    BY DEF SafeInv
  <1>2. QED
    BY <1>1, InitSafe, StepSafe, PTL DEF Spec

-----------------------------------------------------------------------------
(* Without a stale acknowledgement: one incident, closed by its recovery.   *)

CalmInv ==
  /\ SafeInv
  /\ OneOngoing
  /\ RecoveryIsFirst

\* A step that records nothing and opens no incident.
LEMMA QuietCalm ==
  ASSUME CalmInv, SafeInv',
         checks' = checks, edits' # 0 \/ (edits' = edits /\ thresholds' = thresholds),
         \A i \in DOMAIN incidents' :
            \E j \in DOMAIN incidents : incidents'[i].recovery = incidents[j].recovery,
         Ongoing = {} => Ongoing' = {},
         OneOngoing'
  PROVE  CalmInv'
  <1>1. RecoveryIsFirst'
    BY DEF CalmInv, RecoveryIsFirst, Last
  <1>2. QED
    BY <1>1 DEF CalmInv

LEMMA OnlyCalm ==
  ASSUME CalmInv, SafeInv', NEW r \in Runs, RecordOnly(r)
  PROVE  CalmInv'
  <1> DEFINE s == run[r].seen
  <1>1. TypeOK /\ s \in Statuses
    BY SeenStatus DEF CalmInv, SafeInv
  <1>2. /\ checks' = Observed(s) /\ incidents' = incidents
        /\ thresholds' = thresholds /\ edits' = edits
        /\ ~ Recovers(s, Recent(Observed(s)))
    BY DEF RecordOnly
  <1>3. Ongoing' = Ongoing
    BY <1>2 DEF Ongoing
  <1>4. ASSUME Last(thresholds.recovery, "up")' PROVE Ongoing = {}
    <2>1. /\ Len(Observed(s)) >= thresholds.recovery
          /\ \A i \in 1 .. thresholds.recovery : Observed(s)[i].status = "up"
      BY <1>2, <1>4 DEF Last
    <2>2. thresholds.recovery \in Nat /\ thresholds.recovery >= 1
      BY <1>1 DEF TypeOK
    <2>3. s = "up"
      BY <1>1, <2>1, <2>2, ObservedIs
    <2>4. Streak(Recent(Observed(s)), s) >= thresholds.recovery
      BY <1>1, <2>1, <2>3, StreakReaches
    <2>5. QED
      BY <1>2, <2>3, <2>4 DEF Recovers
  <1>5. RecoveryIsFirst'
    BY <1>2, <1>3, <1>4 DEF CalmInv, RecoveryIsFirst
  <1>6. OneOngoing'
    BY <1>3 DEF CalmInv, OneOngoing
  <1>7. QED
    BY <1>5, <1>6 DEF CalmInv

LEMMA OpensCalm ==
  ASSUME CalmInv, SafeInv', NEW r \in Runs, RecordOpens(r)
  PROVE  CalmInv'
  <1> DEFINE s == run[r].seen
  <1>1. TypeOK /\ s \in Statuses
    BY SeenStatus DEF CalmInv, SafeInv
  <1>2. /\ checks' = Observed(s) /\ thresholds' = thresholds /\ edits' = edits
        /\ s = "down" /\ Ongoing = {}
    BY DEF RecordOpens, Opens
  <1>3. PICK i \in FreeIds : \E f :
          incidents' = Append(incidents, [id |-> i, state |-> "open", failure |-> f,
                                          recovery |-> 0, told |-> {}])
    BY OpensSafe DEF CalmInv, SafeInv
  <1>4. PICK f :
          incidents' = Append(incidents, [id |-> i, state |-> "open", failure |-> f,
                                          recovery |-> 0, told |-> {}])
    BY <1>3
  <1>5. /\ incidents \in Seq(Incident) /\ Len(incidents) \in Nat
        /\ DOMAIN incidents = 1 .. Len(incidents)
    BY <1>1 DEF TypeOK
  <1>6. /\ DOMAIN incidents' = 1 .. Len(incidents) + 1
        /\ \A j \in 1 .. Len(incidents) : incidents'[j] = incidents[j]
        /\ incidents'[Len(incidents) + 1].recovery = 0
    BY <1>4, <1>5
  <1>7. \A j \in Ongoing' : j = Len(incidents) + 1
    <2> SUFFICES ASSUME NEW j \in Ongoing', j # Len(incidents) + 1 PROVE FALSE
      OBVIOUS
    <2>1. j \in DOMAIN incidents' /\ incidents'[j].state \in {"open", "acknowledged"}
      BY DEF Ongoing
    <2>2. j \in 1 .. Len(incidents)
      BY <1>5, <1>6, <2>1
    <2>3. j \in Ongoing
      BY <1>5, <1>6, <2>1, <2>2 DEF Ongoing
    <2>4. QED
      BY <1>2, <2>3
  <1>8. OneOngoing'
    BY <1>7 DEF OneOngoing
  <1>9. ~ Last(thresholds.recovery, "up")'
    <2>1. thresholds.recovery \in Nat /\ thresholds.recovery >= 1
      BY <1>1 DEF TypeOK
    <2>2. Observed(s)[1].status = "down"
      BY <1>1, <1>2, ObservedIs
    <2>3. QED
      BY <1>2, <2>1, <2>2 DEF Last
  <1>10. ASSUME edits = 0, NEW j \in DOMAIN incidents' PROVE incidents'[j].recovery \in {0, 1}
    <2>1. CASE j \in 1 .. Len(incidents)
      BY <1>5, <1>6, <1>10, <2>1 DEF CalmInv, RecoveryIsFirst
    <2>2. CASE j = Len(incidents) + 1
      BY <1>6, <2>2
    <2>3. QED
      BY <1>5, <1>6, <2>1, <2>2
  <1>11. RecoveryIsFirst'
    BY <1>2, <1>9, <1>10 DEF RecoveryIsFirst
  <1>12. QED
    BY <1>8, <1>11 DEF CalmInv

\* The one ongoing incident is closed, as of the first healthy observation.
LEMMA RecoversCalm ==
  ASSUME CalmInv, SafeInv', NEW r \in Runs, RecordRecovers(r)
  PROVE  CalmInv'
  <1> DEFINE s == run[r].seen
             recent == Recent(Observed(s))
             f == FirstSeen(s, recent)
             o == OpenIncident
  <1>1. TypeOK /\ s \in Statuses
    BY SeenStatus DEF CalmInv, SafeInv
  <1>2. /\ checks' = Observed(s) /\ thresholds' = thresholds /\ edits' = edits
        /\ s = "up" /\ Streak(recent, s) >= thresholds.recovery /\ Ongoing # {}
        /\ incidents' = [incidents EXCEPT ![o].state = "recovered", ![o].recovery = f]
    BY DEF RecordRecovers, Recovers
  <1>3. o \in Ongoing /\ o \in DOMAIN incidents
    BY <1>1, <1>2, OpenIncidentIs DEF Ongoing
  <1>4. ASSUME edits = 0 PROVE f = 1
    <2>1. ~ Last(thresholds.recovery, s)
      BY <1>2, <1>4 DEF CalmInv, RecoveryIsFirst
    <2>2. Streak(recent, s) <= thresholds.recovery
      BY <1>1, <2>1, StreakBounded
    <2>3. Streak(recent, s) \in Int
      <3>1. recent \in Seq(Check) /\ Len(recent) \in Nat
        BY <1>1, ObservedIs, RecentIs
      <3>2. QED
        BY <3>1, StreakIs
    <2>4. thresholds.recovery \in Nat /\ thresholds.recovery >= 1
      BY <1>1 DEF TypeOK
    <2>5. Streak(recent, s) \in 1 .. thresholds.recovery
      BY <1>2, <2>2, <2>3, <2>4
    <2>6. QED
      BY <1>1, <2>5, FirstPlace DEF CalmInv, SafeInv
  <1> HIDE DEF f, recent, o
  <1>5. incidents[o] \in Incident
    BY <1>1, <1>3 DEF TypeOK
  <1>6. /\ DOMAIN incidents' = DOMAIN incidents
        /\ incidents'[o].state = "recovered" /\ incidents'[o].recovery = f
        /\ \A i \in DOMAIN incidents : i # o => incidents'[i] = incidents[i]
    BY <1>2, <1>3, <1>5 DEF Incident
  <1>7. Ongoing' = {}
    <2> SUFFICES ASSUME NEW i \in Ongoing' PROVE FALSE
      OBVIOUS
    <2>1. i \in DOMAIN incidents' /\ incidents'[i].state \in {"open", "acknowledged"}
      BY DEF Ongoing
    <2>2. i # o /\ i \in DOMAIN incidents /\ incidents'[i] = incidents[i]
      BY <1>6, <2>1
    <2>3. i \in Ongoing
      BY <2>1, <2>2 DEF Ongoing
    <2>4. i = o
      BY <1>3, <2>3 DEF CalmInv, OneOngoing
    <2>5. QED
      BY <2>2, <2>4
  <1>8. OneOngoing'
    BY <1>7 DEF OneOngoing
  <1>9. ASSUME edits = 0, NEW j \in DOMAIN incidents' PROVE incidents'[j].recovery \in {0, 1}
    <2>1. CASE j = o
      BY <1>4, <1>6, <1>9, <2>1
    <2>2. CASE j # o
      BY <1>6, <1>9, <2>2 DEF CalmInv, RecoveryIsFirst
    <2>3. QED
      BY <2>1, <2>2
  <1>10. RecoveryIsFirst'
    BY <1>2, <1>7, <1>9 DEF RecoveryIsFirst
  <1>11. QED
    BY <1>8, <1>10 DEF CalmInv

LEMMA StepCalm ==
  ASSUME Admins = {}, CalmInv, [Next]_vars
  PROVE  CalmInv'
  <1>1. SafeInv' /\ TypeOK
    BY StepSafe DEF CalmInv, SafeInv
  <1>2. ASSUME checks' = checks, edits' = edits, thresholds' = thresholds, incidents' = incidents
        PROVE  CalmInv'
    <2>1. Ongoing' = Ongoing
      BY <1>2 DEF Ongoing
    <2>2. OneOngoing'
      BY <2>1 DEF CalmInv, OneOngoing
    <2>3. QED
      BY <1>1, <1>2, <2>1, <2>2, QuietCalm
  <1>3. ASSUME NEW r \in Runs, RunStep(r) PROVE CalmInv'
    <2>1. CASE List(r) \/ TakeTurn(r) \/ Probe(r) \/ Crash(r)
      BY <1>2, <2>1 DEF List, TakeTurn, Probe, Crash
    <2>2. CASE Alert(r)
      <3>1. checks' = checks /\ edits' = edits /\ thresholds' = thresholds
        BY <2>2 DEF Alert
      <3>2. /\ DOMAIN incidents' = DOMAIN incidents
            /\ \A i \in DOMAIN incidents :
                  /\ incidents'[i].state = incidents[i].state
                  /\ incidents'[i].recovery = incidents[i].recovery
        BY <1>1, <2>2, AlertIs
      <3>3. Ongoing' = Ongoing
        BY <3>2 DEF Ongoing
      <3>4. OneOngoing'
        BY <3>3 DEF CalmInv, OneOngoing
      <3>5. QED
        BY <1>1, <3>1, <3>2, <3>3, <3>4, QuietCalm
    <2>3. QED
      BY <1>1, <1>3, <2>1, <2>2, OnlyCalm, OpensCalm, RecoversCalm DEF RunStep, Record
  <1>4. CASE Edit
    <2>1. checks' = checks /\ incidents' = incidents /\ edits' # 0
      BY <1>1, <1>4 DEF Edit, TypeOK
    <2>2. Ongoing' = Ongoing
      BY <2>1 DEF Ongoing
    <2>3. OneOngoing'
      BY <2>2 DEF CalmInv, OneOngoing
    <2>4. QED
      BY <1>1, <2>1, <2>2, <2>3, QuietCalm
  <1>5. CASE Prune
    <2>1. checks' = checks /\ edits' = edits /\ thresholds' = thresholds
      BY <1>5 DEF Prune
    <2>2. /\ \A i \in DOMAIN incidents' : \E j \in DOMAIN incidents : incidents'[i] = incidents[j]
          /\ OneOngoing'
      BY <1>1, <1>5, PruneKeeps DEF CalmInv
    <2>3. Ongoing = {} => Ongoing' = {}
      BY <2>2 DEF Ongoing
    <2>4. \A i \in DOMAIN incidents' :
             \E j \in DOMAIN incidents : incidents'[i].recovery = incidents[j].recovery
      BY <2>2
    <2>5. QED
      BY <1>1, <2>1, <2>2, <2>3, <2>4, QuietCalm
  <1>6. CASE ComesDue \/ LeaseLapses \/ CooldownEnds
    BY <1>2, <1>6 DEF ComesDue, LeaseLapses, CooldownEnds
  <1>7. CASE UNCHANGED vars
    BY <1>2, <1>7 DEF vars
  <1>8. QED
    BY <1>3, <1>4, <1>5, <1>6, <1>7 DEF Next, Outside

LEMMA InitCalm == Init => CalmInv
  <1> SUFFICES ASSUME Init PROVE CalmInv
    OBVIOUS
  <1>1. SafeInv /\ incidents = <<>> /\ Ongoing = {}
    BY InitSafe DEF Init, Ongoing
  <1>2. QED
    BY <1>1 DEF CalmInv, OneOngoing, RecoveryIsFirst

\* As long as nobody acknowledges an incident, runs alone never have two of
\* them ongoing, however they overlap.
THEOREM OneOutageAtATime ==
  ASSUME Admins = {}
  PROVE  Spec => []OneOngoing
  <1>1. CalmInv /\ [Next]_vars => CalmInv'
    BY StepCalm
  <1>2. CalmInv => OneOngoing
    BY DEF CalmInv
  <1>3. QED
    BY <1>1, <1>2, InitCalm, PTL DEF Spec

\* As long as nobody acknowledges an incident, it is closed by the recovery
\* threshold, as of the first observation of the recovery.
THEOREM RecoveryRecorded ==
  ASSUME Admins = {}
  PROVE  Spec => []RecoveryIsFirst
  <1>1. CalmInv /\ [Next]_vars => CalmInv'
    BY StepCalm
  <1>2. CalmInv => RecoveryIsFirst
    BY DEF CalmInv
  <1>3. QED
    BY <1>1, <1>2, InitCalm, PTL DEF Spec

\* As long as nobody acknowledges an incident, both edges of every outage are
\* where the thresholds put them.
THEOREM EdgesRecorded ==
  ASSUME Admins = {}
  PROVE  Spec => []EdgesAreFirst
  <1>1. Spec => []FailureIsFirst
    BY FirstFailureRecorded
  <1>2. Spec => []RecoveryIsFirst
    BY RecoveryRecorded
  <1>3. FailureIsFirst /\ RecoveryIsFirst => EdgesAreFirst
    BY DEF EdgesAreFirst
  <1>4. QED
    BY <1>1, <1>2, <1>3, PTL
=============================================================================
