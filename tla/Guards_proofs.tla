------------------------------ MODULE Guards_proofs ------------------------------
(***************************************************************************)
(* What holds of the rate limits (RateLimits), of the scheduled reports      *)
(* (ScheduledReports) and of the administrator's session (AdminAccess) for    *)
(* any number of requests, browsers, workers and reports, any limit and any   *)
(* number of faults.                                                         *)
(***************************************************************************)
EXTENDS RateLimits, ScheduledReports, AdminAccess, Integers, FiniteSetTheorems, TLAPS

-----------------------------------------------------------------------------
(* Rate limits. *)

LimitTypes ==
  /\ counter \in {None} \cup (Nat \ {0})
  /\ read \in [Callers -> Nat]
  /\ admitted \in Nat /\ refused \in Nat

\* The counter says how many the window has admitted, as long as nothing has
\* disturbed it.
CounterTells ==
  ~spoilt => IF counter = None THEN admitted = 0 /\ refused = 0
             ELSE /\ counter < Limit => admitted = counter /\ refused = 0
                  /\ counter >= Limit => admitted = Limit

LimitInv == LimitTypes /\ CounterTells

\* A request that is admitted by creating the counter or by counting itself.
LEMMA CountedAdmission ==
  ASSUME LimitInv, NEW r \in Callers, Adds(r) \/ Increments(r)
  PROVE  LimitInv'
<1>1. CASE Adds(r)
  BY <1>1, LimitAssumption, SMT DEF LimitInv, LimitTypes, CounterTells, Adds, Admits
<1>2. CASE Increments(r)
  <2>1. counter \in Nat \ {0} /\ counter' = counter + 1 /\ spoilt' = spoilt /\ read' = read
    BY <1>2, SMT DEF LimitInv, LimitTypes, Increments
  <2>2. counter' # None
    BY <2>1, LimitAssumption, SMT
  <2>3. CASE counter + 1 <= Limit
    <3>1. admitted' = admitted + 1 /\ refused' = refused
      BY <1>2, <2>3, Zenon DEF Increments, Within, Admits
    <3>. QED  BY <2>1, <2>2, <2>3, <3>1, LimitAssumption, SMT DEF LimitInv, LimitTypes, CounterTells
  <2>4. CASE ~(counter + 1 <= Limit)
    <3>1. admitted' = admitted /\ refused' = refused + 1
      BY <1>2, <2>4, Zenon DEF Increments, Within, Refuses
    <3>. QED  BY <2>1, <2>2, <2>4, <3>1, LimitAssumption, SMT DEF LimitInv, LimitTypes, CounterTells
  <2>. QED  BY <2>3, <2>4
<1>. QED  BY <1>1, <1>2

\* A request that is turned away by the count it has read.
LEMMA CountRead ==
  ASSUME LimitInv, NEW r \in Callers, Gets(r) \/ GetsAgain(r)
  PROVE  LimitInv'
<1>1. counter' = counter /\ spoilt' = spoilt
  BY Zenon DEF Gets, GetsAgain
<1>2. CASE read' = read /\ admitted' = admitted /\ refused' = refused
  BY <1>1, <1>2, Zenon DEF LimitInv, LimitTypes, CounterTells
<1>3. CASE /\ counter \in Nat /\ counter >= Limit /\ counter # None
           /\ read' = read /\ admitted' = admitted /\ refused' = refused + 1
  BY <1>1, <1>3, LimitAssumption, SMT DEF LimitInv, LimitTypes, CounterTells
<1>4. CASE /\ admitted' = admitted /\ refused' = refused
           /\ \E n \in Nat : read' = [read EXCEPT ![r] = n]
  <2>1. read' \in [Callers -> Nat]
    BY <1>4, SMT DEF LimitInv, LimitTypes
  <2>. QED  BY <1>1, <1>4, <2>1, Zenon DEF LimitInv, LimitTypes, CounterTells
<1>5. ASSUME NEW n \in Nat, n = 0 \/ (counter # None /\ counter = n), Weighs(r, n)
      PROVE  LimitInv'
  <2>1. CASE n >= Limit
    <3>1. read' = read /\ admitted' = admitted /\ refused' = refused + 1
      BY <1>5, <2>1, Zenon DEF Weighs, Refuses
    <3>2. n # 0
      BY <2>1, LimitAssumption, SMT
    <3>. QED  BY <1>3, <1>5, <2>1, <3>1, <3>2, Zenon
  <2>2. CASE ~(n >= Limit)
    <3>1. admitted' = admitted /\ refused' = refused
      BY <1>5, <2>2, Zenon DEF Weighs, Counting
    <3>2. read' = [read EXCEPT ![r] = n]
      BY <1>5, <2>2, Zenon DEF Weighs
    <3>. QED  BY <1>4, <3>1, <3>2, Zenon
  <2>. QED  BY <2>1, <2>2
<1>6. counter # None => counter \in Nat
  BY SMT DEF LimitInv, LimitTypes
<1>7. CASE Gets(r)
  BY <1>2, <1>5, <1>6, <1>7, Zenon DEF Gets, Counting
<1>8. CASE GetsAgain(r)
  <2>1. CASE counter = None
    BY <1>5, <1>8, <2>1, 0 \in Nat, Zenon DEF GetsAgain
  <2>2. CASE counter # None
    BY <1>5, <1>6, <1>8, <2>2, Zenon DEF GetsAgain
  <2>. QED  BY <2>1, <2>2
<1>. QED  BY <1>7, <1>8

\* What disturbs the counter says so, and what ends it begins a new window.
LEMMA Disturbance ==
  ASSUME LimitInv, NEW r \in Callers,
         SetsCount(r) \/ AddsAgain(r) \/ CacheFails(r) \/ Misses(r) \/ Expires
           \/ RightPassword(r)
  PROVE  LimitInv'
<1>1. ASSUME spoilt', counter' \in {None} \cup (Nat \ {0}), read' = read,
             \/ admitted' = admitted /\ refused' = refused
             \/ admitted' = admitted + 1 /\ refused' = refused
             \/ admitted' = admitted /\ refused' = refused + 1
      PROVE  LimitInv'
  BY <1>1, SMT DEF LimitInv, LimitTypes, CounterTells
<1>2. CASE SetsCount(r)
  <2>1. spoilt' /\ read' = read /\ counter' = read[r] + 1
    BY <1>2, Zenon DEF SetsCount
  <2>2. counter' \in Nat \ {0}
    BY <2>1, SMT DEF LimitInv, LimitTypes
  <2>. QED  BY <1>1, <1>2, <2>1, <2>2, Zenon DEF SetsCount, Admits, Refuses
<1>3. CASE AddsAgain(r)
  <2>1. counter' = 1 \/ counter' = counter
    BY <1>3, Zenon DEF AddsAgain
  <2>2. 1 \in Nat \ {0}
    OBVIOUS
  <2>3. counter' \in {None} \cup (Nat \ {0})
    BY <2>1, <2>2, Zenon DEF LimitInv, LimitTypes
  <2>. QED  BY <1>1, <1>3, <2>3, Zenon DEF AddsAgain, Admits
<1>4. CASE CacheFails(r)
  BY <1>1, <1>4, Zenon DEF CacheFails, LimitInv, LimitTypes, Counting, Admits
<1>5. CASE Misses(r)
  BY <1>1, <1>5, Zenon DEF Misses, Counting, LimitInv, LimitTypes
<1>6. CASE Expires \/ RightPassword(r)
  <2>1. Begins /\ read' = read
    BY <1>6, Zenon DEF Expires, RightPassword
  <2>. QED  BY <2>1, SMT DEF Begins, LimitInv, LimitTypes, CounterTells
<1>. QED  BY <1>2, <1>3, <1>4, <1>5, <1>6

\* The other steps count nothing.
LEMMA Uncounted ==
  ASSUME LimitInv, NEW r \in Callers,
         \/ Arrives(r) \/ TurnedAway(r) \/ AddsLate(r) \/ WrongPassword(r)
         \/ analytics_event_api(r) \/ analytics_js_error_api(r)
         \/ analytics_browser_log_api(r) \/ csp_report(r) \/ paxalia_api_ingest(r)
         \/ bot_path_mark(r)
  PROVE  LimitInv'
<1>1. UNCHANGED <<counter, read, admitted, refused, spoilt>>
  BY Zenon DEF Arrives, TurnedAway, AddsLate, WrongPassword, analytics_event_api,
     analytics_js_error_api, analytics_browser_log_api, csp_report, paxalia_api_ingest,
     bot_path_mark, Writes, Counting
<1>. QED  BY <1>1, Zenon DEF LimitInv, LimitTypes, CounterTells

\* However requests of an endpoint interleave, a window that nothing disturbs admits
\* at most the limit and turns a request away only after it has admitted the limit.
THEOREM LimitsAreExact == LimitSpec => []LimitIsExact
<1>1. LimitInit => LimitInv
  BY LimitAssumption, SMT DEF LimitInit, LimitInv, LimitTypes, CounterTells
<1>2. LimitInv /\ [LimitNext]_limitVars => LimitInv'
  <2>1. CASE UNCHANGED limitVars
    BY <2>1, Zenon DEF limitVars, LimitInv, LimitTypes, CounterTells
  <2>2. ASSUME LimitInv, NEW r \in Callers, Expires
        PROVE  LimitInv'
    BY <2>2, Disturbance
  <2>3. ASSUME LimitInv, Callers = {}, Expires
        PROVE  LimitInv'
    BY <2>3, SMT DEF LimitInv, LimitTypes, CounterTells, Expires, Begins
  <2>. QED  BY <2>1, <2>2, <2>3, CountedAdmission, CountRead, Disturbance, Uncounted,
               Zenon DEF LimitNext
<1>3. LimitInv => LimitIsExact
  BY LimitAssumption, SMT DEF LimitInv, LimitTypes, CounterTells, LimitIsExact
<1>. QED  BY <1>1, <1>2, <1>3, PTL DEF LimitSpec

\* What a request's next step may be.
CallStages ==
  {"new", "get", "add", "get again", "incr", "set", "add again", "view", "done"}

\* A request moves to its next step, and an endpoint writes some rows and records.
LEMMA RequestMoves ==
  ASSUME LimitTypeOK, NEW r \in Callers, NEW to \in CallStages, Moves(r, to)
  PROVE  stage' \in [Callers -> CallStages]
<1>1. stage \in [Callers -> CallStages]
  BY Zenon DEF LimitTypeOK, CallStages
<1>2. stage' = [stage EXCEPT ![r] = to]
  BY Zenon DEF Moves
<1>. QED  BY <1>1, <1>2, SMT

LEMMA WritesTyped ==
  ASSUME LimitTypeOK, NEW r \in Callers, NEW view, NEW n \in Nat, NEW m \in Nat,
         Writes(r, view, n, m)
  PROVE  LimitTypeOK'
<1>1. /\ saved' = saved + n /\ logged' = logged + m /\ Moves(r, "done")
      /\ UNCHANGED <<endpoint, counter, read, spoilt, windows, outages, admitted, refused>>
  BY Zenon DEF Writes, Counting
<1>2. saved' \in Nat /\ logged' \in Nat
  <2>1. saved \in Nat /\ logged \in Nat
    BY Zenon DEF LimitTypeOK
  <2>2. saved' = saved + n /\ logged' = logged + m
    BY <1>1, Zenon
  <2>. QED  BY <2>1, <2>2, SMT
<1>3. stage' \in [Callers -> CallStages]
  BY <1>1, RequestMoves, "done" \in CallStages, Zenon DEF CallStages
<1>. QED  BY <1>1, <1>2, <1>3, Zenon DEF LimitTypeOK, CallStages

\* A request is admitted, turned away, or only counted among those under way.
LEMMA CallTyped ==
  ASSUME LimitTypeOK, NEW r \in Callers, NEW to \in CallStages, Moves(r, to),
         counter' \in {None} \cup (Nat \ {0}), read' \in [Callers -> 0..Limit],
         admitted' \in Nat, refused' \in Nat, spoilt' \in BOOLEAN,
         outages' \in 0..MaxOutages,
         UNCHANGED <<endpoint, effects, windows>>
  PROVE  LimitTypeOK'
<1>1. stage' \in [Callers -> CallStages]
  BY RequestMoves
<1>2. saved' = saved /\ logged' = logged
  BY Zenon DEF effects
<1>. QED  BY <1>1, <1>2, Zenon DEF LimitTypeOK, CallStages

\* The two answers a request may get to its count.
LEMMA AnswersTyped ==
  ASSUME LimitTypeOK, NEW r \in Callers, Admits(r) \/ Refuses(r)
  PROVE  /\ admitted' \in Nat /\ refused' \in Nat
         /\ \E to \in CallStages : Moves(r, to)
<1>1. admitted' \in {admitted, admitted + 1} /\ refused' \in {refused, refused + 1}
  BY Zenon DEF Admits, Refuses
<1>2. admitted' \in Nat /\ refused' \in Nat
  <2>1. admitted \in Nat /\ refused \in Nat
    BY Zenon DEF LimitTypeOK
  <2>. QED  BY <1>1, <2>1, SMT
<1>. QED  BY <1>2, Zenon DEF Admits, Refuses, CallStages

LEMMA WeighsTyped ==
  ASSUME LimitTypeOK, NEW r \in Callers, NEW n \in Nat, Weighs(r, n)
  PROVE  /\ admitted' \in Nat /\ refused' \in Nat
         /\ read' \in [Callers -> 0..Limit]
         /\ \E to \in CallStages : Moves(r, to)
<1>1. read \in [Callers -> 0..Limit] /\ admitted \in Nat /\ refused \in Nat
  BY Zenon DEF LimitTypeOK
<1>2. CASE n >= Limit
  <2>1. Refuses(r) /\ read' = read
    BY <1>2, Zenon DEF Weighs
  <2>. QED  BY <1>1, <2>1, AnswersTyped, Zenon
<1>3. CASE ~(n >= Limit)
  <2>1. Moves(r, "incr") /\ read' = [read EXCEPT ![r] = n] /\ Counting
    BY <1>3, Zenon DEF Weighs
  <2>2. n \in 0..Limit
    BY <1>3, LimitAssumption, SMT
  <2>3. read' \in [Callers -> 0..Limit]
    BY <1>1, <2>1, <2>2, SMT
  <2>4. "incr" \in CallStages
    BY Zenon DEF CallStages
  <2>. QED  BY <1>1, <2>1, <2>3, <2>4, Zenon DEF Counting
<1>. QED  BY <1>2, <1>3

\* The count of an increment decides.
LEMMA DecidesTyped ==
  ASSUME LimitTypeOK, NEW r \in Callers, Increments(r) \/ SetsCount(r) \/ Adds(r) \/ AddsAgain(r)
  PROVE  LimitTypeOK'
<1>1. Admits(r) \/ Refuses(r)
  BY Zenon DEF Increments, SetsCount, Adds, AddsAgain
<1>2. /\ read \in [Callers -> 0..Limit] /\ counter \in {None} \cup (Nat \ {0})
      /\ spoilt \in BOOLEAN /\ outages \in 0..MaxOutages
  BY Zenon DEF LimitTypeOK
<1>3. counter' \in {None} \cup (Nat \ {0})
  <2>1. CASE Increments(r)
    <3>1. counter \in Nat \ {0} /\ counter' = counter + 1
      BY <1>2, <2>1, Zenon DEF Increments
    <3>. QED  BY <3>1, SMT
  <2>2. CASE SetsCount(r)
    <3>1. read[r] \in 0..Limit
      BY <1>2, Zenon
    <3>2. counter' = read[r] + 1
      BY <2>2, Zenon DEF SetsCount
    <3>. QED  BY <3>1, <3>2, LimitAssumption, SMT
  <2>3. CASE Adds(r) \/ AddsAgain(r)
    <3>1. counter' \in {1, counter}
      BY <2>3, Zenon DEF Adds, AddsAgain
    <3>. QED  BY <1>2, <3>1, SMT
  <2>. QED  BY <2>1, <2>2, <2>3
<1>4. /\ read' = read /\ outages' = outages /\ spoilt' \in {TRUE, spoilt}
      /\ UNCHANGED <<endpoint, effects, windows>>
  BY Zenon DEF Increments, SetsCount, Adds, AddsAgain
<1>5. spoilt' \in BOOLEAN
  BY <1>2, <1>4, Zenon
<1>6. admitted' \in Nat /\ refused' \in Nat
  BY <1>1, AnswersTyped
<1>7. PICK to \in CallStages : Moves(r, to)
  BY <1>1, AnswersTyped
<1>. QED  BY <1>2, <1>3, <1>4, <1>5, <1>6, <1>7, CallTyped, Zenon

LEMMA ReadsTyped ==
  ASSUME LimitTypeOK, NEW r \in Callers, Gets(r) \/ GetsAgain(r)
  PROVE  LimitTypeOK'
<1>1. /\ counter' = counter /\ spoilt' = spoilt /\ outages' = outages
      /\ UNCHANGED <<endpoint, effects, windows>>
  BY Zenon DEF Gets, GetsAgain
<1>2. /\ read \in [Callers -> 0..Limit] /\ counter \in {None} \cup (Nat \ {0})
      /\ spoilt \in BOOLEAN /\ outages \in 0..MaxOutages
      /\ admitted \in Nat /\ refused \in Nat
  BY Zenon DEF LimitTypeOK
<1>3. ASSUME NEW n \in Nat, Weighs(r, n) PROVE LimitTypeOK'
  <2>1. admitted' \in Nat /\ refused' \in Nat /\ read' \in [Callers -> 0..Limit]
    BY <1>3, WeighsTyped
  <2>2. PICK to \in CallStages : Moves(r, to)
    BY <1>3, WeighsTyped
  <2>. QED  BY <1>1, <1>2, <2>1, <2>2, CallTyped, Zenon
<1>4. CASE counter = None /\ Gets(r)
  <2>1. Moves(r, "add") /\ read' = read /\ Counting
    BY <1>4, Zenon DEF Gets
  <2>2. "add" \in CallStages
    BY Zenon DEF CallStages
  <2>. QED  BY <1>1, <1>2, <2>1, <2>2, CallTyped, Zenon DEF Counting
<1>5. CASE counter = None /\ GetsAgain(r)
  BY <1>3, <1>5, 0 \in Nat, Zenon DEF GetsAgain
<1>6. CASE counter # None
  <2>1. counter \in Nat
    BY <1>2, <1>6, Zenon
  <2>. QED  BY <1>3, <1>6, <2>1, Zenon DEF Gets, GetsAgain
<1>. QED  BY <1>4, <1>5, <1>6

LEMMA StepsAsideTyped ==
  ASSUME LimitTypeOK, NEW r \in Callers,
         Arrives(r) \/ TurnedAway(r) \/ AddsLate(r) \/ WrongPassword(r) \/ Misses(r)
  PROVE  LimitTypeOK'
<1>1. /\ counter' = counter /\ read' = read /\ outages' = outages
      /\ admitted' = admitted /\ refused' = refused
      /\ UNCHANGED <<endpoint, effects, windows>> /\ spoilt' \in {TRUE, spoilt}
  BY Zenon DEF Arrives, TurnedAway, AddsLate, WrongPassword, Misses, Counting
<1>2. PICK to \in CallStages : Moves(r, to)
  BY Zenon DEF Arrives, TurnedAway, AddsLate, WrongPassword, Misses, CallStages
<1>3. /\ read \in [Callers -> 0..Limit] /\ counter \in {None} \cup (Nat \ {0})
      /\ spoilt \in BOOLEAN /\ outages \in 0..MaxOutages
      /\ admitted \in Nat /\ refused \in Nat
  BY Zenon DEF LimitTypeOK
<1>. QED  BY <1>1, <1>2, <1>3, CallTyped, Zenon

LEMMA CacheFailsTyped ==
  ASSUME LimitTypeOK, NEW r \in Callers, CacheFails(r)
  PROVE  LimitTypeOK'
<1>1. /\ read \in [Callers -> 0..Limit] /\ counter \in {None} \cup (Nat \ {0})
      /\ outages \in 0..MaxOutages /\ admitted \in Nat /\ refused \in Nat
  BY Zenon DEF LimitTypeOK
<1>2. /\ counter' = counter /\ read' = read /\ spoilt' = TRUE
      /\ outages < MaxOutages /\ outages' = outages + 1
      /\ UNCHANGED <<endpoint, effects, windows>>
  BY Zenon DEF CacheFails
<1>3. outages' \in 0..MaxOutages
  BY <1>1, <1>2, LimitAssumption, SMT
<1>4. admitted' \in Nat /\ refused' \in Nat /\ \E to \in CallStages : Moves(r, to)
  <2>1. Admits(r) \/ (Counting /\ \E to \in {"done", "set"} : Moves(r, to))
    BY Zenon DEF CacheFails
  <2>2. CASE Admits(r)
    BY <2>2, AnswersTyped
  <2>3. CASE Counting /\ \E to \in {"done", "set"} : Moves(r, to)
    BY <1>1, <2>3, Zenon DEF Counting, CallStages
  <2>. QED  BY <2>1, <2>2, <2>3
<1>5. PICK to \in CallStages : Moves(r, to)
  BY <1>4
<1>. QED  BY <1>1, <1>2, <1>3, <1>4, <1>5, CallTyped, Zenon

LEMMA WindowTyped ==
  ASSUME LimitTypeOK, Expires \/ \E r \in Callers : RightPassword(r)
  PROVE  LimitTypeOK'
<1>1. /\ counter' = None /\ admitted' = 0 /\ refused' = 0 /\ spoilt' = FALSE
      /\ UNCHANGED <<endpoint, read, effects, outages>>
  BY Zenon DEF Expires, RightPassword, Begins
<1>2. saved' = saved /\ logged' = logged
  BY <1>1, Zenon DEF effects
<1>3. windows' \in 0..MaxWindows
  <2>1. windows \in 0..MaxWindows
    BY Zenon DEF LimitTypeOK
  <2>2. windows' = windows \/ (windows < MaxWindows /\ windows' = windows + 1)
    BY Zenon DEF Expires, RightPassword
  <2>. QED  BY <2>1, <2>2, LimitAssumption, SMT
<1>4. stage' \in [Callers -> CallStages]
  <2>1. CASE Expires
    BY <2>1, Zenon DEF Expires, LimitTypeOK, CallStages
  <2>2. ASSUME NEW r \in Callers, RightPassword(r) PROVE stage' \in [Callers -> CallStages]
    <3>1. Moves(r, "done") /\ "done" \in CallStages
      BY <2>2, Zenon DEF RightPassword, CallStages
    <3>. QED  BY <3>1, RequestMoves
  <2>. QED  BY <2>1, <2>2
<1>. QED  BY <1>1, <1>2, <1>3, <1>4, 0 \in Nat, Zenon DEF LimitTypeOK, CallStages

LEMMA ViewsTyped ==
  ASSUME LimitTypeOK, NEW r \in Callers,
         \/ analytics_event_api(r) \/ analytics_js_error_api(r)
         \/ analytics_browser_log_api(r) \/ csp_report(r) \/ paxalia_api_ingest(r)
         \/ bot_path_mark(r)
  PROVE  LimitTypeOK'
<1>1. /\ 0 \in Nat /\ \A k \in Nat : 0..k \subseteq Nat
      /\ \A k \in Nat : \A n \in 0..k : 0..n \subseteq Nat
  BY SMT
<1>2. MaxReports \in Nat /\ 1 \in Nat
  BY LimitAssumption
<1>3. \E view : \E n, m \in Nat : Writes(r, view, n, m)
  BY <1>1, <1>2, Zenon DEF analytics_event_api, analytics_js_error_api,
     analytics_browser_log_api, csp_report, paxalia_api_ingest, bot_path_mark
<1>. QED  BY <1>3, WritesTyped

\* However requests and windows interleave and whichever calls of the cache fail, a
\* request of allowed() never works with more than the limit, so that the count it
\* writes back when the counter is gone is at most one above it.
THEOREM LimitTypeCorrect == LimitSpec => []LimitTypeOK
<1>1. LimitInit => LimitTypeOK
  <2>. SUFFICES ASSUME LimitInit PROVE LimitTypeOK
    OBVIOUS
  <2>1. 0 \in Nat /\ 0 \in 0..Limit /\ 0 \in 0..MaxWindows /\ 0 \in 0..MaxOutages
    BY LimitAssumption, SMT
  <2>2. stage \in [Callers -> CallStages] /\ read \in [Callers -> 0..Limit]
    BY <2>1, Zenon DEF LimitInit, CallStages
  <2>. QED  BY <2>1, <2>2, Zenon DEF LimitInit, LimitTypeOK, CallStages
<1>2. LimitTypeOK /\ [LimitNext]_limitVars => LimitTypeOK'
  <2>. SUFFICES ASSUME LimitTypeOK, [LimitNext]_limitVars PROVE LimitTypeOK'
    OBVIOUS
  <2>1. CASE UNCHANGED limitVars
    BY <2>1, Zenon DEF limitVars, effects, LimitTypeOK
  <2>2. CASE LimitNext
    BY <2>2, DecidesTyped, ReadsTyped, StepsAsideTyped, CacheFailsTyped, WindowTyped,
       ViewsTyped, Zenon DEF LimitNext
  <2>. QED  BY <2>1, <2>2
<1>. QED  BY <1>1, <1>2, PTL DEF LimitSpec

-----------------------------------------------------------------------------
(* Scheduled reports. *)

LastMail(r) == mails[r][Len(mails[r])]
Period(r) == FREQUENCY_DAYS[reports[r].frequency]

ReportTypes ==
  /\ reports \in [Reports -> [exists : BOOLEAN, active : BOOLEAN,
                              frequency : {"weekly", "monthly"}, sent : Nat]]
  /\ lock \in [Reports -> Mailers \cup {NoHolder}]
  /\ mailer \in [Mailers -> [step : Ahead \cup {"off"}, report : Reports \cup {NoReport},
                             left : SUBSET Reports]]
  /\ day \in 0..LastDay
  /\ mails \in [Reports -> Seq(Nat)]

\* A worker has a report at hand only between its claim and its release.
AtHand ==
  \A w \in Mailers :
    mailer[w].step \in {"off", "next"} <=> mailer[w].report = NoReport

\* It has the lock of it, as long as nothing has taken the lock away.
HeldUnderLock ==
  \A r \in Reports \ excused, w \in Mailers : mailer[w].report = r => lock[r] = w

MailsByNow == \A r \in Reports : mails[r] # <<>> => LastMail(r) <= day

\* The row has the date of the last mail, or a worker is about to save it.
DateKept ==
  \A r \in Reports \ excused :
    /\ reports[r].exists /\ mails[r] # <<>>
    /\ \A w \in Mailers : mailer[w].report = r => mailer[w].step # "saving"
    => reports[r].sent = LastMail(r)

MailedToday ==
  \A r \in Reports \ excused, w \in Mailers :
    mailer[w].report = r /\ mailer[w].step = "saving" => mails[r] # <<>> /\ LastMail(r) = day

\* A worker that is about to mail has seen that the period is over.
PeriodIsOver ==
  \A r \in Reports \ excused, w \in Mailers :
    mailer[w].report = r /\ mailer[w].step = "sending" /\ mails[r] # <<>> =>
      day - LastMail(r) >= Period(r)

ReportInv ==
  /\ ReportTypes /\ AtHand /\ HeldUnderLock /\ MailsByNow
  /\ DateKept /\ MailedToday /\ PeriodIsOver /\ ReportsOnce

\* Two workers never have the same report at hand, unless it is excused.
LEMMA OneHolder ==
  ASSUME ReportInv, NEW w \in Mailers, NEW v \in Mailers,
         mailer[w].report \in Reports \ excused, mailer[v].report = mailer[w].report
  PROVE  v = w
BY Zenon DEF ReportInv, HeldUnderLock

LEMMA InitReports == ReportsInit => ReportInv
<1>. SUFFICES ASSUME ReportsInit PROVE ReportInv
  OBVIOUS
<1>1. /\ \A w \in Mailers : mailer[w].step = "off" /\ mailer[w].report = NoReport
      /\ \A r \in Reports : mails[r] = <<>>
  BY Zenon DEF ReportsInit, Off
<1>2. ReportTypes
  <2>1. Never \in Nat /\ 0 \in 0..LastDay
    <3>1. LastDay \in Nat
      BY ReportsAssumption
    <3>. QED  BY <3>1, SMT DEF Never
  <2>2. reports \in [Reports -> [exists : BOOLEAN, active : BOOLEAN,
                              frequency : {"weekly", "monthly"}, sent : Nat]]
    <3>1. DOMAIN FREQUENCY_DAYS = {"weekly", "monthly"}
      BY SMT DEF FREQUENCY_DAYS
    <3>2. reports \in [Reports -> [exists : BOOLEAN, active : {TRUE},
                                   frequency : {"weekly", "monthly"}, sent : {Never}]]
      BY <3>1, Zenon DEF ReportsInit
    <3>. DEFINE A == [exists : BOOLEAN, active : {TRUE}, frequency : {"weekly", "monthly"},
                      sent : {Never}]
                B == [exists : BOOLEAN, active : BOOLEAN, frequency : {"weekly", "monthly"},
                      sent : Nat]
    <3>3. A \subseteq B
      <4>. SUFFICES ASSUME NEW x \in A PROVE x \in B
        OBVIOUS
      <4>1. x.sent \in Nat
        BY <2>1, SMT
      <4>2. x.active \in BOOLEAN
        <5>1. x.active \in {TRUE}
          BY Zenon
        <5>. QED  BY <5>1, Zenon
      <4>3. x = [exists |-> x.exists, active |-> x.active, frequency |-> x.frequency,
                 sent |-> x.sent]
        BY SMT
      <4>4. x.exists \in BOOLEAN /\ x.frequency \in {"weekly", "monthly"}
        BY Zenon
      <4>. QED  BY <4>1, <4>2, <4>3, <4>4, Zenon
    <3>4. reports \in [Reports -> A]
      BY <3>2
    <3>. HIDE DEF A, B
    <3>5. reports \in [Reports -> B]
      BY <3>3, <3>4, SMT
    <3>. QED  BY <3>5 DEF B
  <2>3. /\ lock \in [Reports -> Mailers \cup {NoHolder}]
        /\ mailer \in [Mailers -> [step : Ahead \cup {"off"}, report : Reports \cup {NoReport},
                             left : SUBSET Reports]]
        /\ mails \in [Reports -> Seq(Nat)]
    BY SMT DEF ReportsInit, Off
  <2>. QED  BY <2>1, <2>2, <2>3, Zenon DEF ReportTypes, ReportsInit
<1>3. \A r \in Reports : NoReport # r
  BY ReportsAssumption DEF NoReport
<1>4. AtHand /\ HeldUnderLock /\ MailsByNow /\ DateKept /\ MailedToday /\ PeriodIsOver
  BY <1>1, <1>3, Zenon DEF AtHand, HeldUnderLock, MailsByNow, DateKept, MailedToday, PeriodIsOver
<1>5. ReportsOnce
  BY <1>1, SMT DEF ReportsOnce
<1>. QED  BY <1>2, <1>4, <1>5 DEF ReportInv

\* A step that neither mails nor saves, and begins no mail.
LEMMA QuietStep ==
  ASSUME ReportInv, UNCHANGED <<reports, day, mails>>,
         ReportTypes', AtHand', HeldUnderLock', excused \subseteq excused',
         \A w \in Mailers : mailer'[w].step \in {"sending", "saving"} => mailer'[w] = mailer[w],
         \A w \in Mailers : /\ mailer[w].step = "saving" /\ mailer[w].report \notin excused'
                            => mailer'[w] = mailer[w]
  PROVE  ReportInv'
<1>1. \A r : LastMail(r)' = LastMail(r) /\ Period(r)' = Period(r)
  BY Zenon DEF LastMail, Period
<1>2. MailsByNow' /\ ReportsOnce'
  BY <1>1, Zenon DEF ReportInv, MailsByNow, ReportsOnce
<1>3. MailedToday' /\ PeriodIsOver'
  BY <1>1, Zenon DEF ReportInv, MailedToday, PeriodIsOver
<1>4. DateKept'
  <2>. SUFFICES ASSUME NEW r \in Reports \ excused', reports[r].exists, mails[r] # <<>>,
                       \A w \in Mailers : mailer'[w].report = r => mailer'[w].step # "saving"
                PROVE  reports[r].sent = LastMail(r)
    BY <1>1, Zenon DEF DateKept
  <2>1. \A w \in Mailers : mailer[w].report = r => mailer[w].step # "saving"
    BY Zenon
  <2>. QED  BY <2>1, Zenon DEF ReportInv, DateKept
<1>. QED  BY <1>2, <1>3, <1>4 DEF ReportInv

\* The worker w alone moves, to a step that has nothing to mail.
LEMMA OneMoves ==
  ASSUME ReportInv, UNCHANGED <<reports, day, mails>>, NEW w \in Mailers,
         NEW m \in [step : Ahead \cup {"off"}, report : Reports \cup {NoReport},
                    left : SUBSET Reports],
         mailer' = [mailer EXCEPT ![w] = m],
         m.step \notin {"sending", "saving"},
         m.step \in {"off", "next"} <=> m.report = NoReport,
         lock' \in [Reports -> Mailers \cup {NoHolder}],
         mailer[w].step = "saving" => mailer[w].report \in excused',
         excused \subseteq excused',
         \A r \in Reports \ excused', v \in Mailers :
           mailer'[v].report = r => lock'[r] = v
  PROVE  ReportInv'
<1>1. mailer \in [Mailers -> [step : Ahead \cup {"off"}, report : Reports \cup {NoReport},
                              left : SUBSET Reports]]
  BY Zenon DEF ReportInv, ReportTypes
<1>2. /\ mailer'[w] = m /\ \A v \in Mailers : v # w => mailer'[v] = mailer[v]
      /\ mailer' \in [Mailers -> [step : Ahead \cup {"off"}, report : Reports \cup {NoReport},
                                  left : SUBSET Reports]]
  BY <1>1, SMT
<1>3. ReportTypes'
  BY <1>2, Zenon DEF ReportInv, ReportTypes
<1>4. AtHand'
  BY <1>2, Zenon DEF ReportInv, AtHand
<1>5. HeldUnderLock'
  BY Zenon DEF HeldUnderLock
<1>6. \A v \in Mailers : mailer'[v].step \in {"sending", "saving"} => mailer'[v] = mailer[v]
  BY <1>2, Zenon
<1>7. \A v \in Mailers : /\ mailer[v].step = "saving" /\ mailer[v].report \notin excused'
                         => mailer'[v] = mailer[v]
  BY <1>2, Zenon
<1>. QED  BY <1>3, <1>4, <1>5, <1>6, <1>7, QuietStep

Plan == [step : Ahead \cup {"off"}, report : Reports \cup {NoReport}, left : SUBSET Reports]

\* The next step of a run whose report at hand stays.
LEMMA NextStepOfRun ==
  ASSUME NEW p \in Plan, NEW s \in Ahead
  PROVE  LET m == [p EXCEPT !.step = s]
         IN  m \in Plan /\ m.step = s /\ m.report = p.report
BY SMT DEF Plan

\* A worker that begins or ends a run has nothing at hand.
LEMMA RunSafe ==
  ASSUME ReportInv, NEW w \in Mailers, StartRun(w) \/ EndRun(w)
  PROVE  ReportInv'
<1>1. UNCHANGED <<reports, day, mails, lock, excused>> /\ mailer[w].step \in {"off", "next"}
  BY Zenon DEF StartRun, EndRun
<1>2. mailer[w].step # "saving"
  BY <1>1
<1>3. PICK m \in Plan : /\ mailer' = [mailer EXCEPT ![w] = m]
                        /\ m.step \in {"off", "next"} /\ m.report = NoReport
  <2>1. CASE StartRun(w)
    <3>. DEFINE m == [step |-> "next", report |-> NoReport,
                      left |-> {r \in Reports : /\ reports[r].exists /\ reports[r].active
                                                /\ IsDue(reports[r])}]
    <3>1. m \in Plan
      BY SMT DEF Plan, Ahead
    <3>2. mailer' = [mailer EXCEPT ![w] = m]
      BY <2>1, Zenon DEF StartRun
    <3>. QED  BY <3>1, <3>2, Zenon
  <2>2. CASE EndRun(w)
    <3>1. Off \in Plan
      BY SMT DEF Off, Plan
    <3>. QED  BY <2>2, <3>1, Zenon DEF EndRun, Off
  <2>. QED  BY <1>1, <2>1, <2>2, Zenon DEF StartRun, EndRun
<1>4. \A v \in Mailers : mailer'[v] = mailer[v] \/ mailer'[v].report = NoReport
  BY <1>3, SMT DEF ReportInv, ReportTypes
<1>5. \A r \in Reports : NoReport # r
  BY ReportsAssumption DEF NoReport
<1>6. \A r \in Reports \ excused', v \in Mailers : mailer'[v].report = r => lock'[r] = v
  BY <1>1, <1>4, <1>5, Zenon DEF ReportInv, HeldUnderLock
<1>7. m.step \notin {"sending", "saving"}
  BY <1>3
<1>8. lock' \in [Reports -> Mailers \cup {NoHolder}]
  BY <1>1, Zenon DEF ReportInv, ReportTypes
<1>. QED  BY <1>1, <1>2, <1>3, <1>6, <1>7, <1>8, OneMoves, Zenon DEF Plan

\* A report is claimed by the worker that adds its lock, or without one when the
\* cache fails.
LEMMA ClaimSafe ==
  ASSUME ReportInv, NEW w \in Mailers, Claim(w) \/ ClaimFails(w)
  PROVE  ReportInv'
<1>1. UNCHANGED <<reports, day, mails>> /\ mailer[w].step = "next" /\ excused \subseteq excused'
  BY Zenon DEF Claim, ClaimFails
<1>2. PICK r \in mailer[w].left :
        \/ /\ lock[r] = NoHolder /\ lock' = [lock EXCEPT ![r] = w]
           /\ TakesReport(w, r, "claimed") /\ excused' = excused
        \/ Skips(w, r) /\ lock' = lock /\ excused' = excused
        \/ TakesReport(w, r, "claimed") /\ lock' = lock /\ excused' = excused \cup {r}
  BY Zenon DEF Claim, ClaimFails
<1>3. /\ mailer \in [Mailers -> Plan] /\ lock \in [Reports -> Mailers \cup {NoHolder}]
      /\ mailer[w] \in Plan /\ mailer[w].report = NoReport
  BY <1>1, Zenon DEF ReportInv, ReportTypes, AtHand, Plan
<1>4. r \in Reports
  BY <1>2, <1>3, SMT DEF Plan
<1>5. \A x \in Reports : NoReport # x
  BY ReportsAssumption DEF NoReport
<1>6. NoHolder \notin Mailers
  BY ReportsAssumption DEF NoHolder
<1>7. mailer[w].step # "saving"
  BY <1>1
<1>8. lock' \in [Reports -> Mailers \cup {NoHolder}]
  BY <1>2, <1>3, SMT
<1>9. CASE TakesReport(w, r, "claimed")
  <2>. DEFINE m == [step |-> "claimed", report |-> r, left |-> mailer[w].left \ {r}]
  <2>1. mailer' = [mailer EXCEPT ![w] = m]
    BY <1>3, <1>9, SMT DEF TakesReport
  <2>2. /\ m \in Plan /\ m.step \notin {"sending", "saving"} /\ m.report = r
        /\ m.step \notin {"off", "next"}
    BY <1>3, <1>4, SMT DEF Plan, Ahead
  <2>3. mailer'[w] = m /\ \A v \in Mailers : v # w => mailer'[v] = mailer[v]
    BY <1>3, <2>1, SMT
  <2>. HIDE DEF m
  <2>4. \A x \in Reports \ excused', v \in Mailers : mailer'[v].report = x => lock'[x] = v
    <3>. SUFFICES ASSUME NEW x \in Reports \ excused', NEW v \in Mailers, mailer'[v].report = x
                  PROVE  lock'[x] = v
      OBVIOUS
    <3>1. x \notin excused
      BY <1>1
    <3>2. CASE v = w
      <4>1. x = r
        BY <2>2, <2>3, <3>2
      <4>2. lock' = [lock EXCEPT ![r] = w]
        <5>1. ~Skips(w, r)
          <6>1. mailer'[w].report # NoReport
            BY <1>5, <2>2, <2>3, <1>4
          <6>. QED  BY <1>3, <6>1, SMT DEF Skips, Plan
        <5>2. r \notin excused'
          BY <4>1
        <5>. QED  BY <1>2, <5>1, <5>2, Zenon
      <4>. QED  BY <1>3, <1>4, <3>2, <4>1, <4>2, SMT
    <3>3. CASE v # w
      <4>1. lock[x] = v
        BY <2>3, <3>1, <3>3, Zenon DEF ReportInv, HeldUnderLock
      <4>2. lock' = lock \/ (lock[r] = NoHolder /\ lock' = [lock EXCEPT ![r] = w])
        BY <1>2
      <4>3. lock[r] = NoHolder => x # r
        BY <1>6, <4>1
      <4>. QED  BY <1>3, <4>1, <4>2, <4>3, SMT
    <3>. QED  BY <3>2, <3>3
  <2>. QED  BY <1>1, <1>4, <1>5, <1>7, <1>8, <2>1, <2>2, <2>4, OneMoves, Zenon DEF Plan
<1>10. CASE Skips(w, r) /\ lock' = lock /\ excused' = excused
  <2>. DEFINE m == [mailer[w] EXCEPT !.left = @ \ {r}]
  <2>1. mailer' = [mailer EXCEPT ![w] = m]
    BY <1>3, <1>10, SMT DEF Skips, Plan
  <2>2. /\ m \in Plan /\ m.step \notin {"sending", "saving"} /\ m.report = NoReport
        /\ m.step \in {"off", "next"}
    BY <1>1, <1>3, <1>4, SMT DEF Plan, Ahead
  <2>3. mailer'[w] = m /\ \A v \in Mailers : v # w => mailer'[v] = mailer[v]
    BY <1>3, <2>1, SMT
  <2>. HIDE DEF m
  <2>4. \A x \in Reports \ excused', v \in Mailers : mailer'[v].report = x => lock'[x] = v
    <3>. SUFFICES ASSUME NEW x \in Reports \ excused', NEW v \in Mailers, mailer'[v].report = x
                  PROVE  lock'[x] = v
      OBVIOUS
    <3>1. mailer[v].report = x
      BY <1>5, <2>2, <2>3, Zenon
    <3>2. x \in Reports \ excused
      BY <1>10
    <3>. QED  BY <1>10, <3>1, <3>2, Zenon DEF ReportInv, HeldUnderLock
  <2>. QED  BY <1>1, <1>7, <1>8, <1>10, <2>1, <2>2, <2>4, OneMoves, Zenon DEF Plan
<1>. QED  BY <1>2, <1>9, <1>10

\* The mail or the figures fail: nothing was sent.
LEMMA FailSafe ==
  ASSUME ReportInv, NEW w \in Mailers, MailFails(w) \/ RenderFails(w)
  PROVE  ReportInv'
<1>1. /\ UNCHANGED <<reports, day, mails, lock, excused>> /\ mailer[w].step = "sending"
      /\ Steps(w, "done") \/ Steps(w, "failed")
  BY Zenon DEF MailFails, RenderFails
<1>2. mailer \in [Mailers -> Plan] /\ lock \in [Reports -> Mailers \cup {NoHolder}]
      /\ mailer[w] \in Plan
  BY Zenon DEF ReportInv, ReportTypes, Plan
<1>3. mailer[w].report # NoReport /\ mailer[w].step # "saving"
  <2>1. "sending" \notin {"off", "next"} /\ "sending" # "saving"
    OBVIOUS
  <2>. QED  BY <1>1, <2>1, Zenon DEF ReportInv, AtHand
<1>4. PICK s \in {"done", "failed"} : Steps(w, s)
  BY <1>1, Zenon
<1>. DEFINE m == [mailer[w] EXCEPT !.step = s]
<1>5. mailer' = [mailer EXCEPT ![w] = m]
  BY <1>2, <1>4, SMT DEF Steps, Plan
<1>6. m \in Plan /\ m.step = s /\ m.report = mailer[w].report
  <2>1. s \in Ahead
    BY Zenon DEF Ahead
  <2>. QED  BY <1>2, <2>1, NextStepOfRun, Zenon
<1>7. m.step \notin {"sending", "saving"} /\ m.step \notin {"off", "next"}
  BY <1>6, SMT
<1>8. mailer'[w] = m /\ \A v \in Mailers : v # w => mailer'[v] = mailer[v]
  BY <1>2, <1>5, SMT
<1>. HIDE DEF m
<1>9. \A x \in Reports \ excused', v \in Mailers : mailer'[v].report = x => lock'[x] = v
  <2>. SUFFICES ASSUME NEW x \in Reports \ excused', NEW v \in Mailers, mailer'[v].report = x
                PROVE  lock'[x] = v
    OBVIOUS
  <2>1. mailer[v].report = x
    BY <1>6, <1>8, Zenon
  <2>2. x \in Reports \ excused
    BY <1>1
  <2>. QED  BY <1>1, <2>1, <2>2, Zenon DEF ReportInv, HeldUnderLock
<1>. QED  BY <1>1, <1>2, <1>3, <1>5, <1>6, <1>7, <1>9, OneMoves, Zenon DEF Plan

\* A worker lets go of its report, or dies with it.
LEMMA LetGoSafe ==
  ASSUME ReportInv, NEW w \in Mailers, ReleaseLock(w) \/ ReleaseFails(w) \/ MailerDies(w)
  PROVE  ReportInv'
<1>1. /\ UNCHANGED <<reports, day, mails>> /\ excused \subseteq excused'
      /\ mailer[w].step = "saving" => mailer[w].report \in excused'
  <2>1. \A s \in {"done", "failed"} : s # "saving"
    OBVIOUS
  <2>. QED  BY <2>1, Zenon DEF ReleaseLock, ReleaseFails, MailerDies
<1>2. mailer \in [Mailers -> Plan] /\ lock \in [Reports -> Mailers \cup {NoHolder}]
      /\ mailer[w] \in Plan
  BY Zenon DEF ReportInv, ReportTypes, Plan
<1>3. PICK m \in Plan : /\ mailer' = [mailer EXCEPT ![w] = m]
                        /\ m.step \in {"off", "next"} /\ m.report = NoReport
  <2>1. Off \in Plan /\ Off.step = "off" /\ Off.report = NoReport
    BY SMT DEF Off, Plan
  <2>. DEFINE n == [step |-> "next", report |-> NoReport, left |-> mailer[w].left]
  <2>2. n \in Plan /\ n.step = "next" /\ n.report = NoReport
    BY <1>2, SMT DEF Plan, Ahead
  <2>3. mailer' = [mailer EXCEPT ![w] = Off] \/ mailer' = [mailer EXCEPT ![w] = n]
    BY <1>2, SMT DEF ReleaseLock, ReleaseFails, MailerDies
  <2>. HIDE DEF n
  <2>. QED  BY <2>1, <2>2, <2>3, Zenon
<1>4. mailer'[w] = m /\ \A v \in Mailers : v # w => mailer'[v] = mailer[v]
  BY <1>2, <1>3, SMT
<1>5. \A x \in Reports : NoReport # x
  BY ReportsAssumption DEF NoReport
<1>6. lock' = lock \/ lock' = [lock EXCEPT ![mailer[w].report] = NoHolder]
  BY Zenon DEF ReleaseLock, ReleaseFails, MailerDies
<1>7. lock' \in [Reports -> Mailers \cup {NoHolder}]
  BY <1>2, <1>6, SMT
<1>8. \A x \in Reports \ excused', v \in Mailers : mailer'[v].report = x => lock'[x] = v
  <2>. SUFFICES ASSUME NEW x \in Reports \ excused', NEW v \in Mailers, mailer'[v].report = x
                PROVE  lock'[x] = v
    OBVIOUS
  <2>1. v # w
    BY <1>3, <1>4, <1>5, Zenon
  <2>2. mailer[v].report = x /\ x \in Reports \ excused
    BY <1>1, <1>4, <2>1, Zenon
  <2>3. mailer[w].report # x
    BY <2>1, <2>2, OneHolder, Zenon
  <2>4. lock[x] = v
    BY <2>2, Zenon DEF ReportInv, HeldUnderLock
  <2>. QED  BY <1>2, <1>6, <2>3, <2>4, SMT
<1>9. m.step \notin {"sending", "saving"}
  BY <1>3
<1>. QED  BY <1>1, <1>3, <1>7, <1>8, <1>9, OneMoves, Zenon DEF Plan

LEMMA ExpirySafe ==
  ASSUME ReportInv, NEW r \in Reports, LockExpires(r)
  PROVE  ReportInv'
<1>1. /\ UNCHANGED <<reports, day, mails, mailer>> /\ lock' = [lock EXCEPT ![r] = NoHolder]
      /\ excused \subseteq excused'
      /\ \A w \in Mailers : mailer[w].report = r => r \in excused'
  BY Zenon DEF LockExpires
<1>2. lock \in [Reports -> Mailers \cup {NoHolder}]
  BY Zenon DEF ReportInv, ReportTypes
<1>3. lock' \in [Reports -> Mailers \cup {NoHolder}]
      /\ \A x \in Reports : x # r => lock'[x] = lock[x]
  BY <1>1, <1>2, SMT
<1>4. ReportTypes' /\ AtHand'
  BY <1>1, <1>3, Zenon DEF ReportInv, ReportTypes, AtHand
<1>5. HeldUnderLock'
  <2>. SUFFICES ASSUME NEW x \in Reports \ excused', NEW w \in Mailers, mailer'[w].report = x
                PROVE  lock'[x] = w
    BY Zenon DEF HeldUnderLock
  <2>1. x \in Reports \ excused /\ mailer[w].report = x /\ x # r
    BY <1>1, Zenon
  <2>2. lock[x] = w
    BY <2>1, Zenon DEF ReportInv, HeldUnderLock
  <2>. QED  BY <1>3, <2>1, <2>2, Zenon
<1>. QED  BY <1>1, <1>4, <1>5, QuietStep, Zenon

\* Whoever has a report at hand keeps it, and its lock.
LEMMA SameHolders ==
  ASSUME ReportInv, UNCHANGED <<lock, excused>>,
         \A v \in Mailers : mailer'[v].report = mailer[v].report
  PROVE  HeldUnderLock'
<1>. SUFFICES ASSUME NEW x \in Reports \ excused', NEW v \in Mailers, mailer'[v].report = x
              PROVE  lock'[x] = v
  BY Zenon DEF HeldUnderLock
<1>1. x \in Reports \ excused /\ mailer[v].report = x
  OBVIOUS
<1>. QED  BY <1>1, Zenon DEF ReportInv, HeldUnderLock

\* The row is read again under the lock: it is mailed only when its period is over.
LEMMA RecheckSafe ==
  ASSUME ReportInv, NEW w \in Mailers, Recheck(w)
  PROVE  ReportInv'
<1>. DEFINE r == mailer[w].report
            row == reports[r]
<1>1. /\ UNCHANGED <<reports, day, mails, lock, excused>> /\ mailer[w].step = "claimed"
      /\ Steps(w, IF ~row.exists THEN "failed" ELSE IF StillDue(row) THEN "sending" ELSE "done")
  BY Zenon DEF Recheck
<1>2. PICK s \in {"failed", "sending", "done"} :
        Steps(w, s) /\ (s = "sending" => row.exists /\ IsDue(row))
  BY <1>1, SMT DEF StillDue
<1>3. mailer \in [Mailers -> Plan] /\ mailer[w] \in Plan
  BY Zenon DEF ReportInv, ReportTypes, Plan
<1>4. r # NoReport /\ r \in Reports
  <2>1. "claimed" \notin {"off", "next"}
    OBVIOUS
  <2>2. r # NoReport
    BY <1>1, <2>1, Zenon DEF ReportInv, AtHand
  <2>. QED  BY <1>3, <2>2, SMT DEF Plan
<1>. DEFINE m == [mailer[w] EXCEPT !.step = s]
<1>5. mailer' = [mailer EXCEPT ![w] = m]
  BY <1>2, <1>3, SMT DEF Steps, Plan
<1>6. m \in Plan /\ m.step = s /\ m.report = r
  <2>1. s \in Ahead
    BY Zenon DEF Ahead
  <2>. QED  BY <1>3, <2>1, NextStepOfRun, Zenon
<1>7. /\ mailer'[w] = m /\ \A v \in Mailers : v # w => mailer'[v] = mailer[v]
      /\ mailer' \in [Mailers -> Plan]
  BY <1>3, <1>5, <1>6, SMT
<1>8. s \notin {"off", "next", "saving"} /\ mailer[w].step # "saving"
  BY <1>1
<1>. HIDE DEF m
<1>9. \A v \in Mailers : mailer'[v].report = mailer[v].report
  BY <1>6, <1>7, Zenon
<1>10. ReportTypes'
  BY <1>1, <1>7, Zenon DEF ReportInv, ReportTypes, Plan
<1>11. AtHand'
  BY <1>4, <1>6, <1>7, <1>8, Zenon DEF ReportInv, AtHand
<1>12. HeldUnderLock'
  BY <1>1, <1>9, SameHolders, Zenon
<1>13. \A x : LastMail(x)' = LastMail(x) /\ Period(x)' = Period(x)
  BY <1>1, Zenon DEF LastMail, Period
<1>14. MailsByNow' /\ ReportsOnce'
  BY <1>1, <1>13, Zenon DEF ReportInv, MailsByNow, ReportsOnce
<1>15. \A v \in Mailers : mailer'[v].step = "saving" <=> mailer[v].step = "saving"
  BY <1>6, <1>7, <1>8, Zenon
<1>16. DateKept' /\ MailedToday'
  <2>1. DateKept'
    BY <1>1, <1>9, <1>13, <1>15, Zenon DEF ReportInv, DateKept
  <2>2. MailedToday'
    BY <1>1, <1>9, <1>13, <1>15, Zenon DEF ReportInv, MailedToday
  <2>. QED  BY <2>1, <2>2
<1>17. PeriodIsOver'
  <2>. SUFFICES ASSUME NEW x \in Reports \ excused', NEW v \in Mailers,
                       mailer'[v].report = x, mailer'[v].step = "sending", mails[x] # <<>>
                PROVE  day - LastMail(x) >= Period(x)
    BY <1>1, <1>13, Zenon DEF PeriodIsOver
  <2>0. x \in Reports \ excused
    BY <1>1
  <2>1. CASE v # w
    BY <1>7, <2>0, <2>1, Zenon DEF ReportInv, PeriodIsOver
  <2>2. CASE v = w
    <3>1. x = r /\ s = "sending"
      BY <1>6, <1>7, <2>2
    <3>2. row.exists /\ IsDue(row)
      BY <1>2, <3>1
    <3>3. \A u \in Mailers : mailer[u].report = x => mailer[u].step # "saving"
      BY <1>8, <2>0, <3>1, OneHolder, Zenon
    <3>4. row.sent = LastMail(x)
      BY <2>0, <3>1, <3>2, <3>3, Zenon DEF ReportInv, DateKept
    <3>5. LastMail(x) <= day /\ day \in 0..LastDay
      BY <2>0, Zenon DEF ReportInv, MailsByNow, ReportTypes
    <3>6. LastMail(x) \in Nat
      <4>1. mails[x] \in Seq(Nat)
        BY <2>0, Zenon DEF ReportInv, ReportTypes
      <4>. QED  BY <4>1, SMT DEF LastMail
    <3>7. row.sent # Never
      <4>1. LastDay \in Nat
        BY ReportsAssumption
      <4>. QED  BY <3>4, <3>5, <3>6, <4>1, SMT DEF Never
    <3>8. day - row.sent >= FREQUENCY_DAYS[row.frequency]
      BY <3>2, <3>7, Zenon DEF IsDue
    <3>. QED  BY <3>1, <3>4, <3>8, Zenon DEF Period
  <2>. QED  BY <2>1, <2>2
<1>. QED  BY <1>10, <1>11, <1>12, <1>14, <1>16, <1>17 DEF ReportInv

\* The mail goes out: a whole period after the one before.
LEMMA SendSafe ==
  ASSUME ReportInv, NEW w \in Mailers, Send(w)
  PROVE  ReportInv'
<1>1. /\ UNCHANGED <<reports, day, lock, excused>> /\ mailer[w].step = "sending"
      /\ Steps(w, "saving")
  BY Zenon DEF Send
<1>2. /\ mailer \in [Mailers -> Plan] /\ mailer[w] \in Plan
      /\ mails \in [Reports -> Seq(Nat)]
  BY Zenon DEF ReportInv, ReportTypes, Plan
<1>3. PICK r \in Reports : /\ mailer[w].report = r /\ r # NoReport
                           /\ mails' = [mails EXCEPT ![r] = Append(@, day)]
  <2>1. "sending" \notin {"off", "next"}
    OBVIOUS
  <2>2. mailer[w].report # NoReport
    BY <1>1, <2>1, Zenon DEF ReportInv, AtHand
  <2>3. mailer[w].report \in Reports
    BY <1>2, <2>2, SMT DEF Plan
  <2>. QED  BY <2>2, <2>3, Zenon DEF Send
<1>4. day \in Nat
  BY SMT DEF ReportInv, ReportTypes
<1>. DEFINE m == [mailer[w] EXCEPT !.step = "saving"]
<1>5. mailer' = [mailer EXCEPT ![w] = m]
  BY <1>1, <1>2, SMT DEF Steps, Plan
<1>6. m \in Plan /\ m.step = "saving" /\ m.report = r
  <2>1. m \in Plan /\ m.step = "saving" /\ m.report = mailer[w].report
    <3>1. "saving" \in Ahead
      BY Zenon DEF Ahead
    <3>. QED  BY <1>2, <3>1, NextStepOfRun, Zenon
  <2>. QED  BY <1>3, <2>1, Zenon
<1>7. /\ mailer'[w] = m /\ \A v \in Mailers : v # w => mailer'[v] = mailer[v]
      /\ mailer' \in [Mailers -> Plan]
  BY <1>2, <1>5, <1>6, SMT
<1>. HIDE DEF m
<1>8. \A v \in Mailers : mailer'[v].report = mailer[v].report
  BY <1>3, <1>6, <1>7, Zenon
<1>9. mails' \in [Reports -> Seq(Nat)]
  BY <1>2, <1>3, <1>4, SMT
<1>10. /\ \A x \in Reports : x # r => mails'[x] = mails[x]
       /\ mails'[r] = Append(mails[r], day)
  BY <1>2, <1>3, <1>4, SMT
<1>11. /\ mails[r] \in Seq(Nat) /\ Len(mails'[r]) = Len(mails[r]) + 1
       /\ Len(mails[r]) \in Nat /\ mails'[r] # <<>>
       /\ mails'[r][Len(mails[r]) + 1] = day
       /\ \A i \in 1..Len(mails[r]) : mails'[r][i] = mails[r][i]
  <2>1. mails[r] \in Seq(Nat)
    BY <1>2, <1>3, Zenon
  <2>. QED  BY <1>4, <1>10, <2>1, SMT
<1>12. LastMail(r)' = day /\ \A x \in Reports : x # r => LastMail(x)' = LastMail(x)
  <2>1. LastMail(r)' = mails'[r][Len(mails[r]) + 1]
    BY <1>11, Zenon DEF LastMail
  <2>2. \A x \in Reports : x # r => LastMail(x)' = LastMail(x)
    BY <1>10, Zenon DEF LastMail
  <2>. QED  BY <1>11, <2>1, <2>2
<1>13. \A x : Period(x)' = Period(x)
  BY <1>1, Zenon DEF Period
<1>14. ReportTypes'
  BY <1>1, <1>7, <1>9, Zenon DEF ReportInv, ReportTypes, Plan
<1>15. AtHand'
  <2>1. "saving" \notin {"off", "next"}
    OBVIOUS
  <2>. QED  BY <1>3, <1>6, <1>7, <2>1, Zenon DEF ReportInv, AtHand
<1>16. HeldUnderLock'
  BY <1>1, <1>8, SameHolders, Zenon
<1>17. MailsByNow'
  <2>1. \A x \in Reports : x # r /\ mails'[x] # <<>> => LastMail(x)' <= day
    BY <1>10, <1>12, Zenon DEF ReportInv, MailsByNow
  <2>2. LastMail(r)' <= day
    BY <1>4, <1>12, SMT
  <2>. QED  BY <1>1, <2>1, <2>2, Zenon DEF MailsByNow
<1>18. \A x \in Reports \ excused, v \in Mailers :
          x # r /\ mailer[v].report = x => v # w /\ mailer'[v] = mailer[v]
  BY <1>3, <1>7, Zenon
<1>19. DateKept'
  <2>. SUFFICES ASSUME NEW x \in Reports \ excused', reports[x].exists, mails'[x] # <<>>,
                       \A v \in Mailers : mailer'[v].report = x => mailer'[v].step # "saving"
                PROVE  reports[x].sent = LastMail(x)'
    BY <1>1, Zenon DEF DateKept
  <2>1. x # r /\ x \in Reports \ excused
    BY <1>1, <1>3, <1>6, <1>7, Zenon
  <2>2. \A v \in Mailers : mailer[v].report = x => mailer[v].step # "saving"
    BY <1>8, <1>18, <2>1, Zenon
  <2>3. mails[x] # <<>> /\ LastMail(x)' = LastMail(x)
    BY <1>10, <1>12, <2>1, Zenon
  <2>. QED  BY <2>1, <2>2, <2>3, Zenon DEF ReportInv, DateKept
<1>20. MailedToday'
  <2>. SUFFICES ASSUME NEW x \in Reports \ excused', NEW v \in Mailers,
                       mailer'[v].report = x, mailer'[v].step = "saving"
                PROVE  mails'[x] # <<>> /\ LastMail(x)' = day
    BY <1>1, Zenon DEF MailedToday
  <2>1. CASE x = r
    BY <1>11, <1>12, <2>1, Zenon
  <2>2. CASE x # r
    <3>1. x \in Reports \ excused /\ mailer[v].report = x
      BY <1>1, <1>8
    <3>2. mailer[v].step = "saving"
      BY <1>18, <2>2, <3>1, Zenon
    <3>. QED  BY <1>10, <1>12, <2>2, <3>1, <3>2, Zenon DEF ReportInv, MailedToday
  <2>. QED  BY <2>1, <2>2
<1>21. PeriodIsOver'
  <2>. SUFFICES ASSUME NEW x \in Reports \ excused', NEW v \in Mailers,
                       mailer'[v].report = x, mailer'[v].step = "sending", mails'[x] # <<>>
                PROVE  day - LastMail(x)' >= Period(x)
    BY <1>1, <1>13, Zenon DEF PeriodIsOver
  <2>1. x \in Reports \ excused /\ mailer[v].report = x
    BY <1>1, <1>8
  <2>2. v # w
    BY <1>6, <1>7
  <2>3. x # r
    BY <1>3, <2>1, <2>2, OneHolder, Zenon
  <2>4. mailer[v].step = "sending"
    BY <1>18, <2>1, <2>3, Zenon
  <2>. QED  BY <1>10, <1>12, <2>1, <2>3, <2>4, Zenon DEF ReportInv, PeriodIsOver
<1>22. ReportsOnce'
  <2>. SUFFICES ASSUME NEW x \in Reports \ excused', NEW i \in 1..(Len(mails'[x]) - 1)
                PROVE  mails'[x][i + 1] - mails'[x][i] >= Period(x)
    BY <1>1, Zenon DEF ReportsOnce, Period
  <2>0. x \in Reports \ excused
    BY <1>1
  <2>1. CASE x # r
    BY <1>10, <2>0, <2>1, Zenon DEF ReportInv, ReportsOnce, Period
  <2>2. CASE x = r
    <3>1. i \in 1..Len(mails[r])
      BY <1>11, <2>2, SMT
    <3>2. CASE i = Len(mails[r])
      <4>1. mails[r] # <<>>
        BY <3>1, <3>2, <1>11, SMT
      <4>2. day - LastMail(r) >= Period(r)
        BY <1>1, <1>3, <2>0, <2>2, <4>1, Zenon DEF ReportInv, PeriodIsOver
      <4>. QED  BY <1>11, <2>2, <3>1, <3>2, <4>2, Zenon DEF LastMail
    <3>3. CASE i # Len(mails[r])
      <4>1. i \in 1..(Len(mails[r]) - 1) /\ i + 1 \in 1..Len(mails[r])
        BY <1>11, <3>1, <3>3, SMT
      <4>2. mails[r][i + 1] - mails[r][i] >= Period(r)
        BY <2>0, <2>2, <4>1, Zenon DEF ReportInv, ReportsOnce, Period
      <4>. QED  BY <1>11, <2>2, <3>1, <4>1, <4>2, Zenon
    <3>. QED  BY <3>2, <3>3
  <2>. QED  BY <2>1, <2>2
<1>. QED  BY <1>14, <1>15, <1>16, <1>17, <1>19, <1>20, <1>21, <1>22 DEF ReportInv

\* The date is saved, or save() raises because the row is gone.
LEMMA SaveSafe ==
  ASSUME ReportInv, NEW w \in Mailers, SaveSent(w)
  PROVE  ReportInv'
<1>1. /\ UNCHANGED <<day, lock, mails, excused>> /\ mailer[w].step = "saving"
  BY Zenon DEF SaveSent
<1>2. /\ mailer \in [Mailers -> Plan] /\ mailer[w] \in Plan
      /\ mails \in [Reports -> Seq(Nat)] /\ day \in Nat
  BY SMT DEF ReportInv, ReportTypes, Plan
<1>3. PICK r \in Reports : mailer[w].report = r /\ r # NoReport
  <2>1. "saving" \notin {"off", "next"}
    OBVIOUS
  <2>2. mailer[w].report # NoReport
    BY <1>1, <2>1, Zenon DEF ReportInv, AtHand
  <2>. QED  BY <1>2, <2>2, SMT DEF Plan
<1>4. PICK s \in {"done", "failed"} :
        /\ Steps(w, s)
        /\ \/ reports' = [reports EXCEPT ![r].sent = day]
           \/ reports' = reports /\ ~reports[r].exists
  BY <1>3, Zenon DEF SaveSent
<1>. DEFINE m == [mailer[w] EXCEPT !.step = s]
<1>5. mailer' = [mailer EXCEPT ![w] = m]
  BY <1>2, <1>4, SMT DEF Steps, Plan
<1>6. m \in Plan /\ m.step = s /\ m.report = r
  <2>0. mailer[w] \in Plan
    BY <1>2
  <2>1. m \in Plan /\ m.step = s /\ m.report = mailer[w].report
    <3>1. s \in Ahead
      BY Zenon DEF Ahead
    <3>. QED  BY <2>0, <3>1, NextStepOfRun, Zenon
  <2>. QED  BY <1>3, <2>1, Zenon
<1>7. /\ mailer'[w] = m /\ \A v \in Mailers : v # w => mailer'[v] = mailer[v]
      /\ mailer' \in [Mailers -> Plan]
  BY <1>2, <1>5, <1>6, SMT
<1>. HIDE DEF m
<1>8. \A v \in Mailers : mailer'[v].report = mailer[v].report
  BY <1>3, <1>6, <1>7, Zenon
<1>. DEFINE Row == [exists : BOOLEAN, active : BOOLEAN, frequency : {"weekly", "monthly"}, sent : Nat]
<1>9. reports \in [Reports -> Row]
  BY Zenon DEF ReportInv, ReportTypes
<1>10. reports' \in [Reports -> Row]
  <2>1. CASE reports' = [reports EXCEPT ![r].sent = day]
    <3>1. reports[r] \in Row
      BY <1>9, Zenon
    <3>2. [reports[r] EXCEPT !.sent = day] \in Row
      <4>1. ASSUME NEW row \in Row, NEW d \in Nat
            PROVE  [row EXCEPT !.sent = d] \in Row
        OBVIOUS
      <4>. QED  BY <1>2, <3>1, <4>1, Zenon
    <3>3. reports' = [reports EXCEPT ![r] = [reports[r] EXCEPT !.sent = day]]
      BY <2>1, <1>9, SMT
    <3>. HIDE DEF Row
    <3>. QED  BY <1>9, <3>2, <3>3, SMT
  <2>. QED  BY <1>4, <1>9, <2>1
<1>11. /\ \A x \in Reports : /\ reports'[x].exists = reports[x].exists
                             /\ reports'[x].frequency = reports[x].frequency
                             /\ x # r => reports'[x].sent = reports[x].sent
       /\ reports[r].exists => reports'[r].sent = day
  <2>1. CASE reports' = [reports EXCEPT ![r].sent = day]
    BY <1>9, <2>1, SMT
  <2>2. CASE reports' = reports /\ ~reports[r].exists
    BY <2>2
  <2>. QED  BY <1>4, <2>1, <2>2
<1>. HIDE DEF Row
<1>12. \A x \in Reports : LastMail(x)' = LastMail(x) /\ Period(x)' = Period(x)
  BY <1>1, <1>11, Zenon DEF LastMail, Period, FREQUENCY_DAYS
<1>13. ReportTypes'
  BY <1>1, <1>7, <1>10, Zenon DEF ReportInv, ReportTypes, Plan, Row
<1>14. s \notin {"off", "next", "saving", "sending"}
  OBVIOUS
<1>15. AtHand'
  BY <1>3, <1>6, <1>7, <1>14, Zenon DEF ReportInv, AtHand
<1>16. HeldUnderLock'
  BY <1>1, <1>8, SameHolders, Zenon
<1>17. MailsByNow'
  BY <1>1, <1>12, Zenon DEF ReportInv, MailsByNow
<1>18. \A v \in Mailers : mailer'[v].step \in {"saving", "sending"} => mailer'[v] = mailer[v]
  BY <1>6, <1>7, <1>14, Zenon
<1>19. MailedToday' /\ PeriodIsOver'
  <2>1. MailedToday'
    BY <1>1, <1>12, <1>18, Zenon DEF ReportInv, MailedToday
  <2>2. PeriodIsOver'
    BY <1>1, <1>12, <1>18, Zenon DEF ReportInv, PeriodIsOver
  <2>. QED  BY <2>1, <2>2
<1>20. ReportsOnce'
  BY <1>1, <1>12, Zenon DEF ReportInv, ReportsOnce, Period
<1>21. DateKept'
  <2>. SUFFICES ASSUME NEW x \in Reports \ excused', reports'[x].exists, mails[x] # <<>>,
                       \A v \in Mailers : mailer'[v].report = x => mailer'[v].step # "saving"
                PROVE  reports'[x].sent = LastMail(x)
    BY <1>1, <1>12, Zenon DEF DateKept
  <2>1. x \in Reports \ excused /\ reports[x].exists
    BY <1>1, <1>11
  <2>2. CASE x = r
    <3>1. LastMail(x) = day
      BY <1>1, <1>3, <2>1, <2>2, Zenon DEF ReportInv, MailedToday
    <3>. QED  BY <1>11, <2>1, <2>2, <3>1, Zenon
  <2>3. CASE x # r
    <3>1. \A v \in Mailers : mailer[v].report = x => mailer[v].step # "saving"
      BY <1>3, <1>7, <2>3, Zenon
    <3>. QED  BY <1>11, <2>1, <2>3, <3>1, Zenon DEF ReportInv, DateKept
  <2>. QED  BY <2>2, <2>3
<1>. QED  BY <1>13, <1>15, <1>16, <1>17, <1>19, <1>20, <1>21 DEF ReportInv

\* The page changes rows, but neither the period nor the date of a report that was
\* mailed, and it brings none back.
LEMMA PageSafe ==
  ASSUME ReportInv, UNCHANGED <<mailer, day, lock, mails, excused>>,
         reports' \in [Reports -> [exists : BOOLEAN, active : BOOLEAN,
                                   frequency : {"weekly", "monthly"}, sent : Nat]],
         \A x \in Reports : mails[x] # <<>> =>
           /\ reports'[x].frequency = reports[x].frequency
           /\ reports'[x].sent = reports[x].sent
           /\ reports'[x].exists => reports[x].exists
  PROVE  ReportInv'
<1>1. ReportTypes'
  BY Zenon DEF ReportInv, ReportTypes
<1>2. AtHand' /\ HeldUnderLock'
  BY Zenon DEF ReportInv, AtHand, HeldUnderLock
<1>3. \A x \in Reports : LastMail(x)' = LastMail(x)
  BY Zenon DEF LastMail
<1>4. \A x \in Reports : mails[x] # <<>> => Period(x)' = Period(x)
  BY Zenon DEF Period, FREQUENCY_DAYS
<1>5. MailsByNow' /\ MailedToday'
  <2>1. MailsByNow'
    BY <1>3, Zenon DEF ReportInv, MailsByNow
  <2>2. MailedToday'
    BY <1>3, SMT DEF ReportInv, MailedToday
  <2>. QED  BY <2>1, <2>2
<1>6. DateKept'
  BY <1>3, Zenon DEF ReportInv, DateKept
<1>7. PeriodIsOver'
  <2>. SUFFICES ASSUME NEW x \in Reports \ excused, NEW w \in Mailers,
                       mailer[w].report = x, mailer[w].step = "sending", mails[x] # <<>>
                PROVE  day - LastMail(x)' >= Period(x)'
    BY Zenon DEF PeriodIsOver
  <2>1. day - LastMail(x) >= Period(x)
    BY Zenon DEF ReportInv, PeriodIsOver
  <2>2. LastMail(x)' = LastMail(x) /\ Period(x)' = Period(x)
    BY <1>3, <1>4, Zenon
  <2>. QED  BY <2>1, <2>2, Zenon
<1>8. ReportsOnce'
  <2>. SUFFICES ASSUME NEW x \in Reports \ excused', NEW i \in 1..(Len(mails[x]) - 1)
                PROVE  mails[x][i + 1] - mails[x][i] >= Period(x)'
    BY Zenon DEF ReportsOnce, Period
  <2>1. mails[x] \in Seq(Nat)
    BY Zenon DEF ReportInv, ReportTypes
  <2>2. mails[x] # <<>>
    BY <2>1, SMT
  <2>. QED  BY <1>4, <2>2, Zenon DEF ReportInv, ReportsOnce, Period
<1>. QED  BY <1>1, <1>2, <1>5, <1>6, <1>7, <1>8 DEF ReportInv

LEMMA ManagementSafe ==
  ASSUME ReportInv, NEW r \in Reports,
         \/ reports_management(r) \/ report_toggle_active(r) \/ SaveToggle(r)
         \/ report_delete(r)
  PROVE  ReportInv'
<1>. DEFINE Row == [exists : BOOLEAN, active : BOOLEAN, frequency : {"weekly", "monthly"}, sent : Nat]
<1>1. UNCHANGED <<mailer, day, lock, mails, excused>>
  BY Zenon DEF reports_management, report_toggle_active, SaveToggle, report_delete
<1>2. reports \in [Reports -> Row] /\ reports[r] \in Row
  BY Zenon DEF ReportInv, ReportTypes
<1>3. ASSUME NEW row \in Row, reports' = [reports EXCEPT ![r] = row],
             mails[r] = <<>> \/ /\ row.frequency = reports[r].frequency
                                /\ row.sent = reports[r].sent
                                /\ row.exists => reports[r].exists
      PROVE  ReportInv'
  <2>. HIDE DEF Row
  <2>1. /\ reports' \in [Reports -> Row] /\ reports'[r] = row
        /\ \A x \in Reports : x # r => reports'[x] = reports[x]
    BY <1>2, <1>3, SMT
  <2>2. \A x \in Reports : mails[x] # <<>> =>
           /\ reports'[x].frequency = reports[x].frequency
           /\ reports'[x].sent = reports[x].sent
           /\ reports'[x].exists => reports[x].exists
    BY <1>3, <2>1, Zenon
  <2>. QED  BY <1>1, <2>1, <2>2, PageSafe DEF Row
<1>4. ASSUME reports' = reports
      PROVE  ReportInv'
  BY <1>1, <1>2, <1>4, PageSafe
<1>5. CASE reports_management(r)
  <2>1. DOMAIN FREQUENCY_DAYS = {"weekly", "monthly"} /\ Never \in Nat
    <3>1. LastDay \in Nat
      BY ReportsAssumption
    <3>. QED  BY <3>1, SMT DEF FREQUENCY_DAYS, Never
  <2>2. PICK f \in {"weekly", "monthly"} :
          reports' = [reports EXCEPT ![r] =
            [exists |-> TRUE, active |-> TRUE, frequency |-> f, sent |-> Never]]
    BY <1>5, <2>1, Zenon DEF reports_management
  <2>3. [exists |-> TRUE, active |-> TRUE, frequency |-> f, sent |-> Never] \in Row
    BY <2>1, SMT
  <2>4. mails[r] = <<>>
    BY <1>5, Zenon DEF reports_management
  <2>. HIDE DEF Row
  <2>. QED  BY <1>3, <2>2, <2>3, <2>4
<1>6. CASE SaveToggle(r)
  <2>1. CASE ~reports[r].exists
    BY <1>4, <1>6, <2>1, Zenon DEF SaveToggle
  <2>2. CASE reports[r].exists
    <3>. DEFINE row == [reports[r] EXCEPT !.active = (pending[r] = "on")]
    <3>1. ASSUME NEW old \in Row, NEW b \in BOOLEAN, NEW new, new = [old EXCEPT !.active = b]
          PROVE  /\ new \in Row /\ new.frequency = old.frequency
                 /\ new.sent = old.sent /\ new.exists = old.exists
      BY <3>1, SMT
    <3>2. (pending[r] = "on") \in BOOLEAN
      OBVIOUS
    <3>3. /\ row \in Row /\ row.frequency = reports[r].frequency
          /\ row.sent = reports[r].sent /\ row.exists = reports[r].exists
      BY <1>2, <3>1, <3>2, Zenon
    <3>4. reports' = [reports EXCEPT ![r].active = (pending[r] = "on")]
      BY <1>6, <2>2, Zenon DEF SaveToggle
    <3>5. reports' = [reports EXCEPT ![r] = row]
      BY <3>4
    <3>. HIDE DEF Row, row
    <3>. QED  BY <1>3, <3>3, <3>5, Zenon
  <2>. QED  BY <2>1, <2>2
<1>7. CASE report_delete(r)
  <2>. DEFINE row == [reports[r] EXCEPT !.exists = FALSE]
  <2>1. ASSUME NEW old \in Row, NEW b \in BOOLEAN, NEW new, new = [old EXCEPT !.exists = b]
        PROVE  /\ new \in Row /\ new.frequency = old.frequency
               /\ new.sent = old.sent /\ new.exists = b
    BY <2>1, SMT
  <2>2. /\ row \in Row /\ row.frequency = reports[r].frequency
        /\ row.sent = reports[r].sent /\ ~row.exists
    BY <1>2, <2>1, Zenon
  <2>3. reports' = [reports EXCEPT ![r].exists = FALSE]
    BY <1>7, Zenon DEF report_delete
  <2>4. reports' = [reports EXCEPT ![r] = row]
    BY <2>3
  <2>. HIDE DEF Row, row
  <2>. QED  BY <1>3, <2>2, <2>4, Zenon
<1>8. CASE report_toggle_active(r)
  BY <1>4, <1>8, Zenon DEF report_toggle_active
<1>. QED  BY <1>5, <1>6, <1>7, <1>8

\* The next day finds no run.
LEMMA NextDaySafe ==
  ASSUME ReportInv, NextDay
  PROVE  ReportInv'
<1>1. /\ UNCHANGED <<reports, mailer, mails, excused>> /\ day < LastDay /\ day' = day + 1
      /\ lock' = [r \in Reports |-> NoHolder]
      /\ \A w \in Mailers : mailer[w].step = "off"
  BY Zenon DEF NextDay
<1>2. LastDay \in Nat /\ day \in 0..LastDay
  BY ReportsAssumption, Zenon DEF ReportInv, ReportTypes
<1>3. day' \in 0..LastDay /\ day \in Nat
  BY <1>1, <1>2, SMT
<1>4. ReportTypes'
  <2>1. lock' \in [Reports -> Mailers \cup {NoHolder}]
    BY <1>1, SMT
  <2>. QED  BY <1>1, <1>3, <2>1, Zenon DEF ReportInv, ReportTypes
<1>5. \A x \in Reports : NoReport # x
  BY ReportsAssumption DEF NoReport
<1>6. /\ \A w \in Mailers : mailer[w].report = NoReport
      /\ "off" # "saving" /\ "off" # "sending"
  BY <1>1, Zenon DEF ReportInv, AtHand
<1>7. AtHand' /\ HeldUnderLock' /\ MailedToday' /\ PeriodIsOver'
  BY <1>1, <1>5, <1>6, Zenon DEF ReportInv, AtHand, HeldUnderLock, MailedToday, PeriodIsOver
<1>8. \A x : LastMail(x)' = LastMail(x)
  BY <1>1, Zenon DEF LastMail
<1>9. MailsByNow'
  <2>. SUFFICES ASSUME NEW x \in Reports, mails[x] # <<>>
                PROVE  LastMail(x) <= day'
    BY <1>1, <1>8, Zenon DEF MailsByNow
  <2>1. LastMail(x) <= day
    BY Zenon DEF ReportInv, MailsByNow
  <2>2. LastMail(x) \in Nat
    <3>1. mails[x] \in Seq(Nat)
      BY Zenon DEF ReportInv, ReportTypes
    <3>. QED  BY <3>1, SMT DEF LastMail
  <2>. QED  BY <1>1, <1>3, <2>1, <2>2, SMT
<1>10. DateKept' /\ ReportsOnce'
  BY <1>1, <1>8, Zenon DEF ReportInv, DateKept, ReportsOnce
<1>. QED  BY <1>4, <1>7, <1>9, <1>10 DEF ReportInv

LEMMA ReportsStep ==
  ASSUME ReportInv, [ReportsNext]_reportVars
  PROVE  ReportInv'
<1>1. CASE UNCHANGED reportVars
  <2>1. UNCHANGED <<reports, lock, mailer, day, mails, excused>>
    BY <1>1 DEF reportVars
  <2>. QED  BY <2>1, PageSafe, Zenon DEF ReportInv, ReportTypes
<1>. QED  BY <1>1, RunSafe, ClaimSafe, FailSafe, LetGoSafe, ExpirySafe, RecheckSafe,
             SendSafe, SaveSafe, ManagementSafe, NextDaySafe, Zenon DEF ReportsNext

\* However many workers run the command, whatever the page does meanwhile and
\* whatever fails, two mails of a report that is not excused are a period apart.
THEOREM MailedOncePerPeriod == ReportsSpec => []ReportsOnce
<1>1. ReportInv => ReportsOnce
  BY DEF ReportInv
<1>. QED  BY <1>1, ReportsStep, InitReports, PTL DEF ReportsSpec

\* What of the reports their mails do not tell.
ReportWithin ==
  /\ \A r \in Reports : reports[r].sent \in 0..Never /\ mails[r] \in Seq(0..LastDay)
  /\ pending \in [Reports -> {"none", "on", "off"}]
  /\ excused \in SUBSET Reports
  /\ clicks \in 0..MaxClicks /\ upsets \in 0..MaxUpsets

LEMMA DaysWithin ==
  /\ 0 \in 0..LastDay /\ Never \in 0..Never /\ 0..LastDay \subseteq 0..Never
  /\ \A n \in 0..MaxClicks : n < MaxClicks => n + 1 \in 0..MaxClicks
  /\ \A n \in 0..MaxUpsets : n < MaxUpsets => n + 1 \in 0..MaxUpsets
  /\ 0 \in 0..MaxClicks /\ 0 \in 0..MaxUpsets
<1>1. LastDay \in Nat /\ MaxClicks \in Nat /\ MaxUpsets \in Nat
  BY ReportsAssumption
<1>2. 0 \in 0..LastDay /\ Never \in 0..Never /\ 0..LastDay \subseteq 0..Never
  BY <1>1, SMT DEF Never
<1>3. \A n \in 0..MaxClicks : n < MaxClicks => n + 1 \in 0..MaxClicks
  BY <1>1, SMT
<1>4. \A n \in 0..MaxUpsets : n < MaxUpsets => n + 1 \in 0..MaxUpsets
  BY <1>1, SMT
<1>5. 0 \in 0..MaxClicks /\ 0 \in 0..MaxUpsets
  BY <1>1, SMT
<1>. QED  BY <1>2, <1>3, <1>4, <1>5

\* A date is saved, and a mail goes out, on a day there is.
LEMMA DatesTyped ==
  ASSUME ReportInv, ReportWithin, [ReportsNext]_reportVars
  PROVE  \A r \in Reports : reports'[r].sent \in 0..Never /\ mails'[r] \in Seq(0..LastDay)
<1>1. /\ reports \in [Reports -> [exists : BOOLEAN, active : BOOLEAN,
                                  frequency : {"weekly", "monthly"}, sent : Nat]]
      /\ mails \in [Reports -> Seq(Nat)] /\ day \in 0..LastDay /\ day \in 0..Never
      /\ \A r \in Reports : reports[r].sent \in 0..Never /\ mails[r] \in Seq(0..LastDay)
  BY DaysWithin, Zenon DEF ReportInv, ReportTypes, ReportWithin
<1>2. ASSUME NEW w \in Mailers, Send(w)
      PROVE  reports' = reports /\ \A r \in Reports : mails'[r] \in Seq(0..LastDay)
  <2>1. reports' = reports /\ mails' = [mails EXCEPT ![mailer[w].report] = Append(@, day)]
    BY <1>2, Zenon DEF Send
  <2>2. ASSUME NEW r \in Reports PROVE mails'[r] = mails[r] \/ mails'[r] = Append(mails[r], day)
    BY <1>1, <2>1, Zenon
  <2>3. ASSUME NEW r \in Reports PROVE Append(mails[r], day) \in Seq(0..LastDay)
    <3>1. mails[r] \in Seq(0..LastDay) /\ day \in 0..LastDay
      BY <1>1
    <3>. QED  BY <3>1, SMT
  <2>. QED  BY <1>1, <2>1, <2>2, <2>3, Zenon
<1>3. ASSUME NEW r \in Reports, NEW row, reports' = [reports EXCEPT ![r] = row], row.sent \in 0..Never
      PROVE  \A x \in Reports : reports'[x].sent \in 0..Never
  BY <1>1, <1>3, Zenon
<1>4. ASSUME NEW w \in Mailers, SaveSent(w)
      PROVE  mails' = mails /\ \A r \in Reports : reports'[r].sent \in 0..Never
  <2>1. /\ mails' = mails
        /\ \/ reports' = reports
           \/ reports' = [reports EXCEPT ![mailer[w].report].sent = day]
    BY <1>4, Zenon DEF SaveSent
  <2>2. ASSUME NEW r \in Reports, reports' = [reports EXCEPT ![mailer[w].report].sent = day]
        PROVE  reports'[r] = reports[r] \/ reports'[r] = [reports[r] EXCEPT !.sent = day]
    BY <1>1, <2>2, Zenon
  <2>3. ASSUME NEW r \in Reports PROVE [reports[r] EXCEPT !.sent = day].sent = day
    BY <1>1, SMT
  <2>. QED  BY <1>1, <2>1, <2>2, <2>3, Zenon
<1>5. ASSUME NEW r \in Reports, reports_management(r) \/ SaveToggle(r) \/ report_delete(r)
      PROVE  mails' = mails /\ \A x \in Reports : reports'[x].sent \in 0..Never
  <2>1. mails' = mails
    BY <1>5, Zenon DEF reports_management, SaveToggle, report_delete
  <2>2. CASE reports' = reports
    BY <1>1, <2>1, <2>2, Zenon
  <2>3. CASE \E f \in DOMAIN FREQUENCY_DAYS : reports' = [reports EXCEPT ![r] =
               [exists |-> TRUE, active |-> TRUE, frequency |-> f, sent |-> Never]]
    <3>1. \A f : [exists |-> TRUE, active |-> TRUE, frequency |-> f, sent |-> Never].sent = Never
      BY Zenon
    <3>2. Never \in 0..Never
      BY DaysWithin
    <3>. QED  BY <1>3, <2>1, <2>3, <3>1, <3>2, Zenon
  <2>4. CASE reports' = [reports EXCEPT ![r].active = (pending[r] = "on")]
    <3>1. reports' = [reports EXCEPT ![r] = [reports[r] EXCEPT !.active = (pending[r] = "on")]]
      BY <2>4, Zenon
    <3>2. [reports[r] EXCEPT !.active = (pending[r] = "on")].sent = reports[r].sent
      BY <1>1, SMT
    <3>. QED  BY <1>1, <1>3, <2>1, <3>1, <3>2, Zenon
  <2>5. CASE reports' = [reports EXCEPT ![r].exists = FALSE]
    <3>1. reports' = [reports EXCEPT ![r] = [reports[r] EXCEPT !.exists = FALSE]]
      BY <2>5, Zenon
    <3>2. [reports[r] EXCEPT !.exists = FALSE].sent = reports[r].sent
      BY <1>1, SMT
    <3>. QED  BY <1>1, <1>3, <2>1, <3>1, <3>2, Zenon
  <2>. QED  BY <1>5, <2>1, <2>2, <2>3, <2>4, <2>5,
               Zenon DEF reports_management, SaveToggle, report_delete
<1>6. ASSUME NEW w \in Mailers,
             \/ StartRun(w) \/ EndRun(w) \/ Claim(w) \/ ClaimFails(w) \/ Recheck(w)
             \/ MailFails(w) \/ RenderFails(w)
             \/ ReleaseLock(w) \/ ReleaseFails(w) \/ MailerDies(w)
      PROVE  UNCHANGED <<reports, mails>>
  BY <1>6, Zenon DEF StartRun, EndRun, Claim, ClaimFails, Recheck, MailFails, RenderFails,
     ReleaseLock, ReleaseFails, MailerDies
<1>7. ASSUME NEW r \in Reports, LockExpires(r) \/ report_toggle_active(r)
      PROVE  UNCHANGED <<reports, mails>>
  BY <1>7, Zenon DEF LockExpires, report_toggle_active
<1>8. CASE NextDay \/ UNCHANGED reportVars
  BY <1>1, <1>8, Zenon DEF NextDay, reportVars
<1>. QED  BY <1>1, <1>2, <1>4, <1>5, <1>6, <1>7, <1>8, Zenon DEF ReportsNext

\* A worker uses what the page does not, and the page what no worker does.
LEMMA WorkersTyped ==
  ASSUME ReportInv, ReportWithin, NEW w \in Mailers,
         \/ StartRun(w) \/ EndRun(w) \/ Claim(w) \/ ClaimFails(w) \/ Recheck(w)
         \/ Send(w) \/ MailFails(w) \/ RenderFails(w) \/ SaveSent(w)
         \/ ReleaseLock(w) \/ ReleaseFails(w) \/ MailerDies(w)
  PROVE  UNCHANGED <<pending, clicks>> /\ excused' \in SUBSET Reports /\ upsets' \in 0..MaxUpsets
<1>1. mailer[w] \in Plan /\ excused \in SUBSET Reports /\ upsets \in 0..MaxUpsets
  BY Zenon DEF ReportInv, ReportTypes, ReportWithin, Plan
<1>2. mailer[w].left \subseteq Reports /\ mailer[w].report \in Reports \cup {NoReport}
  BY <1>1, SMT DEF Plan
<1>3. mailer[w].step = "saving" => mailer[w].report # NoReport
  <2>1. "saving" \notin {"off", "next"}
    OBVIOUS
  <2>. QED  BY <2>1, Zenon DEF ReportInv, AtHand
<1>4. UNCHANGED <<pending, clicks>>
  BY Zenon DEF StartRun, EndRun, Claim, ClaimFails, Recheck, Send, MailFails, RenderFails, SaveSent,
     ReleaseLock, ReleaseFails, MailerDies
<1>5. \/ excused' = excused
      \/ \E r \in mailer[w].left : excused' = excused \cup {r}
      \/ mailer[w].step = "saving" /\ excused' = excused \cup {mailer[w].report}
  BY Zenon DEF StartRun, EndRun, Claim, ClaimFails, Recheck, Send, MailFails, RenderFails, SaveSent,
     ReleaseLock, ReleaseFails, MailerDies
<1>6. upsets' = upsets \/ (upsets < MaxUpsets /\ upsets' = upsets + 1)
  BY Zenon DEF StartRun, EndRun, Claim, ClaimFails, Recheck, Send, MailFails, RenderFails, SaveSent,
     ReleaseLock, ReleaseFails, MailerDies
<1>7. excused' \in SUBSET Reports
  <2>1. ASSUME NEW r \in Reports, excused' = excused \cup {r} PROVE excused' \in SUBSET Reports
    BY <1>1, <2>1, Zenon
  <2>2. CASE mailer[w].step = "saving" /\ excused' = excused \cup {mailer[w].report}
    <3>1. mailer[w].report \in Reports
      BY <1>2, <1>3, <2>2, Zenon
    <3>. QED  BY <2>1, <2>2, <3>1, Zenon
  <2>3. ASSUME NEW r \in mailer[w].left, excused' = excused \cup {r}
        PROVE  excused' \in SUBSET Reports
    <3>1. r \in Reports
      BY <1>2
    <3>. QED  BY <2>1, <2>3, <3>1
  <2>4. CASE excused' = excused
    BY <1>1, <2>4
  <2>. QED  BY <1>5, <2>2, <2>3, <2>4
<1>8. upsets' \in 0..MaxUpsets
  BY <1>1, <1>6, DaysWithin, Zenon
<1>. QED  BY <1>4, <1>7, <1>8

LEMMA PageTyped ==
  ASSUME ReportWithin, NEW r \in Reports,
         \/ LockExpires(r) \/ reports_management(r) \/ report_toggle_active(r)
         \/ SaveToggle(r) \/ report_delete(r)
  PROVE  /\ pending' \in [Reports -> {"none", "on", "off"}] /\ clicks' \in 0..MaxClicks
         /\ excused' \in SUBSET Reports /\ upsets' = upsets
<1>1. /\ pending \in [Reports -> {"none", "on", "off"}] /\ clicks \in 0..MaxClicks
      /\ excused \in SUBSET Reports
  BY Zenon DEF ReportWithin
<1>2. pending' = pending \/ \E v \in {"none", "on", "off"} : pending' = [pending EXCEPT ![r] = v]
  BY Zenon DEF LockExpires, reports_management, report_toggle_active, SaveToggle, report_delete
<1>3. clicks' = clicks \/ (clicks < MaxClicks /\ clicks' = clicks + 1)
  BY Zenon DEF LockExpires, reports_management, report_toggle_active, SaveToggle, report_delete, Click
<1>4. (excused' = excused \/ excused' = excused \cup {r}) /\ upsets' = upsets
  BY Zenon DEF LockExpires, reports_management, report_toggle_active, SaveToggle, report_delete
<1>5. pending' \in [Reports -> {"none", "on", "off"}]
  BY <1>1, <1>2, Zenon
<1>6. clicks' \in 0..MaxClicks
  BY <1>1, <1>3, DaysWithin, Zenon
<1>. QED  BY <1>1, <1>4, <1>5, <1>6, Zenon

\* However many workers run the command and whatever the page does: every mail and
\* every date of a row is of a day there was, no worker has a report at hand, or left
\* to do, that is none of the rows, and a lock names a worker or nobody.
THEOREM ReportTypeCorrect == ReportsSpec => []ReportTypeOK
<1>1. ReportsInit => ReportWithin
  <2>. SUFFICES ASSUME ReportsInit PROVE ReportWithin
    OBVIOUS
  <2>1. ASSUME NEW r \in Reports PROVE reports[r].sent \in 0..Never
    <3>1. reports[r] \in [exists : BOOLEAN, active : {TRUE}, frequency : DOMAIN FREQUENCY_DAYS,
                           sent : {Never}]
      BY Zenon DEF ReportsInit
    <3>2. reports[r].sent \in {Never}
      BY <3>1, Zenon
    <3>. QED  BY <3>2, DaysWithin, Zenon
  <2>2. ASSUME NEW r \in Reports PROVE mails[r] \in Seq(0..LastDay)
    <3>1. mails[r] = <<>>
      BY Zenon DEF ReportsInit
    <3>. QED  BY <3>1, SMT
  <2>. QED  BY <2>1, <2>2, DaysWithin, Zenon DEF ReportsInit, ReportWithin
<1>2. ReportInv /\ ReportWithin /\ [ReportsNext]_reportVars => ReportWithin'
  <2>. SUFFICES ASSUME ReportInv, ReportWithin, [ReportsNext]_reportVars PROVE ReportWithin'
    OBVIOUS
  <2>1. /\ pending' \in [Reports -> {"none", "on", "off"}] /\ excused' \in SUBSET Reports
        /\ clicks' \in 0..MaxClicks /\ upsets' \in 0..MaxUpsets
    <3>1. CASE NextDay \/ UNCHANGED reportVars
      BY <3>1, Zenon DEF NextDay, reportVars, ReportWithin
    <3>2. CASE ReportsNext /\ ~NextDay
      BY <3>2, WorkersTyped, PageTyped, Zenon DEF ReportsNext, ReportWithin
    <3>. QED  BY <3>1, <3>2
  <2>. QED  BY <2>1, DatesTyped, Zenon DEF ReportWithin
<1>3. ReportInv /\ ReportWithin => ReportTypeOK
  <2>. SUFFICES ASSUME ReportInv, ReportWithin PROVE ReportTypeOK
    OBVIOUS
  <2>. DEFINE Row == [exists : BOOLEAN, active : BOOLEAN, frequency : DOMAIN FREQUENCY_DAYS,
                      sent : 0..Never]
  <2>1. reports \in [Reports -> Row]
    <3>1. ASSUME NEW r \in Reports PROVE reports[r] \in Row
      <4>. DEFINE x == reports[r]
      <4>1. x \in [exists : BOOLEAN, active : BOOLEAN, frequency : {"weekly", "monthly"}, sent : Nat]
        BY Zenon DEF ReportInv, ReportTypes
      <4>2. x.sent \in 0..Never
        BY Zenon DEF ReportWithin
      <4>. HIDE DEF x
      <4>3. DOMAIN FREQUENCY_DAYS = {"weekly", "monthly"}
        BY SMT DEF FREQUENCY_DAYS
      <4>4. /\ x = [exists |-> x.exists, active |-> x.active, frequency |-> x.frequency,
                    sent |-> x.sent]
            /\ x.exists \in BOOLEAN /\ x.active \in BOOLEAN /\ x.frequency \in {"weekly", "monthly"}
        <5>1. x = [exists |-> x.exists, active |-> x.active, frequency |-> x.frequency,
                   sent |-> x.sent]
          BY <4>1, SMT
        <5>2. x.exists \in BOOLEAN /\ x.active \in BOOLEAN /\ x.frequency \in {"weekly", "monthly"}
          BY <4>1, Zenon
        <5>. QED  BY <5>1, <5>2
      <4>5. x \in Row
        BY <4>2, <4>3, <4>4, Zenon
      <4>. QED  BY <4>5 DEF x
    <3>2. DOMAIN reports = Reports /\ reports = [r \in Reports |-> reports[r]]
      BY Zenon DEF ReportInv, ReportTypes
    <3>. HIDE DEF Row
    <3>. QED  BY <3>1, <3>2, Zenon
  <2>. QED  BY <2>1, Zenon DEF ReportInv, ReportTypes, ReportWithin, ReportTypeOK
<1>. QED  BY <1>1, <1>2, <1>3, InitReports, ReportsStep, PTL DEF ReportsSpec

-----------------------------------------------------------------------------
(* The administrator's session. *)

\* What a session under key k may say: only what was passed under that key.
Honest(k, x, passed) ==
  x.user => /\ k \in Keys /\ "password" \in passed[k]
            /\ x.stage \in {"2fa", "device"} => "second" \in passed[k]
            /\ x.final /\ x.stage = "complete" => passed[k] = Layers

\* What a request that goes on has been admitted with.
Ready(pc, op, k, x, passed) ==
  /\ pc = "code" => x.user
  /\ pc = "codes" /\ op = "setup" => x.user /\ "second" \in passed[k]
  /\ pc = "tx" => x.user /\ (TwoFactorDone(x) \/ (op = "register" /\ x.final))

AccessTypes ==
  /\ made \in 0..MaxKeys /\ rows \subseteq 1..made
  /\ sess \in [Keys -> Data] /\ req \in [Requests -> Request]
  /\ earned \in [Keys -> SUBSET Layers]
  /\ \A r \in Requests : req[r].key \in 0..made

\* Rows and the copies of requests alike say only what was passed.
AccessInv ==
  /\ AccessTypes
  /\ \A k \in rows : Honest(k, sess[k], earned)
  /\ \A r \in Requests : /\ Honest(req[r].key, req[r].data, earned)
                         /\ Ready(req[r].pc, req[r].op, req[r].key, req[r].data, earned)

LEMMA DataFields ==
  ASSUME NEW x \in Data
  PROVE  /\ x.user \in BOOLEAN /\ x.final \in BOOLEAN /\ x.stage \in Stages
         /\ x.dev \in Devices \cup {NoDevice} /\ x.fresh \in BOOLEAN
BY DEF Data

LEMMA OneField ==
  ASSUME NEW x \in Data
  PROVE  /\ \A s \in Stages :
              /\ [x EXCEPT !.stage = s] \in Data /\ [x EXCEPT !.stage = s].stage = s
              /\ [x EXCEPT !.stage = s].user = x.user /\ [x EXCEPT !.stage = s].final = x.final
         /\ \A u \in BOOLEAN :
              /\ [x EXCEPT !.user = u] \in Data /\ [x EXCEPT !.user = u].final = x.final
         /\ \A f \in BOOLEAN : [x EXCEPT !.final = f] \in Data
         /\ \A d \in Devices : [x EXCEPT !.dev = d] \in Data
         /\ \A z \in BOOLEAN :
              /\ [x EXCEPT !.fresh = z] \in Data /\ [x EXCEPT !.fresh = z].user = x.user
              /\ [x EXCEPT !.fresh = z].stage = x.stage
              /\ [x EXCEPT !.fresh = z].final = x.final
<1>1. ASSUME NEW s \in Stages
      PROVE  /\ [x EXCEPT !.stage = s] \in Data /\ [x EXCEPT !.stage = s].stage = s
             /\ [x EXCEPT !.stage = s].user = x.user /\ [x EXCEPT !.stage = s].final = x.final
  BY SMT DEF Data
<1>2. ASSUME NEW u \in BOOLEAN
      PROVE  /\ [x EXCEPT !.user = u] \in Data /\ [x EXCEPT !.user = u].final = x.final
  BY SMT DEF Data
<1>3. ASSUME NEW f \in BOOLEAN PROVE [x EXCEPT !.final = f] \in Data
  BY SMT DEF Data
<1>4. ASSUME NEW d \in Devices PROVE [x EXCEPT !.dev = d] \in Data
  BY SMT DEF Data
<1>5. ASSUME NEW z \in BOOLEAN
      PROVE  /\ [x EXCEPT !.fresh = z] \in Data /\ [x EXCEPT !.fresh = z].user = x.user
             /\ [x EXCEPT !.fresh = z].stage = x.stage
             /\ [x EXCEPT !.fresh = z].final = x.final
  BY SMT DEF Data
<1>. QED  BY <1>1, <1>2, <1>3, <1>4, <1>5, Zenon

LEMMA NewData ==
  /\ Anonymous \in Data /\ ~Anonymous.user
  /\ Primary \in Data /\ Primary.stage = "primary" /\ ~Primary.final
  /\ \A x \in Data, s \in Stages :
       /\ [x EXCEPT !.stage = s] \in Data /\ [x EXCEPT !.stage = s].stage = s
       /\ [x EXCEPT !.stage = s].user = x.user /\ [x EXCEPT !.stage = s].final = x.final
  /\ \A x \in Data, d \in Devices : Complete(x, d) \in Data
  /\ \A x \in Data : /\ Older(x) \in Data /\ Older(x).user = x.user
                     /\ Older(x).stage = x.stage /\ Older(x).final = x.final
<1>1. Anonymous \in Data /\ ~Anonymous.user
  BY SMT DEF Anonymous, Data, Stages
<1>2. Primary \in Data /\ Primary.stage = "primary" /\ ~Primary.final
  <2>. DEFINE y == [Anonymous EXCEPT !.user = TRUE]
  <2>1. Primary = [y EXCEPT !.stage = "primary"]
    BY DEF Primary
  <2>2. TRUE \in BOOLEAN /\ "primary" \in Stages /\ ~Anonymous.final
    BY DEF Stages, Anonymous
  <2>3. y \in Data /\ ~y.final
    BY <1>1, <2>2, OneField, Zenon
  <2>. HIDE DEF y
  <2>. QED  BY <2>1, <2>2, <2>3, OneField, Zenon
<1>3. ASSUME NEW x \in Data, NEW d \in Devices
      PROVE  Complete(x, d) \in Data
  <2>. DEFINE x1 == [x EXCEPT !.user = TRUE]
              x2 == [x1 EXCEPT !.final = TRUE]
              x3 == [x2 EXCEPT !.stage = "complete"]
              x4 == [x3 EXCEPT !.fresh = TRUE]
  <2>1. Complete(x, d) = [x4 EXCEPT !.dev = d]
    BY DEF Complete
  <2>2. TRUE \in BOOLEAN /\ "complete" \in Stages
    BY DEF Stages
  <2>3. x1 \in Data
    BY <2>2, OneField, Zenon
  <2>4. x2 \in Data
    <3>. HIDE DEF x1
    <3>. QED  BY <2>2, <2>3, OneField, Zenon
  <2>5. x3 \in Data
    <3>. HIDE DEF x2
    <3>. QED  BY <2>2, <2>4, OneField, Zenon
  <2>6. x4 \in Data
    <3>. HIDE DEF x3
    <3>. QED  BY <2>2, <2>5, OneField, Zenon
  <2>. HIDE DEF x4
  <2>. QED  BY <2>1, <2>6, OneField, Zenon
<1>4. ASSUME NEW x \in Data
      PROVE  /\ Older(x) \in Data /\ Older(x).user = x.user
             /\ Older(x).stage = x.stage /\ Older(x).final = x.final
  BY OneField, FALSE \in BOOLEAN, Zenon DEF Older
<1>. QED  BY <1>1, <1>2, <1>3, <1>4, OneField, Zenon

LEMMA RequestFields ==
  ASSUME AccessTypes, NEW r \in Requests
  PROVE  /\ req[r].pc \in Places /\ req[r].op \in Ops /\ req[r].by \in Browsers
         /\ req[r].key \in 0..made /\ req[r].data \in Data /\ req[r].dirty \in BOOLEAN
         /\ req[r].arg \in Codes \cup Challenges \cup Devices \cup {NoChallenge}
<1>1. req[r] \in Request
  BY Zenon DEF AccessTypes
<1>2. req[r].key \in 0..made
  BY Zenon DEF AccessTypes
<1>. QED  BY <1>1, <1>2, Zenon DEF Request

LEMMA KeyFacts ==
  ASSUME AccessTypes, NEW b \in Browsers
  PROVE  /\ KeyOf(b) \in 0..made /\ DataOf(b) \in Data
         /\ DataOf(b).user => KeyOf(b) \in rows /\ DataOf(b) = sess[KeyOf(b)]
         /\ rows \subseteq Keys /\ 0..made \subseteq Keys \cup {NoKey}
<1>1. made \in Nat /\ rows \subseteq 1..made /\ made <= MaxKeys /\ MaxKeys \in Nat
  BY AccessBounds, SMT DEF AccessTypes
<1>2. rows \subseteq Keys /\ 0..made \subseteq Keys \cup {NoKey}
  BY <1>1, SMT DEF Keys, NoKey
<1>3. CASE cookie[b] \in rows
  <2>1. KeyOf(b) = cookie[b] /\ DataOf(b) = sess[cookie[b]]
    BY <1>3 DEF KeyOf, DataOf
  <2>2. KeyOf(b) \in 0..made
    <3>1. cookie[b] \in 1..made /\ made \in Nat
      BY <1>1, <1>3, Zenon
    <3>2. 1..made \subseteq 0..made
      BY <3>1, SMT
    <3>. QED  BY <2>1, <3>1, <3>2, Zenon
  <2>3. DataOf(b) \in Data
    BY <1>2, <1>3, <2>1, Zenon DEF AccessTypes
  <2>. QED  BY <1>2, <1>3, <2>1, <2>2, <2>3, Zenon
<1>4. CASE cookie[b] \notin rows
  <2>1. KeyOf(b) = 0 /\ DataOf(b) = Anonymous
    BY <1>4 DEF KeyOf, DataOf, NoKey
  <2>. QED  BY <1>1, <1>2, <2>1, NewData, SMT
<1>. QED  BY <1>3, <1>4

\* A session that has passed more is as honest, and as ready, as before.
LEMMA HonestGrows ==
  ASSUME NEW k, NEW x, NEW p, NEW q, \A j \in Keys : q[j] \subseteq Layers,
         k \in Keys => p[k] \subseteq q[k]
  PROVE  Honest(k, x, p) => Honest(k, x, q)
<1>. SUFFICES ASSUME x.user, Honest(k, x, p)
              PROVE  /\ k \in Keys /\ "password" \in q[k]
                     /\ x.stage \in {"2fa", "device"} => "second" \in q[k]
                     /\ x.final /\ x.stage = "complete" => q[k] = Layers
  BY Zenon DEF Honest
<1>1. k \in Keys /\ p[k] \subseteq q[k] /\ q[k] \subseteq Layers
  BY Zenon DEF Honest
<1>2. "password" \in q[k]
  BY <1>1, Zenon DEF Honest
<1>3. ASSUME x.stage \in {"2fa", "device"} PROVE "second" \in q[k]
  BY <1>1, <1>3, Zenon DEF Honest
<1>4. ASSUME x.final, x.stage = "complete" PROVE q[k] = Layers
  <2>1. Layers \subseteq q[k]
    BY <1>1, <1>4, Zenon DEF Honest
  <2>. QED  BY <1>1, <2>1
<1>. QED  BY <1>1, <1>2, <1>3, <1>4

LEMMA ReadyGrows ==
  ASSUME NEW pc, NEW op, NEW k, NEW x, NEW p, NEW q, Honest(k, x, p),
         k \in Keys => p[k] \subseteq q[k]
  PROVE  Ready(pc, op, k, x, p) => Ready(pc, op, k, x, q)
BY Zenon DEF Ready, Honest

\* A request goes on, or ends, with what it may say and has been admitted with,
\* and rows are changed to nothing but emptied ones.
LEMMA StepSafe ==
  ASSUME AccessInv, NEW r \in Requests, NEW b \in Browsers, NEW pc \in Places, NEW op \in Ops,
         NEW k \in 0..made', NEW x \in Data, NEW dirty \in BOOLEAN,
         NEW arg \in Codes \cup Challenges \cup Devices \cup {NoChallenge},
         Goes(r, b, pc, op, k, x, arg, dirty),
         made' \in made..MaxKeys, rows' \subseteq 1..made', sess' \in [Keys -> Data],
         earned' \in [Keys -> SUBSET Layers],
         \A j \in 1..made : earned[j] \subseteq earned'[j],
         \A j \in rows' : (j \in rows /\ sess'[j] = sess[j]) \/ sess'[j] = Anonymous,
         Honest(k, x, earned'), Ready(pc, op, k, x, earned')
  PROVE  AccessInv'
<1>. DEFINE rec == [pc |-> pc, op |-> op, by |-> b, key |-> k, data |-> x,
                    arg |-> arg, dirty |-> dirty]
<1>1. made \in Nat /\ made' \in Nat /\ made <= made' /\ made' <= MaxKeys /\ MaxKeys \in Nat
  BY AccessBounds, SMT DEF AccessInv, AccessTypes
<1>2. 1..made \subseteq Keys /\ 0..made' \subseteq Keys \cup {NoKey} /\ 0..made \subseteq 0..made'
      /\ \A j \in 0..made : j \in Keys => j \in 1..made
  BY <1>1, SMT DEF Keys, NoKey
<1>3. rec \in Request
  <2>1. k \in Keys \cup {NoKey}
    BY <1>2
  <2>. QED  BY <2>1, Zenon DEF Request
<1>4. req \in [Requests -> Request] /\ req' = [req EXCEPT ![r] = rec]
  BY Zenon DEF AccessInv, AccessTypes, Goes
<1>5. rec.pc = pc /\ rec.op = op /\ rec.key = k /\ rec.data = x
  OBVIOUS
<1>. HIDE DEF rec
<1>6. /\ req' \in [Requests -> Request] /\ req'[r] = rec
      /\ \A q \in Requests : q # r => req'[q] = req[q]
  BY <1>3, <1>4, SMT
<1>7. ASSUME NEW q \in Requests PROVE req'[q].key \in 0..made'
  <2>1. CASE q = r
    BY <1>5, <1>6, <2>1
  <2>2. CASE q # r
    <3>1. req'[q] = req[q] /\ req[q].key \in 0..made
      BY <1>6, <2>2, Zenon DEF AccessInv, AccessTypes
    <3>. QED  BY <1>2, <3>1
  <2>. QED  BY <2>1, <2>2
<1>8. AccessTypes'
  <2>1. made' \in 0..MaxKeys
    BY <1>1, SMT
  <2>. QED  BY <1>6, <1>7, <2>1, Zenon DEF AccessTypes
<1>9. \A j \in Keys : earned'[j] \subseteq Layers
  BY Zenon
<1>10. ASSUME NEW j \in rows' PROVE Honest(j, sess'[j], earned')
  <2>1. CASE sess'[j] = Anonymous
    BY <2>1, NewData, Zenon DEF Honest
  <2>2. CASE j \in rows /\ sess'[j] = sess[j]
    <3>1. j \in 1..made /\ Honest(j, sess[j], earned)
      BY <2>2, Zenon DEF AccessInv, AccessTypes
    <3>2. j \in Keys => earned[j] \subseteq earned'[j]
      BY <3>1
    <3>. QED  BY <1>9, <2>2, <3>1, <3>2, HonestGrows, Zenon
  <2>. QED  BY <2>1, <2>2
<1>11. ASSUME NEW q \in Requests
       PROVE  /\ Honest(req'[q].key, req'[q].data, earned')
              /\ Ready(req'[q].pc, req'[q].op, req'[q].key, req'[q].data, earned')
  <2>1. CASE q = r
    BY <1>5, <1>6, <2>1, Zenon
  <2>2. CASE q # r
    <3>1. /\ req'[q] = req[q] /\ req[q].key \in 0..made
          /\ Honest(req[q].key, req[q].data, earned)
          /\ Ready(req[q].pc, req[q].op, req[q].key, req[q].data, earned)
      BY <1>6, <2>2, Zenon DEF AccessInv, AccessTypes
    <3>2. req[q].key \in Keys => earned[req[q].key] \subseteq earned'[req[q].key]
      BY <1>2, <3>1, Zenon
    <3>3. Honest(req[q].key, req[q].data, earned')
      BY <1>9, <3>1, <3>2, HonestGrows, Zenon
    <3>4. Ready(req[q].pc, req[q].op, req[q].key, req[q].data, earned')
      BY <3>1, <3>2, ReadyGrows, Zenon
    <3>. QED  BY <3>1, <3>3, <3>4
  <2>. QED  BY <2>1, <2>2
<1>. QED  BY <1>8, <1>10, <1>11, Zenon DEF AccessInv

\* A step that hands out no key: rows go or stay, and layers are only passed.
Calm ==
  /\ made' = made /\ rows' \subseteq rows /\ sess' \in [Keys -> Data]
  /\ \A j \in rows' : sess'[j] = sess[j] \/ sess'[j] = Anonymous
  /\ earned' \in [Keys -> SUBSET Layers]
  /\ \A j \in 1..made : earned[j] \subseteq earned'[j]

LEMMA CalmSteps ==
  ASSUME AccessInv
  PROVE  /\ UNCHANGED <<sessions, earned>> => Calm
         /\ \A k \in Keys, layer \in Layers :
              UNCHANGED sessions /\ Passes(k, layer)
                => Calm /\ earned'[k] = earned[k] \cup {layer}
         /\ \A r \in Requests, b \in Browsers, k \in 0..made :
              Flush(r, b, k) /\ UNCHANGED earned => Calm
<1>1. /\ sess \in [Keys -> Data] /\ earned \in [Keys -> SUBSET Layers]
      /\ made \in 0..MaxKeys /\ rows \subseteq 1..made
  BY Zenon DEF AccessInv, AccessTypes
<1>2. ASSUME UNCHANGED <<sessions, earned>> PROVE Calm
  BY <1>1, <1>2, Zenon DEF Calm, sessions
<1>3. ASSUME NEW k \in Keys, NEW layer \in Layers, UNCHANGED sessions, Passes(k, layer)
      PROVE  Calm /\ earned'[k] = earned[k] \cup {layer}
  <2>1. earned' = [earned EXCEPT ![k] = earned[k] \cup {layer}]
    BY <1>3, Zenon DEF Passes
  <2>2. earned[k] \cup {layer} \in SUBSET Layers
    BY <1>1, Zenon
  <2>3. /\ earned' \in [Keys -> SUBSET Layers] /\ earned'[k] = earned[k] \cup {layer}
        /\ \A j \in Keys : j # k => earned'[j] = earned[j]
    BY <1>1, <2>1, <2>2, SMT
  <2>4. 1..made \subseteq Keys
    BY <1>1, AccessBounds, SMT DEF Keys
  <2>5. \A j \in 1..made : earned[j] \subseteq earned'[j]
    BY <2>3, <2>4, Zenon
  <2>. QED  BY <1>1, <1>3, <2>3, <2>5, Zenon DEF Calm, sessions
<1>4. ASSUME NEW r \in Requests, NEW b \in Browsers, NEW k \in 0..made,
             Flush(r, b, k), UNCHANGED earned
      PROVE  Calm
  <2>1. /\ made' = made /\ rows' \subseteq rows
        /\ sess' = [x \in Keys |-> IF x = k THEN Anonymous ELSE sess[x]]
    BY <1>4, Zenon DEF Flush
  <2>2. sess' \in [Keys -> Data]
    BY <1>1, <2>1, NewData, SMT
  <2>3. rows \subseteq Keys
    BY <1>1, AccessBounds, SMT DEF Keys
  <2>4. \A j \in rows' : sess'[j] = sess[j] \/ sess'[j] = Anonymous
    BY <2>1, <2>3, Zenon
  <2>. QED  BY <1>1, <1>4, <2>1, <2>2, <2>4, Zenon DEF Calm
<1>. QED  BY <1>2, <1>3, <1>4, Zenon

LEMMA CalmSafe ==
  ASSUME AccessInv, NEW r \in Requests, NEW b \in Browsers, NEW pc \in Places, NEW op \in Ops,
         NEW k \in 0..made, NEW x \in Data, NEW dirty \in BOOLEAN,
         NEW arg \in Codes \cup Challenges \cup Devices \cup {NoChallenge},
         Goes(r, b, pc, op, k, x, arg, dirty), Calm,
         Honest(k, x, earned'), Ready(pc, op, k, x, earned')
  PROVE  AccessInv'
<1>1. made \in Nat /\ made <= MaxKeys /\ MaxKeys \in Nat /\ rows \subseteq 1..made
  BY AccessBounds, SMT DEF AccessInv, AccessTypes
<1>2. made' = made /\ made' \in made..MaxKeys
  <2>1. made' = made
    BY DEF Calm
  <2>. QED  BY <1>1, <2>1, SMT
<1>3. rows' \subseteq 1..made' /\ k \in 0..made'
  BY <1>1, <1>2, Zenon DEF Calm
<1>4. \A j \in rows' : (j \in rows /\ sess'[j] = sess[j]) \/ sess'[j] = Anonymous
  BY Zenon DEF Calm
<1>. QED  BY <1>2, <1>3, <1>4, StepSafe, Zenon DEF Calm

LEMMA AnswersSafe ==
  ASSUME AccessInv, NEW r \in Requests, NEW b \in Browsers, NEW k \in 0..made, NEW x,
         Answers(r, b, k, x), Calm
  PROVE  AccessInv'
<1>. DEFINE j == IF x = Anonymous THEN NoKey ELSE k
<1>1. Goes(r, b, "answer", "page", j, Anonymous, NoChallenge, FALSE)
  BY Zenon DEF Answers
<1>2. j \in 0..made
  <2>1. 0 \in 0..made
    BY SMT DEF AccessInv, AccessTypes
  <2>. QED  BY <2>1 DEF NoKey
<1>. HIDE DEF j
<1>3. Honest(j, Anonymous, earned') /\ Ready("answer", "page", j, Anonymous, earned')
  BY NewData, Zenon DEF Honest, Ready
<1>4. "answer" \in Places /\ "page" \in Ops /\ FALSE \in BOOLEAN
  BY DEF Places, Ops
<1>. QED  BY <1>1, <1>2, <1>3, <1>4, NewData, CalmSafe, Zenon

LEMMA SavesSafe ==
  ASSUME AccessInv, NEW r \in Requests, NEW b \in Browsers, NEW k \in 0..made,
         NEW x \in Data, Saves(r, b, k, x), Calm, Honest(k, x, earned')
  PROVE  AccessInv'
<1>1. Goes(r, b, "answer", "page", k, x, NoChallenge, TRUE)
  BY Zenon DEF Saves
<1>2. Ready("answer", "page", k, x, earned')
  BY Zenon DEF Ready
<1>3. "answer" \in Places /\ "page" \in Ops /\ TRUE \in BOOLEAN
  BY DEF Places, Ops
<1>. QED  BY <1>1, <1>2, <1>3, CalmSafe, Zenon

\* What holds of the session a request begins with.
LEMMA Begun ==
  ASSUME AccessInv, NEW b \in Browsers
  PROVE  /\ KeyOf(b) \in 0..made /\ DataOf(b) \in Data
         /\ Honest(KeyOf(b), DataOf(b), earned)
         /\ DataOf(b).user => KeyOf(b) \in Keys /\ KeyOf(b) \in rows
<1>1. AccessTypes
  BY DEF AccessInv
<1>2. KeyOf(b) \in 0..made /\ DataOf(b) \in Data
  BY <1>1, KeyFacts, Zenon
<1>3. DataOf(b).user => KeyOf(b) \in Keys /\ KeyOf(b) \in rows
  BY <1>1, KeyFacts, Zenon
<1>4. Honest(KeyOf(b), DataOf(b), earned)
  <2>1. CASE DataOf(b).user
    BY <1>1, <2>1, KeyFacts, Zenon DEF AccessInv
  <2>2. CASE ~DataOf(b).user
    BY <2>2, Zenon DEF Honest
  <2>. QED  BY <2>1, <2>2
<1>. QED  BY <1>2, <1>3, <1>4

\* The stage is set to one behind the second factor, which has been passed.
LEMMA SecondSafe ==
  ASSUME AccessInv, NEW r \in Requests, NEW b \in Browsers, NEW k \in 0..made,
         NEW x \in Data, x.user, Honest(k, x, earned), "second" \in earned'[k], Calm,
         NEW s \in {"2fa", "device"}, Saves(r, b, k, [x EXCEPT !.stage = s])
  PROVE  AccessInv'
<1>. DEFINE y == [x EXCEPT !.stage = s]
<1>1. s \in Stages /\ s # "complete"
  BY DEF Stages
<1>2. y \in Data /\ y.stage = s /\ y.user = x.user
  BY <1>1, NewData, Zenon
<1>3. k \in Keys /\ "password" \in earned[k] /\ k \in 1..made
  <2>1. k \in Keys /\ "password" \in earned[k]
    BY Zenon DEF Honest
  <2>2. made \in Nat
    BY SMT DEF AccessInv, AccessTypes
  <2>. QED  BY <2>1, <2>2, SMT DEF Keys
<1>4. "password" \in earned'[k]
  BY <1>3, Zenon DEF Calm
<1>5. Honest(k, y, earned')
  BY <1>1, <1>2, <1>3, <1>4, Zenon DEF Honest
<1>6. Saves(r, b, k, y)
  OBVIOUS
<1>. HIDE DEF y
<1>. QED  BY <1>2, <1>5, <1>6, SavesSafe, Zenon

\* A new key, with the password alone behind it.
LEMMA PendingSafe ==
  ASSUME AccessInv, NEW r \in Requests, NEW b \in Browsers, NEW k \in 0..made,
         PendingPrimary(r, b, k)
  PROVE  AccessInv'
<1>1. /\ made < MaxKeys /\ made' = made + 1 /\ rows' = (rows \ {k}) \cup {made + 1}
      /\ sess' = [x \in Keys |-> IF x \in {k, made + 1} THEN Anonymous ELSE sess[x]]
      /\ earned' = [earned EXCEPT ![made + 1] = {"password"}]
      /\ Saves(r, b, made + 1, Primary)
  BY Zenon DEF PendingPrimary
<1>2. /\ made \in Nat /\ MaxKeys \in Nat /\ rows \subseteq 1..made
      /\ sess \in [Keys -> Data] /\ earned \in [Keys -> SUBSET Layers]
  BY AccessBounds, SMT DEF AccessInv, AccessTypes
<1>. DEFINE n == made + 1
<1>3. /\ n \in Keys /\ n \in Nat /\ n <= MaxKeys /\ n \in 0..n /\ 1..made \subseteq 1..n
      /\ 1..n \subseteq Keys /\ n \in 1..n /\ n \notin 1..made /\ n \in made..MaxKeys
  BY <1>1, <1>2, SMT DEF Keys
<1>4. made' = n /\ rows' = (rows \ {k}) \cup {n} /\ Saves(r, b, n, Primary)
      /\ sess' = [x \in Keys |-> IF x \in {k, n} THEN Anonymous ELSE sess[x]]
      /\ earned' = [earned EXCEPT ![n] = {"password"}]
  BY <1>1
<1>. HIDE DEF n
<1>5. {"password"} \in SUBSET Layers
  BY DEF Layers
<1>6. /\ earned' \in [Keys -> SUBSET Layers] /\ earned'[n] = {"password"}
      /\ \A j \in Keys : j # n => earned'[j] = earned[j]
  BY <1>2, <1>3, <1>4, <1>5, SMT
<1>7. \A j \in 1..made : earned[j] \subseteq earned'[j]
  BY <1>3, <1>6, Zenon
<1>8. sess' \in [Keys -> Data]
  BY <1>2, <1>4, NewData, SMT
<1>9. rows' \subseteq 1..n
  BY <1>2, <1>3, <1>4, Zenon
<1>10. \A j \in rows' : (j \in rows /\ sess'[j] = sess[j]) \/ sess'[j] = Anonymous
  BY <1>3, <1>4, <1>9, Zenon
<1>11. Honest(n, Primary, earned')
  <2>1. "primary" \notin {"2fa", "device"} /\ "primary" # "complete"
    OBVIOUS
  <2>. QED  BY <1>3, <1>6, <2>1, NewData, Zenon DEF Honest
<1>12. Ready("answer", "page", n, Primary, earned')
  BY Zenon DEF Ready
<1>13. "answer" \in Places /\ "page" \in Ops /\ TRUE \in BOOLEAN
  BY DEF Places, Ops
<1>14. Goes(r, b, "answer", "page", n, Primary, NoChallenge, TRUE)
  BY <1>4, Zenon DEF Saves
<1>15. n \in 0..made' /\ made' \in made..MaxKeys /\ rows' \subseteq 1..made'
  BY <1>3, <1>4, <1>9
<1>. QED  BY <1>6, <1>7, <1>8, <1>10, <1>11, <1>12, <1>13, <1>14, <1>15, NewData, StepSafe, Zenon

\* The copy is written back over whatever the row says by now.
LEMMA AnswerSafe ==
  ASSUME AccessInv, NEW r \in Requests, Answer(r)
  PROVE  AccessInv'
<1>. DEFINE q == req[r]
<1>1. /\ sess' = IF q.dirty /\ q.key \in rows THEN [sess EXCEPT ![q.key] = q.data] ELSE sess
      /\ req' = [req EXCEPT ![r] = Idle(q.by)]
      /\ UNCHANGED <<rows, made, earned>>
  BY Zenon DEF Answer
<1>2. /\ sess \in [Keys -> Data] /\ req \in [Requests -> Request] /\ rows \subseteq 1..made
      /\ made \in 0..MaxKeys
  BY Zenon DEF AccessInv, AccessTypes
<1>3. q.by \in Browsers /\ q.data \in Data /\ Honest(q.key, q.data, earned)
  BY RequestFields, Zenon DEF AccessInv
<1>4. rows \subseteq Keys
  BY <1>2, AccessBounds, SMT DEF Keys
<1>5. sess' \in [Keys -> Data] /\ \A k \in rows : Honest(k, sess'[k], earned)
  <2>1. CASE sess' = sess
    BY <1>2, <2>1, Zenon DEF AccessInv
  <2>2. CASE q.key \in rows /\ sess' = [sess EXCEPT ![q.key] = q.data]
    <3>1. /\ sess' \in [Keys -> Data] /\ sess'[q.key] = q.data
          /\ \A k \in Keys : k # q.key => sess'[k] = sess[k]
      <4>1. ASSUME NEW j \in Keys, NEW x \in Data, sess' = [sess EXCEPT ![j] = x]
            PROVE  /\ sess' \in [Keys -> Data] /\ sess'[j] = x
                   /\ \A k \in Keys : k # j => sess'[k] = sess[k]
        BY <1>2, <4>1, SMT
      <4>2. q.key \in Keys
        BY <1>4, <2>2
      <4>. QED  BY <1>3, <2>2, <4>1, <4>2, Zenon
    <3>. QED  BY <1>3, <1>4, <3>1, Zenon DEF AccessInv
  <2>. QED  BY <1>1, <2>1, <2>2
<1>6. /\ Idle(q.by) \in Request /\ Idle(q.by).key = 0 /\ Idle(q.by).data = Anonymous
      /\ Idle(q.by).pc = "idle"
  BY <1>3, NewData, SMT DEF Idle, Request, Places, Ops, NoKey, Keys
<1>7. /\ req' \in [Requests -> Request] /\ req'[r] = Idle(q.by)
      /\ \A p \in Requests : p # r => req'[p] = req[p]
  BY <1>1, <1>2, <1>6, SMT
<1>8. 0 \in 0..made
  BY <1>2, AccessBounds, SMT
<1>9. AccessTypes'
  <2>1. \A p \in Requests : req'[p].key \in 0..made
    BY <1>6, <1>7, <1>8, Zenon DEF AccessInv, AccessTypes
  <2>. QED  BY <1>1, <1>5, <1>7, <2>1, Zenon DEF AccessInv, AccessTypes
<1>10. Honest(0, Anonymous, earned) /\ Ready("idle", Idle(q.by).op, 0, Anonymous, earned)
  BY NewData, Zenon DEF Honest, Ready
<1>11. ASSUME NEW p \in Requests
       PROVE  /\ Honest(req'[p].key, req'[p].data, earned)
              /\ Ready(req'[p].pc, req'[p].op, req'[p].key, req'[p].data, earned)
  <2>1. CASE p = r
    BY <1>6, <1>7, <1>10, <2>1
  <2>2. CASE p # r
    BY <1>7, <2>2, Zenon DEF AccessInv
  <2>. QED  BY <2>1, <2>2
<1>. QED  BY <1>1, <1>5, <1>9, <1>11, Zenon DEF AccessInv

-----------------------------------------------------------------------------
(* The handlers. *)

LEMMA PageSafeStep ==
  ASSUME AccessInv, NEW r \in Requests, NEW b \in Browsers,
         Page(r, b) \/ Login(r, b) \/ VerifyOptions(r, b) \/ RegisterOptions(r, b)
           \/ Reset(r, b)
  PROVE  AccessInv'
<1>1. /\ KeyOf(b) \in 0..made /\ DataOf(b) \in Data /\ Honest(KeyOf(b), DataOf(b), earned)
  BY Begun, Zenon
<1>2. CASE PendingPrimary(r, b, KeyOf(b))
  BY <1>1, <1>2, PendingSafe
<1>3. CASE Answers(r, b, KeyOf(b), DataOf(b)) /\ UNCHANGED <<sessions, earned>>
  BY <1>1, <1>3, CalmSteps, AnswersSafe, Zenon
<1>4. CASE Saves(r, b, KeyOf(b), DataOf(b)) /\ UNCHANGED <<sessions, earned>>
  <2>1. Honest(KeyOf(b), DataOf(b), earned')
    BY <1>1, <1>4
  <2>. QED  BY <1>1, <1>4, <2>1, CalmSteps, SavesSafe, Zenon
<1>. QED  BY <1>2, <1>3, <1>4, Zenon DEF Page, Login, VerifyOptions, RegisterOptions, Reset

\* Goes for a request that has only begun: it has passed nothing yet.
LEMMA GoesOn ==
  ASSUME AccessInv, NEW r \in Requests, NEW b \in Browsers, NEW pc \in Places, NEW op \in Ops,
         NEW k \in 0..made, NEW x \in Data, NEW dirty \in BOOLEAN,
         NEW arg \in Codes \cup Challenges \cup Devices \cup {NoChallenge},
         Goes(r, b, pc, op, k, x, arg, dirty), UNCHANGED <<sessions, earned>>,
         Honest(k, x, earned), Ready(pc, op, k, x, earned)
  PROVE  AccessInv'
<1>1. Calm
  BY CalmSteps, Zenon
<1>2. Honest(k, x, earned') /\ Ready(pc, op, k, x, earned')
  OBVIOUS
<1>. QED  BY <1>1, <1>2, CalmSafe, Zenon

LEMMA BeginSteps ==
  ASSUME AccessInv, NEW r \in Requests, NEW b \in Browsers,
         \/ \E c \in Codes : RecoveryFind(r, b, c)
         \/ \E c \in Challenges, op \in {"verify", "register"} : Ceremony(r, b, c, op)
         \/ \E d \in Devices : DeviceRevoke(r, b, d)
         \/ Regenerate(r, b)
  PROVE  AccessInv'
<1>1. /\ KeyOf(b) \in 0..made /\ DataOf(b) \in Data /\ Honest(KeyOf(b), DataOf(b), earned)
  BY Begun, Zenon
<1>2. /\ {"code", "codes", "tx", "sessions"} \subseteq Places /\ FALSE \in BOOLEAN
      /\ {"recovery", "verify", "register", "revoke", "regenerate"} \subseteq Ops
  BY DEF Places, Ops
<1>3. ASSUME NEW c \in Codes, RecoveryFind(r, b, c) PROVE AccessInv'
  <2>1. /\ Goes(r, b, "code", "recovery", KeyOf(b), DataOf(b), c, FALSE)
        /\ UNCHANGED <<sessions, earned>> /\ DataOf(b).user
    BY <1>3, Zenon DEF RecoveryFind
  <2>2. Ready("code", "recovery", KeyOf(b), DataOf(b), earned)
    BY <2>1, Zenon DEF Ready
  <2>. QED  BY <1>1, <1>2, <2>1, <2>2, GoesOn, Zenon
<1>4. ASSUME NEW c \in Challenges, NEW op \in {"verify", "register"}, Ceremony(r, b, c, op)
      PROVE AccessInv'
  <2>1. /\ Goes(r, b, "tx", op, KeyOf(b), DataOf(b), c, FALSE)
        /\ UNCHANGED <<sessions, earned>> /\ Admitted(b, op)
    BY <1>4, Zenon DEF Ceremony
  <2>2. DataOf(b).user /\ (TwoFactorDone(DataOf(b)) \/ (op = "register" /\ DataOf(b).final))
    BY <2>1, Zenon DEF Admitted, TwoFactorDone
  <2>3. Ready("tx", op, KeyOf(b), DataOf(b), earned)
    BY <2>2, Zenon DEF Ready
  <2>4. op \in Ops /\ "tx" \in Places
    BY <1>2
  <2>. QED  BY <1>1, <1>2, <2>1, <2>3, <2>4, GoesOn, Zenon
<1>5. ASSUME NEW d \in Devices, DeviceRevoke(r, b, d) PROVE AccessInv'
  <2>1. /\ Goes(r, b, "sessions", "revoke", KeyOf(b), DataOf(b), d, FALSE)
        /\ UNCHANGED <<sessions, earned>>
    BY <1>5, Zenon DEF DeviceRevoke
  <2>2. Ready("sessions", "revoke", KeyOf(b), DataOf(b), earned)
    BY Zenon DEF Ready
  <2>. QED  BY <1>1, <1>2, <2>1, <2>2, GoesOn, Zenon
<1>6. CASE Regenerate(r, b)
  <2>1. /\ Goes(r, b, "codes", "regenerate", KeyOf(b), DataOf(b), NoChallenge, FALSE)
        /\ UNCHANGED <<sessions, earned>>
    BY <1>6, Zenon DEF Regenerate
  <2>2. "regenerate" # "setup"
    OBVIOUS
  <2>3. Ready("codes", "regenerate", KeyOf(b), DataOf(b), earned)
    BY <2>2, Zenon DEF Ready
  <2>. QED  BY <1>1, <1>2, <2>1, <2>3, GoesOn, Zenon
<1>. QED  BY <1>3, <1>4, <1>5, <1>6

LEMMA FactorSteps ==
  ASSUME AccessInv, NEW r \in Requests, NEW b \in Browsers, SecondFactor(r, b) \/ Setup(r, b)
  PROVE  AccessInv'
<1>1. /\ KeyOf(b) \in 0..made /\ DataOf(b) \in Data /\ Honest(KeyOf(b), DataOf(b), earned)
  BY Begun, Zenon
<1>2. DataOf(b).user /\ KeyOf(b) \in Keys /\ "second" \in Layers
      /\ Passes(KeyOf(b), "second") /\ UNCHANGED sessions
  BY Begun, Zenon DEF SecondFactor, Setup, Layers
<1>3. Calm /\ earned'[KeyOf(b)] = earned[KeyOf(b)] \cup {"second"}
  BY <1>2, CalmSteps, Zenon
<1>4. "second" \in earned'[KeyOf(b)]
  BY <1>3
<1>5. CASE SecondFactor(r, b)
  <2>1. Saves(r, b, KeyOf(b), [DataOf(b) EXCEPT !.stage = "device"])
    BY <1>5, Zenon DEF SecondFactor
  <2>2. "device" \in {"2fa", "device"}
    OBVIOUS
  <2>. QED  BY <1>1, <1>2, <1>3, <1>4, <2>1, <2>2, SecondSafe, Zenon
<1>6. CASE Setup(r, b)
  <2>1. Goes(r, b, "codes", "setup", KeyOf(b), DataOf(b), NoChallenge, FALSE)
    BY <1>6, Zenon DEF Setup
  <2>2. Ready("codes", "setup", KeyOf(b), DataOf(b), earned')
    <3>1. "codes" # "code" /\ "codes" # "tx"
      OBVIOUS
    <3>. QED  BY <1>2, <1>4, <3>1, Zenon DEF Ready
  <2>3. Honest(KeyOf(b), DataOf(b), earned')
    <3>1. \A j \in Keys : earned'[j] \subseteq Layers
      BY <1>3, Zenon DEF Calm
    <3>2. earned[KeyOf(b)] \subseteq earned'[KeyOf(b)]
      BY <1>3
    <3>. QED  BY <1>1, <3>1, <3>2, HonestGrows, Zenon
  <2>4. "codes" \in Places /\ "setup" \in Ops /\ FALSE \in BOOLEAN
    BY DEF Places, Ops
  <2>. QED  BY <1>1, <1>3, <2>1, <2>2, <2>3, <2>4, CalmSafe, Zenon
<1>. QED  BY <1>5, <1>6

\* What holds of a request that goes on.
LEMMA Going ==
  ASSUME AccessInv, NEW r \in Requests
  PROVE  /\ req[r].key \in 0..made /\ req[r].data \in Data /\ req[r].by \in Browsers
         /\ req[r].op \in Ops
         /\ req[r].arg \in Codes \cup Challenges \cup Devices \cup {NoChallenge}
         /\ Honest(req[r].key, req[r].data, earned)
         /\ Ready(req[r].pc, req[r].op, req[r].key, req[r].data, earned)
         /\ req[r].data.user => req[r].key \in Keys
BY RequestFields, Zenon DEF AccessInv, Honest

LEMMA CodeSteps ==
  ASSUME AccessInv, NEW r \in Requests, RecoveryUse(r) \/ NewCodes(r)
  PROVE  AccessInv'
<1>. DEFINE q == req[r]
<1>1. /\ q.key \in 0..made /\ q.data \in Data /\ q.by \in Browsers
      /\ Honest(q.key, q.data, earned) /\ Ready(q.pc, q.op, q.key, q.data, earned)
      /\ q.data.user => q.key \in Keys
  BY Going, Zenon
<1>2. CASE RecoveryUse(r)
  <2>1. q.pc = "code" /\ UNCHANGED sessions /\ q.data.user
    BY <1>1, <1>2, Zenon DEF RecoveryUse, Ready
  <2>2. CASE Answers(r, q.by, q.key, q.data) /\ UNCHANGED earned
    <3>1. Calm
      BY <2>1, <2>2, CalmSteps, Zenon
    <3>. QED  BY <1>1, <2>2, <3>1, AnswersSafe, Zenon
  <2>3. CASE /\ Passes(q.key, "second")
             /\ Saves(r, q.by, q.key, [q.data EXCEPT !.stage = "device"])
    <3>1. "second" \in Layers /\ q.key \in Keys
      BY <1>1, <2>1 DEF Layers
    <3>2. Calm /\ earned'[q.key] = earned[q.key] \cup {"second"}
      BY <2>1, <2>3, <3>1, CalmSteps, Zenon
    <3>3. "second" \in earned'[q.key] /\ "device" \in {"2fa", "device"}
      BY <3>2
    <3>. QED  BY <1>1, <2>1, <2>3, <3>2, <3>3, SecondSafe, Zenon
  <2>. QED  BY <1>2, <2>2, <2>3, Zenon DEF RecoveryUse
<1>3. CASE NewCodes(r)
  <2>1. q.pc = "codes" /\ UNCHANGED <<sessions, earned>> /\ Calm
    BY <1>3, CalmSteps, Zenon DEF NewCodes
  <2>2. CASE q.op = "setup"
    <3>1. Saves(r, q.by, q.key, [q.data EXCEPT !.stage = "2fa"])
      BY <1>3, <2>2, Zenon DEF NewCodes
    <3>2. q.data.user /\ "second" \in earned'[q.key] /\ "2fa" \in {"2fa", "device"}
      BY <1>1, <2>1, <2>2, Zenon DEF Ready
    <3>. QED  BY <1>1, <2>1, <3>1, <3>2, SecondSafe, Zenon
  <2>3. CASE q.op # "setup"
    <3>1. Answers(r, q.by, q.key, q.data)
      BY <1>3, <2>3, Zenon DEF NewCodes
    <3>. QED  BY <1>1, <2>1, <3>1, AnswersSafe, Zenon
  <2>. QED  BY <2>2, <2>3
<1>. QED  BY <1>2, <1>3

\* The device is the third layer: everything is passed under this key.
LEMMA CeremonySteps ==
  ASSUME AccessInv, NEW r \in Requests, NEW d \in Devices, VerifyTx(r, d) \/ RegisterTx(r, d)
  PROVE  AccessInv'
<1>. DEFINE q == req[r]
<1>1. /\ q.key \in 0..made /\ q.data \in Data /\ q.by \in Browsers /\ q.op \in Ops
      /\ Honest(q.key, q.data, earned) /\ Ready(q.pc, q.op, q.key, q.data, earned)
      /\ q.data.user => q.key \in Keys
  BY Going, Zenon
<1>2. /\ q.pc = "tx" /\ UNCHANGED sessions /\ Passes(q.key, "device")
  BY Zenon DEF VerifyTx, RegisterTx
<1>3. q.key \in Keys /\ q.data.user /\ "device" \in Layers
  BY <1>1, <1>2, Zenon DEF Ready, Layers
<1>4. Calm /\ earned'[q.key] = earned[q.key] \cup {"device"}
  BY <1>2, <1>3, CalmSteps, Zenon
<1>5. CASE RegisterTx(r, d) /\ q.data.final
  <2>1. Answers(r, q.by, q.key, q.data)
    BY <1>5, Zenon DEF RegisterTx
  <2>. QED  BY <1>1, <1>4, <2>1, AnswersSafe, Zenon
<1>6. CASE VerifyTx(r, d) \/ ~q.data.final
  <2>1. TwoFactorDone(q.data)
    <3>1. "verify" # "register"
      OBVIOUS
    <3>. QED  BY <1>1, <1>2, <1>6, <3>1, Zenon DEF Ready, VerifyTx
  <2>2. {"password", "second"} \subseteq earned[q.key]
    BY <1>1, <2>1, Zenon DEF TwoFactorDone, Honest
  <2>3. earned'[q.key] = Layers
    <3>1. Layers \subseteq earned'[q.key]
      BY <1>4, <2>2, Zenon DEF Layers
    <3>2. earned'[q.key] \subseteq Layers
      BY <1>3, <1>4, Zenon DEF Calm
    <3>. QED  BY <3>1, <3>2
  <2>4. PICK op \in {"verify", "register"} :
          Goes(r, q.by, "find", op, q.key, Complete(q.data, d), NoChallenge, FALSE)
    BY <1>6, Zenon DEF VerifyTx, RegisterTx
  <2>5. "find" \in Places /\ op \in Ops /\ FALSE \in BOOLEAN
    BY DEF Places, Ops
  <2>6. Complete(q.data, d) \in Data
    BY <1>1, NewData, Zenon
  <2>7. Honest(q.key, Complete(q.data, d), earned')
    BY <1>3, <2>3, Zenon DEF Honest, Layers
  <2>8. Ready("find", op, q.key, Complete(q.data, d), earned')
    <3>1. "find" \notin {"code", "codes", "tx"}
      OBVIOUS
    <3>. QED  BY <3>1, Zenon DEF Ready
  <2>. QED  BY <1>1, <1>4, <2>4, <2>5, <2>6, <2>7, <2>8, CalmSafe, Zenon
<1>. QED  BY <1>5, <1>6, Zenon DEF VerifyTx, RegisterTx

LEMMA EventSteps ==
  ASSUME AccessInv, NEW r \in Requests,
         TxFails(r) \/ FindEvent(r) \/ RecordEvent(r) \/ DeviceSessions(r)
  PROVE  AccessInv'
<1>. DEFINE q == req[r]
<1>1. /\ q.key \in 0..made /\ q.data \in Data /\ q.by \in Browsers /\ q.op \in Ops
      /\ Honest(q.key, q.data, earned)
      /\ q.arg \in Codes \cup Challenges \cup Devices \cup {NoChallenge}
  BY Going, Zenon
<1>2. UNCHANGED earned /\ Honest(q.key, q.data, earned')
  BY <1>1, Zenon DEF TxFails, FindEvent, RecordEvent, DeviceSessions
<1>3. CASE Answers(r, q.by, q.key, q.data) /\ UNCHANGED sessions
  <2>1. Calm
    BY <1>2, <1>3, CalmSteps, Zenon
  <2>. QED  BY <1>1, <1>3, <2>1, AnswersSafe, Zenon
<1>4. CASE Saves(r, q.by, q.key, q.data) /\ UNCHANGED sessions
  <2>1. Calm
    BY <1>2, <1>4, CalmSteps, Zenon
  <2>. QED  BY <1>1, <1>2, <1>4, <2>1, SavesSafe, Zenon
<1>5. CASE /\ Goes(r, q.by, "record", q.op, q.key, q.data, q.arg, FALSE)
           /\ UNCHANGED sessions
  <2>1. "record" \notin {"code", "codes", "tx"} /\ "record" \in Places /\ FALSE \in BOOLEAN
    BY DEF Places
  <2>2. Ready("record", q.op, q.key, q.data, earned)
    BY <2>1, Zenon DEF Ready
  <2>. QED  BY <1>1, <1>2, <1>5, <2>1, <2>2, GoesOn, Zenon
<1>6. CASE Flush(r, q.by, q.key)
  <2>1. Calm
    BY <1>1, <1>2, <1>6, CalmSteps, Zenon
  <2>2. Answers(r, q.by, NoKey, Anonymous) /\ NoKey \in 0..made
    <3>1. 0 \in 0..made
      BY SMT DEF AccessInv, AccessTypes
    <3>. QED  BY <1>6, <3>1, Zenon DEF Flush, NoKey
  <2>. QED  BY <1>1, <2>1, <2>2, AnswersSafe, Zenon
<1>. QED  BY <1>3, <1>4, <1>5, <1>6, Zenon DEF TxFails, FindEvent, RecordEvent, DeviceSessions

LEMMA LeaveSteps ==
  ASSUME AccessInv, NEW r \in Requests, NEW b \in Browsers,
         \/ Logout(r, b) \/ PasswordChange(r, b) \/ RevokeOthers(r, b) \/ RevokeAll(r, b)
         \/ \E e \in 1..MaxEvents : SessionRevoke(r, b, e)
  PROVE  AccessInv'
<1>1. /\ KeyOf(b) \in 0..made /\ DataOf(b) \in Data
  BY Begun, Zenon
<1>2. UNCHANGED earned
  BY Zenon DEF Logout, PasswordChange, RevokeOthers, RevokeAll, SessionRevoke
<1>3. CASE Flush(r, b, KeyOf(b))
  <2>1. Calm
    BY <1>1, <1>2, <1>3, CalmSteps, Zenon
  <2>2. Answers(r, b, NoKey, Anonymous) /\ NoKey \in 0..made
    <3>1. 0 \in 0..made
      BY SMT DEF AccessInv, AccessTypes
    <3>. QED  BY <1>3, <3>1, Zenon DEF Flush, NoKey
  <2>. QED  BY <1>1, <2>1, <2>2, AnswersSafe, Zenon
<1>4. CASE Answers(r, b, KeyOf(b), DataOf(b)) /\ UNCHANGED sessions
  <2>1. Calm
    BY <1>2, <1>4, CalmSteps, Zenon
  <2>. QED  BY <1>1, <1>4, <2>1, AnswersSafe, Zenon
<1>5. CASE Saves(r, b, KeyOf(b), Anonymous) /\ UNCHANGED sessions
  <2>1. Calm
    BY <1>2, <1>5, CalmSteps, Zenon
  <2>2. Honest(KeyOf(b), Anonymous, earned')
    BY NewData, Zenon DEF Honest
  <2>. QED  BY <1>1, <1>5, <2>1, <2>2, NewData, SavesSafe, Zenon
<1>. QED  BY <1>3, <1>4, <1>5, Zenon DEF Logout, PasswordChange, RevokeOthers, RevokeAll,
             SessionRevoke

\* Time makes every copy and every row older, and nothing else.
LEMMA AgeSafe ==
  ASSUME AccessInv, AgePasses
  PROVE  AccessInv'
<1>1. /\ sess' = [k \in Keys |-> Older(sess[k])]
      /\ req' = [r \in Requests |-> [req[r] EXCEPT !.data = Older(@)]]
      /\ UNCHANGED <<rows, made, earned>>
  BY Zenon DEF AgePasses, sessions
<1>2. /\ sess \in [Keys -> Data] /\ req \in [Requests -> Request] /\ rows \subseteq 1..made
      /\ made \in 0..MaxKeys
  BY Zenon DEF AccessInv, AccessTypes
<1>3. rows \subseteq Keys
  BY <1>2, AccessBounds, SMT DEF Keys
<1>4. sess' \in [Keys -> Data] /\ \A k \in Keys : sess'[k] = Older(sess[k])
  BY <1>1, <1>2, NewData, Zenon
<1>5. \A x \in Data : \A k : Honest(k, x, earned) => Honest(k, Older(x), earned)
  BY NewData, Zenon DEF Honest
<1>6. \A k \in rows : Honest(k, sess'[k], earned)
  BY <1>2, <1>3, <1>4, <1>5, Zenon DEF AccessInv
<1>7. ASSUME NEW q \in Request, NEW x \in Data
      PROVE  /\ [q EXCEPT !.data = x] \in Request /\ [q EXCEPT !.data = x].data = x
             /\ [q EXCEPT !.data = x].key = q.key /\ [q EXCEPT !.data = x].pc = q.pc
             /\ [q EXCEPT !.data = x].op = q.op
  BY SMT DEF Request
<1>8. \A q \in Request : q.data \in Data
  BY DEF Request
<1>9. ASSUME NEW r \in Requests
      PROVE  /\ req'[r] \in Request /\ req'[r].data = Older(req[r].data)
             /\ req'[r].key = req[r].key /\ req'[r].pc = req[r].pc /\ req'[r].op = req[r].op
  <2>1. req[r] \in Request /\ req[r].data \in Data
    BY <1>2, <1>8, Zenon
  <2>2. req'[r] = [req[r] EXCEPT !.data = Older(req[r].data)]
    BY <1>1, Zenon
  <2>3. Older(req[r].data) \in Data
    BY <2>1, NewData, Zenon
  <2>4. PICK q \in Request : q = req[r]
    BY <2>1, Zenon
  <2>5. PICK x \in Data : x = Older(req[r].data)
    BY <2>3, Zenon
  <2>6. req'[r] = [q EXCEPT !.data = x]
    BY <2>2, <2>4, <2>5, Zenon
  <2>7. PICK z : z = [q EXCEPT !.data = x]
    OBVIOUS
  <2>8. /\ z \in Request /\ z.data = x
        /\ z.key = q.key /\ z.pc = q.pc /\ z.op = q.op
    BY <1>7, <2>7, Zenon
  <2>9. req'[r] = z
    BY <2>6, <2>7, Zenon
  <2>. QED  BY <2>4, <2>5, <2>8, <2>9, Zenon
<1>10. req' \in [Requests -> Request]
  <2>1. DOMAIN req' = Requests /\ req' = [r \in Requests |-> req'[r]]
    BY <1>1, Zenon
  <2>. QED  BY <1>9, <2>1, Zenon
<1>11. AccessTypes'
  BY <1>1, <1>4, <1>9, <1>10, Zenon DEF AccessInv, AccessTypes
<1>12. ASSUME NEW r \in Requests
       PROVE  /\ Honest(req'[r].key, req'[r].data, earned)
              /\ Ready(req'[r].pc, req'[r].op, req'[r].key, req'[r].data, earned)
  <2>1. req[r].data \in Data
    BY <1>2, <1>8, Zenon
  <2>2. Honest(req'[r].key, req'[r].data, earned)
    BY <1>5, <1>9, <2>1, Zenon DEF AccessInv
  <2>3. Ready(req[r].pc, req[r].op, req[r].key, req[r].data, earned)
    BY Zenon DEF AccessInv
  <2>4. /\ Older(req[r].data).user = req[r].data.user
        /\ Older(req[r].data).final = req[r].data.final
        /\ Older(req[r].data).stage = req[r].data.stage
    BY <2>1, NewData, Zenon
  <2>5. TwoFactorDone(Older(req[r].data)) = TwoFactorDone(req[r].data)
    BY <2>4, Zenon DEF TwoFactorDone
  <2>6. Ready(req'[r].pc, req'[r].op, req'[r].key, req'[r].data, earned)
    BY <1>9, <2>3, <2>4, <2>5, Zenon DEF Ready
  <2>. QED  BY <2>2, <2>6
<1>. QED  BY <1>1, <1>6, <1>11, <1>12, Zenon DEF AccessInv

LEMMA InitAccess == AccessInit => AccessInv
<1>. SUFFICES ASSUME AccessInit PROVE AccessInv
  OBVIOUS
<1>1. PICK b \in Browsers : req = [r \in Requests |-> Idle(b)]
  BY Zenon DEF AccessInit
<1>2. /\ Idle(b) \in Request /\ Idle(b).key = 0 /\ Idle(b).data = Anonymous
      /\ Idle(b).pc = "idle"
  BY NewData, SMT DEF Idle, Request, Places, Ops, NoKey, Keys
<1>3. MaxKeys \in Nat /\ 0 \in 0..0 /\ 0 \in 0..MaxKeys
  BY AccessBounds, SMT
<1>4. /\ rows = {} /\ made = 0 /\ sess = [k \in Keys |-> Anonymous]
      /\ earned = [k \in Keys |-> {}]
  BY Zenon DEF AccessInit
<1>5. AccessTypes
  BY <1>1, <1>2, <1>3, <1>4, NewData, Zenon DEF AccessTypes
<1>6. "idle" \notin {"code", "codes", "tx"}
  OBVIOUS
<1>7. \A r \in Requests : /\ Honest(req[r].key, req[r].data, earned)
                          /\ Ready(req[r].pc, req[r].op, req[r].key, req[r].data, earned)
  BY <1>1, <1>2, <1>6, NewData, Zenon DEF Honest, Ready
<1>. QED  BY <1>4, <1>5, <1>7, Zenon DEF AccessInv

LEMMA AccessStep ==
  ASSUME AccessInv, [AccessNext]_accessVars
  PROVE  AccessInv'
<1>1. CASE ChallengesExpire \/ UNCHANGED accessVars
  <2>1. UNCHANGED <<rows, sess, made, req, earned>>
    BY <1>1, Zenon DEF ChallengesExpire, accessVars, sessions
  <2>. QED  BY <2>1, Zenon DEF AccessInv, AccessTypes
<1>2. ASSUME NEW r \in Requests, SignInStep(r)
      PROVE  AccessInv'
  BY <1>2, PageSafeStep, BeginSteps, FactorSteps, CodeSteps, CeremonySteps, EventSteps,
     Zenon DEF SignInStep
<1>3. ASSUME NEW r \in Requests, ManageStep(r)
      PROVE  AccessInv'
  BY <1>3, PageSafeStep, BeginSteps, EventSteps, LeaveSteps, Zenon DEF ManageStep
<1>. QED  BY <1>1, <1>2, <1>3, AnswerSafe, AgeSafe, Zenon DEF AccessNext

\* However requests that share a session overlap and write their copies back, and
\* whatever is revoked, reset or registered meanwhile: a session the gate accepts has
\* passed all three layers under its own key.
THEOREM SessionsAreEarned == AccessSpec => []ValidIsEarned
<1>1. AccessInv => ValidIsEarned
  BY Zenon DEF AccessInv, Honest, ValidIsEarned, Valid, IsValid
<1>. QED  BY <1>1, AccessStep, InitAccess, PTL DEF AccessSpec

-----------------------------------------------------------------------------
(* What the requests share besides the session rows. *)

FactorsWithin == totp \in BOOLEAN /\ codes \subseteq Codes /\ misused \in BOOLEAN
LogWithin == event \in [1..MaxEvents -> Event] /\ events \in 0..MaxEvents

\* What an open challenge says: its session has been opened and has come to layer 3.
MayAnswer(x, begun, passed) ==
  x # Closed => x.key \in 1..begun /\ {"password", "second"} \subseteq passed[x.key]

ChallengesWithin ==
  /\ challenge \in [Challenges -> Challenge]
  /\ \A c \in Challenges : MayAnswer(challenge[c], made, earned)

AccessWithin ==
  /\ cookie \in [Browsers -> 0..made]
  /\ FactorsWithin /\ LogWithin
  /\ device \in [Devices -> {"none", "active", "revoked"}]
  /\ ChallengesWithin

\* A step passes a layer, or hands out a key, or does neither.
LEMMA KeySteps ==
  ASSUME [AccessNext]_accessVars
  PROVE  \/ made' = made /\ earned' = earned
         \/ made' = made /\ \E k, layer : Passes(k, layer)
         \/ \E r \in Requests, b \in Browsers : \E k : PendingPrimary(r, b, k)
<1>1. ASSUME NEW r \in Requests, SignInStep(r)
      PROVE  \/ made' = made /\ earned' = earned
             \/ made' = made /\ \E k, layer : Passes(k, layer)
             \/ \E x \in Requests, b \in Browsers : \E k : PendingPrimary(x, b, k)
  BY <1>1, Zenon DEF SignInStep, Page, Login, SecondFactor, Setup, RecoveryFind, VerifyOptions,
     RegisterOptions, Ceremony, VerifyTx, RegisterTx, RecoveryUse, NewCodes, TxFails, FindEvent,
     RecordEvent, sessions
<1>2. ASSUME NEW r \in Requests, ManageStep(r) \/ Answer(r)
      PROVE  \/ made' = made /\ earned' = earned
             \/ \E x \in Requests, b \in Browsers : \E k : PendingPrimary(x, b, k)
  BY <1>2, Zenon DEF ManageStep, Answer, Regenerate, Reset, Logout, PasswordChange, RevokeOthers, RevokeAll,
     DeviceRevoke, SessionRevoke, DeviceSessions, sessions, Flush
<1>3. CASE AgePasses \/ ChallengesExpire \/ UNCHANGED accessVars
  BY <1>3, Zenon DEF AgePasses, ChallengesExpire, sessions, accessVars
<1>. QED  BY <1>1, <1>2, <1>3, Zenon DEF AccessNext

\* Keys that were handed out stay so, and what was passed under them too.
LEMMA KeysGrow ==
  ASSUME AccessInv, [AccessNext]_accessVars
  PROVE  /\ 0..made \subseteq 0..made' /\ 1..made \subseteq 1..made'
         /\ \A k \in 1..made : earned[k] \subseteq earned'[k]
<1>1. made \in Nat /\ 1..made \subseteq Keys /\ earned \in [Keys -> SUBSET Layers]
  BY AccessBounds, SMT DEF AccessInv, AccessTypes, Keys
<1>2. CASE made' = made /\ earned' = earned
  BY <1>2, Zenon
<1>3. ASSUME NEW k, NEW layer, made' = made, Passes(k, layer)
      PROVE  made' = made /\ \A j \in Keys : earned[j] \subseteq earned'[j]
  <2>1. earned' = [earned EXCEPT ![k] = earned[k] \cup {layer}]
    BY <1>3, Zenon DEF Passes
  <2>. QED  BY <1>1, <1>3, <2>1, Zenon
<1>4. ASSUME NEW r, NEW b, NEW k, PendingPrimary(r, b, k)
      PROVE  made' = made + 1 /\ \A j \in 1..made : earned'[j] = earned[j]
  <2>1. made' = made + 1 /\ earned' = [earned EXCEPT ![made + 1] = {"password"}]
    BY <1>4, Zenon DEF PendingPrimary
  <2>2. \A j \in 1..made : j # made + 1
    BY <1>1, SMT
  <2>. QED  BY <1>1, <2>1, <2>2, Zenon
<1>5. made' = made + 1 => 0..made \subseteq 0..made' /\ 1..made \subseteq 1..made'
  BY <1>1, SMT
<1>. QED  BY <1>1, <1>2, <1>3, <1>4, <1>5, KeySteps, Zenon

\* Codes are new ones of the generator, used, or revoked together.
LEMMA FactorsTyped ==
  ASSUME FactorsWithin, [AccessNext]_accessVars
  PROVE  FactorsWithin'
<1>1. ASSUME NEW r \in Requests, SignInStep(r)
      PROVE  /\ totp' \in {totp, TRUE} /\ (misused' = misused \/ misused' \in BOOLEAN)
             /\ \/ codes' = codes \/ codes' = {} \/ \E x : codes' = codes \ {x}
                \/ \E x \in Codes : codes' = codes \cup {x}
  BY <1>1, Zenon DEF SignInStep, Page, Login, SecondFactor, Setup, RecoveryFind, VerifyOptions,
     RegisterOptions, Ceremony, VerifyTx, RegisterTx, RecoveryUse, NewCodes, TxFails, FindEvent,
     RecordEvent, factors
<1>2. ASSUME NEW r \in Requests, ManageStep(r) \/ Answer(r)
      PROVE  totp' \in {totp, FALSE} /\ misused' = misused /\ (codes' = codes \/ codes' = {})
  BY <1>2, Zenon DEF ManageStep, Answer, Regenerate, Reset, Logout, PasswordChange, RevokeOthers, RevokeAll,
     DeviceRevoke, SessionRevoke, DeviceSessions, factors
<1>3. CASE AgePasses \/ ChallengesExpire \/ UNCHANGED accessVars
  BY <1>3, Zenon DEF AgePasses, ChallengesExpire, factors, accessVars, FactorsWithin
<1>4. ASSUME NEW r \in Requests, SignInStep(r) PROVE FactorsWithin'
  <2>1. codes \subseteq Codes
    BY Zenon DEF FactorsWithin
  <2>2. \A x : codes \ {x} \subseteq Codes /\ (x \in Codes => codes \cup {x} \subseteq Codes)
    BY <2>1
  <2>3. \/ codes' = codes \/ codes' = {} \/ \E x : codes' = codes \ {x}
        \/ \E x \in Codes : codes' = codes \cup {x}
    BY <1>1, <1>4
  <2>4. codes' \subseteq Codes
    BY <2>1, <2>2, <2>3, Zenon
  <2>5. totp' \in BOOLEAN /\ misused' \in BOOLEAN
    BY <1>1, <1>4, Zenon DEF FactorsWithin
  <2>. QED  BY <2>4, <2>5, Zenon DEF FactorsWithin
<1>5. ASSUME NEW r \in Requests, ManageStep(r) \/ Answer(r) PROVE FactorsWithin'
  BY <1>2, <1>5, Zenon DEF FactorsWithin
<1>. QED  BY <1>3, <1>4, <1>5, Zenon DEF AccessNext

\* An event is opened, or some are closed.
LEMMA EventTyped ==
  /\ \A x \in Event : [x EXCEPT !.open = FALSE] \in Event
  /\ \A k \in Keys \cup {NoKey}, d \in Devices \cup {NoDevice}, o \in BOOLEAN :
       [key |-> k, dev |-> d, open |-> o] \in Event
<1>1. ASSUME NEW x \in Event PROVE [x EXCEPT !.open = FALSE] \in Event
  BY Zenon DEF Event
<1>2. ASSUME NEW k \in Keys \cup {NoKey}, NEW d \in Devices \cup {NoDevice}, NEW o \in BOOLEAN
      PROVE  [key |-> k, dev |-> d, open |-> o] \in Event
  BY Zenon DEF Event
<1>. QED  BY <1>1, <1>2

LEMMA LogSteps ==
  ASSUME [AccessNext]_accessVars
  PROVE  \/ UNCHANGED <<event, events>>
         \/ \E S : Close(S) /\ events' = events
         \/ \E e \in 1..MaxEvents : event' = [event EXCEPT ![e].open = FALSE] /\ events' = events
         \/ \E r \in Requests : RecordEvent(r)
<1>1. ASSUME NEW r \in Requests, SignInStep(r)
      PROVE  UNCHANGED <<event, events>> \/ RecordEvent(r)
  BY <1>1, Zenon DEF SignInStep, Page, Login, SecondFactor, Setup, RecoveryFind, VerifyOptions,
     RegisterOptions, Ceremony, VerifyTx, RegisterTx, RecoveryUse, NewCodes, TxFails, FindEvent, log
<1>2. ASSUME NEW r \in Requests, ManageStep(r) \/ Answer(r)
      PROVE  \/ UNCHANGED <<event, events>>
             \/ \E S : Close(S) /\ events' = events
             \/ \E e \in 1..MaxEvents : event' = [event EXCEPT ![e].open = FALSE] /\ events' = events
  BY <1>2, Zenon DEF ManageStep, Answer, Regenerate, Reset, Logout, PasswordChange, RevokeOthers, RevokeAll,
     DeviceRevoke, SessionRevoke, DeviceSessions, log
<1>3. CASE AgePasses \/ ChallengesExpire \/ UNCHANGED accessVars
  BY <1>3, Zenon DEF AgePasses, ChallengesExpire, log, accessVars
<1>. QED  BY <1>1, <1>2, <1>3, Zenon DEF AccessNext

LEMMA LogTyped ==
  ASSUME AccessInv, LogWithin, [AccessNext]_accessVars
  PROVE  LogWithin'
<1>1. event \in [1..MaxEvents -> Event] /\ events \in 0..MaxEvents /\ MaxEvents \in Nat
  BY AccessBounds, Zenon DEF LogWithin
<1>2. CASE UNCHANGED <<event, events>>
  BY <1>2, Zenon DEF LogWithin
<1>3. ASSUME NEW S, Close(S) /\ events' = events PROVE LogWithin'
  <2>1. event' = [x \in 1..MaxEvents |-> IF x \in S THEN [event[x] EXCEPT !.open = FALSE]
                                         ELSE event[x]]
    BY <1>3, Zenon DEF Close
  <2>2. event' \in [1..MaxEvents -> Event]
    BY <1>1, <2>1, EventTyped, Zenon
  <2>. QED  BY <1>1, <1>3, <2>2, Zenon DEF LogWithin
<1>4. ASSUME NEW x \in 1..MaxEvents, event' = [event EXCEPT ![x].open = FALSE], events' = events
      PROVE  LogWithin'
  <2>1. event' = [event EXCEPT ![x] = [event[x] EXCEPT !.open = FALSE]]
    BY <1>4, Zenon
  <2>2. [event[x] EXCEPT !.open = FALSE] \in Event
    BY <1>1, EventTyped, Zenon
  <2>3. event' \in [1..MaxEvents -> Event]
    BY <1>1, <2>1, <2>2, Zenon
  <2>. QED  BY <1>1, <1>4, <2>3, Zenon DEF LogWithin
<1>5. ASSUME NEW r \in Requests, RecordEvent(r) PROVE LogWithin'
  <2>. DEFINE x == [key |-> req[r].key, dev |-> req[r].data.dev, open |-> TRUE]
  <2>1. /\ events < MaxEvents /\ events' = events + 1
        /\ event' = [event EXCEPT ![events + 1] = x]
    BY <1>5, Zenon DEF RecordEvent
  <2>2. x \in Event
    <3>1. req[r].key \in Keys \cup {NoKey} /\ req[r].data \in Data
      <4>1. req[r] \in Request
        BY Zenon DEF AccessInv, AccessTypes
      <4>. QED  BY <4>1, Zenon DEF Request
    <3>2. req[r].data.dev \in Devices \cup {NoDevice}
      BY <3>1, DataFields
    <3>. QED  BY <3>1, <3>2, EventTyped, Zenon
  <2>. HIDE DEF x
  <2>3. event' \in [1..MaxEvents -> Event]
    BY <1>1, <2>1, <2>2, Zenon
  <2>4. events' \in 0..MaxEvents
    BY <1>1, <2>1, SMT
  <2>. QED  BY <2>3, <2>4, Zenon DEF LogWithin
<1>. QED  BY <1>2, <1>3, <1>4, <1>5, LogSteps, Zenon

\* A challenge is opened for a session that has come to layer 3.
LEMMA ChallengeSteps ==
  ASSUME [AccessNext]_accessVars
  PROVE  \/ challenge' = challenge \/ challenge' = [c \in Challenges |-> Closed]
         \/ \E c : Uses(c)
         \/ \E b \in Browsers, kind \in {"authentication", "registration"} :
              /\ TwoFactorDone(DataOf(b)) \/ IsValid(KeyOf(b), DataOf(b))
              /\ Opens(kind, KeyOf(b))
<1>1. ASSUME NEW r \in Requests, NEW b \in Browsers, VerifyOptions(r, b) \/ RegisterOptions(r, b)
      PROVE  \E kind \in {"authentication", "registration"} :
               /\ TwoFactorDone(DataOf(b)) \/ IsValid(KeyOf(b), DataOf(b))
               /\ Opens(kind, KeyOf(b))
  BY <1>1, Zenon DEF VerifyOptions, RegisterOptions, MayRegister
<1>2. ASSUME NEW r \in Requests, SignInStep(r)
      PROVE  \/ challenge' = challenge \/ \E c : Uses(c)
             \/ \E b \in Browsers : VerifyOptions(r, b) \/ RegisterOptions(r, b)
  BY <1>2, Zenon DEF SignInStep, Page, Login, SecondFactor, Setup, RecoveryFind, Ceremony, VerifyTx,
     RegisterTx, RecoveryUse, NewCodes, TxFails, FindEvent, RecordEvent, ceremony
<1>3. ASSUME NEW r \in Requests, ManageStep(r) \/ Answer(r)
      PROVE  challenge' = challenge
  BY <1>3, Zenon DEF ManageStep, Answer, Regenerate, Reset, Logout, PasswordChange, RevokeOthers, RevokeAll,
     DeviceRevoke, SessionRevoke, DeviceSessions, ceremony
<1>4. CASE AgePasses \/ ChallengesExpire \/ UNCHANGED accessVars
  BY <1>4, Zenon DEF AgePasses, ChallengesExpire, ceremony, accessVars
<1>. QED  BY <1>1, <1>2, <1>3, <1>4, Zenon DEF AccessNext

\* A session that is at layer 3, or past it, was opened and has passed both others.
LEMMA AtLayerThree ==
  ASSUME AccessInv, NEW b \in Browsers,
         TwoFactorDone(DataOf(b)) \/ IsValid(KeyOf(b), DataOf(b))
  PROVE  /\ KeyOf(b) \in Keys /\ KeyOf(b) \in 1..made
         /\ {"password", "second"} \subseteq earned[KeyOf(b)]
<1>1. /\ KeyOf(b) \in 0..made /\ Honest(KeyOf(b), DataOf(b), earned) /\ DataOf(b).user
  BY Begun, Zenon DEF TwoFactorDone, IsValid
<1>2. KeyOf(b) \in Keys /\ "password" \in earned[KeyOf(b)]
  BY <1>1, Zenon DEF Honest
<1>3. KeyOf(b) \in 1..made
  <2>1. made \in Nat
    BY AccessBounds, SMT DEF AccessInv, AccessTypes
  <2>. QED  BY <1>1, <1>2, <2>1, AccessBounds, SMT DEF Keys
<1>4. "second" \in earned[KeyOf(b)]
  <2>1. CASE TwoFactorDone(DataOf(b))
    BY <1>1, <2>1, Zenon DEF Honest, TwoFactorDone
  <2>2. CASE IsValid(KeyOf(b), DataOf(b))
    BY <1>1, <2>2, Zenon DEF Honest, IsValid, Layers
  <2>. QED  BY <2>1, <2>2
<1>. QED  BY <1>2, <1>3, <1>4, Zenon

LEMMA ChallengeTyped ==
  ASSUME AccessInv, ChallengesWithin, [AccessNext]_accessVars
  PROVE  ChallengesWithin'
<1>1. Closed \in Challenge /\ challenge \in [Challenges -> Challenge]
  BY Zenon DEF Challenge, ChallengesWithin
<1>2. ASSUME NEW x, MayAnswer(x, made, earned) PROVE MayAnswer(x, made', earned')
  BY <1>2, KeysGrow, Zenon DEF MayAnswer
<1>3. MayAnswer(Closed, made, earned)
  BY Zenon DEF MayAnswer
<1>4. ASSUME NEW x \in Challenge, NEW c, MayAnswer(x, made, earned),
             challenge' = [challenge EXCEPT ![c] = x]
      PROVE  ChallengesWithin'
  <2>1. challenge' \in [Challenges -> Challenge]
    BY <1>1, <1>4, Zenon
  <2>2. ASSUME NEW y \in Challenges PROVE MayAnswer(challenge'[y], made, earned)
    <3>1. challenge'[y] = x \/ challenge'[y] = challenge[y]
      BY <1>1, <1>4, Zenon
    <3>2. MayAnswer(challenge[y], made, earned)
      BY <2>2, Zenon DEF ChallengesWithin
    <3>. QED  BY <1>4, <3>1, <3>2, Zenon
  <2>. QED  BY <1>2, <2>1, <2>2, Zenon DEF ChallengesWithin
<1>5. ASSUME NEW c, Uses(c) PROVE ChallengesWithin'
  BY <1>1, <1>3, <1>4, <1>5, Zenon DEF Uses
<1>6. ASSUME NEW b \in Browsers, NEW kind \in {"authentication", "registration"},
             TwoFactorDone(DataOf(b)) \/ IsValid(KeyOf(b), DataOf(b)), Opens(kind, KeyOf(b))
      PROVE  ChallengesWithin'
  <2>1. /\ KeyOf(b) \in Keys /\ KeyOf(b) \in 1..made
        /\ {"password", "second"} \subseteq earned[KeyOf(b)]
    BY <1>6, AtLayerThree, Zenon
  <2>. DEFINE x == [kind |-> kind, key |-> KeyOf(b)]
  <2>2. x \in Challenge /\ x.key = KeyOf(b)
    BY <2>1, Zenon DEF Challenge
  <2>3. PICK c \in Challenges : challenge' = [challenge EXCEPT ![c] = x]
    BY <1>6, Zenon DEF Opens
  <2>. HIDE DEF x
  <2>4. MayAnswer(x, made, earned)
    BY <2>1, <2>2, Zenon DEF MayAnswer
  <2>. QED  BY <1>4, <2>2, <2>3, <2>4, Zenon
<1>7. CASE challenge' = challenge
  BY <1>2, <1>7, Zenon DEF ChallengesWithin
<1>8. CASE challenge' = [c \in Challenges |-> Closed]
  BY <1>1, <1>2, <1>3, <1>8, Zenon DEF ChallengesWithin
<1>. QED  BY <1>5, <1>6, <1>7, <1>8, ChallengeSteps, Zenon

\* Only the end of a request touches the cookie of a browser.
LEMMA CookieTyped ==
  ASSUME AccessInv, cookie \in [Browsers -> 0..made], [AccessNext]_accessVars
  PROVE  cookie' \in [Browsers -> 0..made']
<1>1. ASSUME NEW r \in Requests, SignInStep(r)
      PROVE  cookie' = cookie
  BY <1>1, Zenon DEF SignInStep, Page, Login, SecondFactor, Setup, RecoveryFind, VerifyOptions,
     RegisterOptions, Ceremony, VerifyTx, RegisterTx, RecoveryUse, NewCodes, TxFails, FindEvent,
     RecordEvent, sessions
<1>2. ASSUME NEW r \in Requests, ManageStep(r)
      PROVE  cookie' = cookie
  BY <1>2, Zenon DEF ManageStep, Regenerate, Reset, Logout, PasswordChange, RevokeOthers, RevokeAll,
     DeviceRevoke, SessionRevoke, DeviceSessions, sessions, Flush
<1>3. ASSUME NEW r \in Requests, Answer(r)
      PROVE  cookie' \in [Browsers -> 0..made]
  <2>1. req[r].key \in 0..made
    BY Zenon DEF AccessInv, AccessTypes
  <2>2. NoKey \in 0..made
    BY AccessBounds, SMT DEF AccessInv, AccessTypes, NoKey
  <2>3. \/ cookie' = cookie
        \/ cookie' = [cookie EXCEPT ![req[r].by] = NoKey]
        \/ cookie' = [cookie EXCEPT ![req[r].by] = req[r].key]
    BY <1>3, Zenon DEF Answer
  <2>. QED  BY <2>1, <2>2, <2>3, Zenon
<1>4. ASSUME AgePasses \/ ChallengesExpire \/ UNCHANGED accessVars PROVE cookie' = cookie
  BY <1>4, Zenon DEF AgePasses, ChallengesExpire, sessions, accessVars
<1>5. cookie' \in [Browsers -> 0..made]
  BY <1>1, <1>2, <1>3, <1>4, Zenon DEF AccessNext
<1>6. \A x \in 0..made : x \in 0..made'
  BY KeysGrow, Zenon
<1>. QED  BY <1>5, <1>6, Zenon

-----------------------------------------------------------------------------
(* Recovery codes and devices. *)

\* Whatever happens to a recovery code between the first look and its use, the
\* row that is locked and read again decides.
LEMMA CodeUse ==
  ASSUME [AccessNext]_accessVars
  PROVE  misused' = misused \/ \E r \in Requests : RecoveryUse(r)
<1>1. ASSUME NEW r \in Requests, SignInStep(r)
      PROVE  misused' = misused \/ \E x \in Requests : RecoveryUse(x)
  BY <1>1, Zenon DEF SignInStep, Page, Login, SecondFactor, Setup, RecoveryFind, VerifyOptions,
     RegisterOptions, Ceremony, VerifyTx, RegisterTx, NewCodes, TxFails, FindEvent, RecordEvent, factors
<1>2. ASSUME NEW r \in Requests, ManageStep(r) \/ Answer(r)
      PROVE  misused' = misused
  BY <1>2, Zenon DEF ManageStep, Answer, Regenerate, Reset, Logout, PasswordChange, RevokeOthers,
     RevokeAll, DeviceRevoke, SessionRevoke, DeviceSessions, factors
<1>3. CASE AgePasses \/ ChallengesExpire \/ UNCHANGED accessVars
  BY <1>3, Zenon DEF AgePasses, ChallengesExpire, factors, accessVars
<1>. QED  BY <1>1, <1>2, <1>3, Zenon DEF AccessNext

\* However many requests present a code, and whatever replaces the codes meanwhile:
\* paxalia_2fa_verify accepts no code that has been used or revoked.
THEOREM CodesOpenOnce == AccessSpec => []CodesOnce
<1>1. AccessInit => CodesOnce
  BY Zenon DEF AccessInit, CodesOnce
<1>2. ASSUME CodesOnce, [AccessNext]_accessVars
      PROVE  CodesOnce'
  <2>1. ASSUME NEW r \in Requests, RecoveryUse(r)
        PROVE  CodesOnce'
    BY <1>2, <2>1, Zenon DEF RecoveryUse, Usable, CodesOnce
  <2>. QED  BY <1>2, <2>1, CodeUse, Zenon DEF CodesOnce
<1>. QED  BY <1>1, <1>2, PTL DEF AccessSpec

\* What a step may do to the authorized devices.
LEMMA DeviceSteps ==
  ASSUME [AccessNext]_accessVars
  PROVE  \/ device' = device
         \/ \E d \in Devices : MayAdd /\ device' = [device EXCEPT ![d] = "active"]
         \/ \E d \in Devices : device' = [device EXCEPT ![d] = "revoked"]
<1>1. ASSUME NEW r \in Requests, SignInStep(r)
      PROVE  device' = device \/ \E d \in Devices : MayAdd /\ device' = [device EXCEPT ![d] = "active"]
  <2>1. CASE \E d \in Devices : RegisterTx(r, d)
    BY <2>1, Zenon DEF RegisterTx
  <2>2. CASE ~ \E d \in Devices : RegisterTx(r, d)
    BY <1>1, <2>2, Zenon DEF SignInStep, Page, Login, SecondFactor, Setup, RecoveryFind, VerifyOptions,
       RegisterOptions, Ceremony, VerifyTx, RecoveryUse, NewCodes, TxFails, FindEvent, RecordEvent, ceremony
  <2>. QED  BY <2>1, <2>2
<1>2. ASSUME NEW r \in Requests, ManageStep(r) \/ Answer(r)
      PROVE  device' = device \/ \E d \in Devices : device' = [device EXCEPT ![d] = "revoked"]
  BY <1>2, Zenon DEF ManageStep, Answer, Regenerate, Reset, Logout, PasswordChange, RevokeOthers,
     RevokeAll, DeviceRevoke, SessionRevoke, DeviceSessions, ceremony
<1>3. CASE AgePasses \/ ChallengesExpire \/ UNCHANGED accessVars
  BY <1>3, Zenon DEF AgePasses, ChallengesExpire, ceremony, accessVars
<1>. QED  BY <1>1, <1>2, <1>3, Zenon DEF AccessNext

\* The authorized devices are counted, so they must be finitely many.
DeviceInv ==
  /\ DOMAIN device = Devices
  /\ IsFiniteSet(ActiveDevices) /\ DevicesCapped

\* However many ceremonies run side by side: never more devices than
\* ADMIN_MAX_DEVICES are authorized, because each registration counts again.
THEOREM DevicesAreCapped == AccessSpec => []DevicesCapped
<1>1. AccessInit => DeviceInv
  <2>. SUFFICES ASSUME AccessInit PROVE DeviceInv
    OBVIOUS
  <2>1. PICK d \in Devices : device = [x \in Devices |-> IF totp /\ x = d THEN "active" ELSE "none"]
    BY Zenon DEF AccessInit
  <2>2. ActiveDevices = {} \/ ActiveDevices = {d}
    BY <2>1, SMT DEF ActiveDevices
  <2>3. IsFiniteSet(ActiveDevices) /\ Cardinality(ActiveDevices) <= 1
    <3>1. IsFiniteSet({}) /\ Cardinality({}) = 0 /\ IsFiniteSet({d}) /\ Cardinality({d}) = 1
      BY FS_EmptySet, FS_Singleton, Zenon
    <3>. QED  BY <2>2, <3>1
  <2>. QED  BY <2>1, <2>3, AccessBounds, FS_CardinalityType, SMT DEF DeviceInv, DevicesCapped
<1>2. ASSUME DeviceInv, [AccessNext]_accessVars
      PROVE  DeviceInv'
  <2>1. CASE device' = device
    BY <1>2, <2>1, Zenon DEF DeviceInv, DevicesCapped, ActiveDevices
  <2>2. ASSUME NEW d \in Devices, MayAdd, device' = [device EXCEPT ![d] = "active"]
        PROVE  DeviceInv'
    <3>1. DOMAIN device' = Devices /\ ActiveDevices' = ActiveDevices \cup {d}
      BY <1>2, <2>2, SMT DEF DeviceInv, ActiveDevices
    <3>2. /\ IsFiniteSet(ActiveDevices \cup {d})
          /\ Cardinality(ActiveDevices \cup {d}) <= Cardinality(ActiveDevices) + 1
      BY <1>2, FS_AddElement, FS_CardinalityType, SMT DEF DeviceInv
    <3>3. Cardinality(ActiveDevices \cup {d}) <= MaxDevices
      BY <1>2, <2>2, <3>2, FS_CardinalityType, AccessBounds, SMT DEF MayAdd, DeviceInv
    <3>. QED  BY <3>1, <3>2, <3>3, Zenon DEF DeviceInv, DevicesCapped
  <2>3. ASSUME NEW d \in Devices, device' = [device EXCEPT ![d] = "revoked"]
        PROVE  DeviceInv'
    <3>1. DOMAIN device' = Devices /\ ActiveDevices' = ActiveDevices \ {d}
      BY <1>2, <2>3, SMT DEF DeviceInv, ActiveDevices
    <3>2. /\ IsFiniteSet(ActiveDevices \ {d})
          /\ Cardinality(ActiveDevices \ {d}) <= Cardinality(ActiveDevices)
      <4>1. IsFiniteSet(ActiveDevices) /\ Cardinality(ActiveDevices) \in Nat
        BY <1>2, FS_CardinalityType DEF DeviceInv
      <4>2. /\ IsFiniteSet(ActiveDevices \ {d})
            /\ Cardinality(ActiveDevices \ {d}) = IF d \in ActiveDevices THEN Cardinality(ActiveDevices) - 1
                                                 ELSE Cardinality(ActiveDevices)
        BY <4>1, FS_RemoveElement, Zenon
      <4>. QED  BY <4>1, <4>2, SMT
    <3>3. Cardinality(ActiveDevices \ {d}) <= MaxDevices
      BY <1>2, <3>2, FS_CardinalityType, AccessBounds, SMT DEF DeviceInv, DevicesCapped
    <3>. QED  BY <3>1, <3>2, <3>3, Zenon DEF DeviceInv, DevicesCapped
  <2>. QED  BY <1>2, <2>1, <2>2, <2>3, DeviceSteps, Zenon
<1>3. DeviceInv => DevicesCapped
  BY DEF DeviceInv
<1>. QED  BY <1>1, <1>2, <1>3, PTL DEF AccessSpec

\* However requests overlap, and whatever they revoke, reset, register or expire: rows,
\* cookies and requests in flight name only keys that were handed out, an open challenge
\* belongs to a session that has passed the password and the second factor, and there
\* are no more events than the model's bound allows.
THEOREM AccessTypeCorrect == AccessSpec => []AccessTypeOK
<1>1. AccessInit => AccessWithin
  <2>. SUFFICES ASSUME AccessInit PROVE AccessWithin
    OBVIOUS
  <2>1. cookie \in [Browsers -> 0..made]
    <3>1. made = 0 /\ 0 \in 0..0
      BY SMT DEF AccessInit
    <3>. QED  BY <3>1, Zenon DEF AccessInit, NoKey
  <2>2. /\ FactorsWithin /\ device \in [Devices -> {"none", "active", "revoked"}]
    <3>1. PICK c \in Codes, d \in Devices :
            /\ codes = IF totp THEN {c} ELSE {}
            /\ device = [x \in Devices |-> IF totp /\ x = d THEN "active" ELSE "none"]
      BY Zenon DEF AccessInit
    <3>2. codes \subseteq Codes
      BY <3>1, Zenon
    <3>3. device \in [Devices -> {"none", "active", "revoked"}]
      BY <3>1, Zenon
    <3>. QED  BY <3>2, <3>3, Zenon DEF AccessInit, FactorsWithin
  <2>3. LogWithin
    <3>1. [key |-> NoKey, dev |-> NoDevice, open |-> FALSE] \in Event
      BY EventTyped, Zenon
    <3>2. events \in 0..MaxEvents
      BY AccessBounds, SMT DEF AccessInit
    <3>. QED  BY <3>1, <3>2, Zenon DEF AccessInit, LogWithin
  <2>4. ChallengesWithin
    BY Zenon DEF AccessInit, Challenge, ChallengesWithin, MayAnswer
  <2>. QED  BY <2>1, <2>2, <2>3, <2>4, Zenon DEF AccessWithin
<1>2. AccessInv /\ AccessWithin /\ [AccessNext]_accessVars => AccessWithin'
  <2>. SUFFICES ASSUME AccessInv, AccessWithin, [AccessNext]_accessVars PROVE AccessWithin'
    OBVIOUS
  <2>1. device' \in [Devices -> {"none", "active", "revoked"}]
    BY DeviceSteps, Zenon DEF AccessWithin
  <2>. QED  BY <2>1, CookieTyped, FactorsTyped, LogTyped, ChallengeTyped, Zenon DEF AccessWithin
<1>3. AccessInv /\ AccessWithin => AccessTypeOK
  <2>. SUFFICES ASSUME AccessInv, AccessWithin PROVE AccessTypeOK
    OBVIOUS
  <2>1. \A c \in Challenges :
          challenge[c] # Closed => /\ challenge[c].key \in 1..made
                                   /\ {"password", "second"} \subseteq earned[challenge[c].key]
    BY Zenon DEF AccessWithin, ChallengesWithin, MayAnswer
  <2>2. challenge \in [Challenges -> Challenge]
    BY Zenon DEF AccessWithin, ChallengesWithin
  <2>. QED  BY <2>1, <2>2, Zenon DEF AccessInv, AccessTypes, AccessWithin, FactorsWithin, LogWithin,
               AccessTypeOK
<1>. QED  BY <1>1, <1>2, <1>3, InitAccess, AccessStep, PTL DEF AccessSpec

=============================================================================
