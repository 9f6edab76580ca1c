---------------------------- MODULE ScheduledReports ----------------------------
(***************************************************************************)
(* The command that mails the scheduled reports, run by several workers at   *)
(* once, and the page that creates, pauses and deletes a report.             *)
(*                                                                           *)
(* A run lists the due reports once, then takes them one by one: a lock in   *)
(* the cache, a second look at the row, the mail, the date of the mail.  The *)
(* lock ends by itself after 300 seconds, whoever still works under it.  A   *)
(* run is over within the day it began.                                      *)
(***************************************************************************)
EXTENDS Naturals, Sequences

CONSTANTS Reports,     \* the rows of ScheduledReport there may be
          Mailers,     \* the workers that run the command
          Week, Month, \* the days of FREQUENCY_DAYS, in ticks
          LastDay,     \* the days a behaviour has
          MaxClicks,   \* uses of the page
          MaxUpsets    \* failures of the cache, and deaths of a worker

ASSUME ReportsAssumption ==
  /\ Week \in Nat /\ Month \in Nat /\ LastDay \in Nat
  /\ MaxClicks \in Nat /\ MaxUpsets \in Nat
  /\ "no report" \notin Reports /\ "free" \notin Mailers

VARIABLES reports,  \* the rows
          lock,     \* who has the lock of a report in the cache
          mailer,   \* what a worker does: step, the report at hand, those left
          pending,  \* what a request that toggles a report will save
          day,
          mails,    \* the days on which a report was mailed
          excused,  \* reports whose lock ended, failed or was left too early
          clicks, upsets

reportVars == <<reports, lock, mailer, pending, day, mails, excused, clicks, upsets>>

FREQUENCY_DAYS == [weekly |-> Week, monthly |-> Month]
NoHolder == "free"
NoReport == "no report"
Never == LastDay + 1
Ahead == {"next", "claimed", "sending", "saving", "done", "failed"}

ReportTypeOK ==
  /\ reports \in [Reports ->
       [exists : BOOLEAN, active : BOOLEAN, frequency : DOMAIN FREQUENCY_DAYS,
        sent : 0..Never]]
  /\ lock \in [Reports -> Mailers \cup {NoHolder}]
  /\ mailer \in [Mailers -> [step : Ahead \cup {"off"},
                             report : Reports \cup {NoReport}, left : SUBSET Reports]]
  /\ pending \in [Reports -> {"none", "on", "off"}]
  /\ day \in 0..LastDay
  /\ \A r \in Reports : mails[r] \in Seq(0..LastDay)
  /\ excused \in SUBSET Reports
  /\ clicks \in 0..MaxClicks /\ upsets \in 0..MaxUpsets

Off == [step |-> "off", report |-> NoReport, left |-> {}]

ReportsInit ==
  /\ reports \in [Reports ->
       [exists : BOOLEAN, active : {TRUE}, frequency : DOMAIN FREQUENCY_DAYS,
        sent : {Never}]]
  /\ lock = [r \in Reports |-> NoHolder]
  /\ mailer = [w \in Mailers |-> Off]
  /\ pending = [r \in Reports |-> "none"]
  /\ day = 0 /\ mails = [r \in Reports |-> <<>>]
  /\ excused = {} /\ clicks = 0 /\ upsets = 0

-----------------------------------------------------------------------------
IsDue(row) ==
  \/ row.sent = Never
  \/ day - row.sent >= FREQUENCY_DAYS[row.frequency]

Steps(w, step) == mailer' = [mailer EXCEPT ![w].step = step]

\* The list is made once, with the date all of its mails will have.
StartRun(w) ==
  /\ mailer[w].step = "off"
  /\ mailer' = [mailer EXCEPT ![w] =
       [step |-> "next", report |-> NoReport,
        left |-> {r \in Reports : /\ reports[r].exists /\ reports[r].active
                                  /\ IsDue(reports[r])}]]
  /\ UNCHANGED <<reports, lock, pending, day, mails, excused, clicks, upsets>>

EndRun(w) ==
  /\ mailer[w].step = "next" /\ mailer[w].left = {}
  /\ mailer' = [mailer EXCEPT ![w] = Off]
  /\ UNCHANGED <<reports, lock, pending, day, mails, excused, clicks, upsets>>

TakesReport(w, r, step) ==
  mailer' = [mailer EXCEPT ![w] =
    [step |-> step, report |-> r, left |-> @.left \ {r}]]

Skips(w, r) == mailer' = [mailer EXCEPT ![w].left = @ \ {r}]

\* cache.add: the report is claimed, or left to the worker that has it.
Claim(w) ==
  /\ mailer[w].step = "next"
  /\ \E r \in mailer[w].left :
       IF lock[r] = NoHolder
       THEN lock' = [lock EXCEPT ![r] = w] /\ TakesReport(w, r, "claimed")
       ELSE Skips(w, r) /\ UNCHANGED lock
  /\ UNCHANGED <<reports, pending, day, mails, excused, clicks, upsets>>

\* The cache fails: the report counts as claimed.
ClaimFails(w) ==
  /\ mailer[w].step = "next" /\ upsets < MaxUpsets /\ upsets' = upsets + 1
  /\ \E r \in mailer[w].left :
       TakesReport(w, r, "claimed") /\ excused' = excused \cup {r}
  /\ UNCHANGED <<reports, lock, pending, day, mails, clicks>>

\* Mutant: the row is used as the list had it.
StillListed(row) == TRUE

\* What a worker asks of the row it has read again.
StillDue(row) == row.active /\ IsDue(row)

\* The row is read again under the lock; refresh_from_db raises if it is gone.
Recheck(w) ==
  /\ mailer[w].step = "claimed"
  /\ LET row == reports[mailer[w].report] IN
       Steps(w, IF ~row.exists THEN "failed"
                ELSE IF StillDue(row) THEN "sending" ELSE "done")
  /\ UNCHANGED <<reports, lock, pending, day, mails, excused, clicks, upsets>>

\* The mail goes out.
Send(w) ==
  /\ mailer[w].step = "sending"
  /\ mails' = [mails EXCEPT ![mailer[w].report] = Append(@, day)]
  /\ Steps(w, "saving")
  /\ UNCHANGED <<reports, lock, pending, day, excused, clicks, upsets>>

\* send_report_email returns False: the report stays due.
MailFails(w) ==
  /\ mailer[w].step = "sending"
  /\ Steps(w, "done")
  /\ UNCHANGED <<reports, lock, pending, day, mails, excused, clicks, upsets>>

\* The figures or the template raise: the run ends.
RenderFails(w) ==
  /\ mailer[w].step = "sending"
  /\ Steps(w, "failed")
  /\ UNCHANGED <<reports, lock, pending, day, mails, excused, clicks, upsets>>

\* The date of the run is saved; save() raises when the row is gone.
SaveSent(w) ==
  /\ mailer[w].step = "saving"
  /\ LET r == mailer[w].report IN
       IF reports[r].exists
       THEN reports' = [reports EXCEPT ![r].sent = day] /\ Steps(w, "done")
       ELSE Steps(w, "failed") /\ UNCHANGED reports
  /\ UNCHANGED <<lock, pending, day, mails, excused, clicks, upsets>>

\* The lock is deleted, whoever has it by now; after an exception the run is over.
ReleaseLock(w) ==
  /\ mailer[w].step \in {"done", "failed"}
  /\ lock' = [lock EXCEPT ![mailer[w].report] = NoHolder]
  /\ mailer' = [mailer EXCEPT ![w] =
       IF @.step = "failed" THEN Off
       ELSE [step |-> "next", report |-> NoReport, left |-> @.left]]
  /\ UNCHANGED <<reports, pending, day, mails, excused, clicks, upsets>>

\* The deletion fails: the lock stays until it expires.
ReleaseFails(w) ==
  /\ mailer[w].step \in {"done", "failed"} /\ upsets < MaxUpsets
  /\ upsets' = upsets + 1
  /\ mailer' = [mailer EXCEPT ![w] =
       IF @.step = "failed" THEN Off
       ELSE [step |-> "next", report |-> NoReport, left |-> @.left]]
  /\ UNCHANGED <<reports, lock, pending, day, mails, excused, clicks>>

\* A worker is killed, or the database refuses the date.
MailerDies(w) ==
  /\ mailer[w].step \in Ahead /\ upsets < MaxUpsets /\ upsets' = upsets + 1
  /\ excused' = IF mailer[w].step = "saving"
                THEN excused \cup {mailer[w].report} ELSE excused
  /\ mailer' = [mailer EXCEPT ![w] = Off]
  /\ UNCHANGED <<reports, lock, pending, day, mails, clicks>>

\* 300 seconds are over.
LockExpires(r) ==
  /\ lock[r] # NoHolder
  /\ lock' = [lock EXCEPT ![r] = NoHolder]
  /\ excused' = IF \E w \in Mailers : mailer[w].report = r
                THEN excused \cup {r} ELSE excused
  /\ UNCHANGED <<reports, mailer, pending, day, mails, clicks, upsets>>

-----------------------------------------------------------------------------
Click == clicks < MaxClicks /\ clicks' = clicks + 1

reports_management(r) ==
  /\ Click /\ ~reports[r].exists /\ mails[r] = <<>> /\ pending[r] = "none"
  /\ \A w \in Mailers : r \notin mailer[w].left \cup {mailer[w].report}
  /\ \E f \in DOMAIN FREQUENCY_DAYS :
       reports' = [reports EXCEPT ![r] =
         [exists |-> TRUE, active |-> TRUE, frequency |-> f, sent |-> Never]]
  /\ UNCHANGED <<lock, mailer, pending, day, mails, excused, upsets>>

\* The page reads the switch and will save its opposite.
report_toggle_active(r) ==
  /\ Click /\ reports[r].exists /\ pending[r] = "none"
  /\ pending' = [pending EXCEPT ![r] = IF reports[r].active THEN "off" ELSE "on"]
  /\ UNCHANGED <<reports, lock, mailer, day, mails, excused, upsets>>

\* The save raises when the row is gone.
SaveToggle(r) ==
  /\ pending[r] # "none"
  /\ pending' = [pending EXCEPT ![r] = "none"]
  /\ reports' = IF reports[r].exists
                THEN [reports EXCEPT ![r].active = (pending[r] = "on")] ELSE reports
  /\ UNCHANGED <<lock, mailer, day, mails, excused, clicks, upsets>>

report_delete(r) ==
  /\ Click /\ reports[r].exists
  /\ reports' = [reports EXCEPT ![r].exists = FALSE]
  /\ UNCHANGED <<lock, mailer, pending, day, mails, excused, upsets>>

\* The next day begins, with no run and no lock of the day before.
NextDay ==
  /\ day < LastDay /\ day' = day + 1
  /\ \A w \in Mailers : mailer[w].step = "off"
  /\ lock' = [r \in Reports |-> NoHolder]
  /\ UNCHANGED <<reports, mailer, pending, mails, excused, clicks, upsets>>

ReportsNext ==
  \/ \E w \in Mailers :
       \/ StartRun(w) \/ EndRun(w) \/ Claim(w) \/ ClaimFails(w) \/ Recheck(w)
       \/ Send(w) \/ MailFails(w) \/ RenderFails(w) \/ SaveSent(w)
       \/ ReleaseLock(w) \/ ReleaseFails(w) \/ MailerDies(w)
  \/ \E r \in Reports :
       \/ LockExpires(r) \/ reports_management(r) \/ report_toggle_active(r)
       \/ SaveToggle(r) \/ report_delete(r)
  \/ NextDay

ReportsSpec == ReportsInit /\ [][ReportsNext]_reportVars

-----------------------------------------------------------------------------
(***************************************************************************)
(* Two mails of a report are a whole period apart, whatever the workers of   *)
(* several runs do at once, unless the lock of the report ended under a      *)
(* worker, the cache failed, or a worker died between a mail and its date.   *)
(***************************************************************************)
ReportsOnce ==
  \A r \in Reports \ excused : \A i \in 1..(Len(mails[r]) - 1) :
     mails[r][i + 1] - mails[r][i] >= FREQUENCY_DAYS[reports[r].frequency]

\* Not kept: the same of every report, the promise of the comment above the lock.
NeverTwice ==
  \A r \in Reports : \A i \in 1..(Len(mails[r]) - 1) :
     mails[r][i + 1] - mails[r][i] >= FREQUENCY_DAYS[reports[r].frequency]
=============================================================================
