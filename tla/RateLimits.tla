------------------------------- MODULE RateLimits -------------------------------
(***************************************************************************)
(* The limits on public and administrative requests: the counter of          *)
(* security_rate_limit.allowed() and clear(), the simpler counter that four  *)
(* public endpoints have, and what their requests may then do.               *)
(*                                                                           *)
(* A behaviour is about the requests of one endpoint that share one key of   *)
(* the cache; counters of different keys never meet.  Every call of the      *)
(* cache is a step of its own, and the window may end before any of them.    *)
(*                                                                           *)
(* Assumed: cache.incr is one atomic operation, as in the shared backends    *)
(* that the docstring of allowed() means; it promises nothing of the others. *)
(***************************************************************************)
EXTENDS Naturals

CONSTANTS Callers,    \* the requests that share the key
          Limit,       \* how many a window admits
          MaxReports,  \* csp_report() stores at most so many of a request (20)
          MaxWindows,  \* how often the counter ends
          MaxOutages,  \* how many calls of the cache fail
          None         \* what the cache answers when there is no counter

ASSUME LimitAssumption ==
  /\ Limit \in Nat \ {0} /\ MaxReports \in Nat
  /\ MaxWindows \in Nat /\ MaxOutages \in Nat
  /\ None \notin Nat

VARIABLES endpoint,  \* the view the requests ask
          counter,   \* the value under the key, None when there is none
          stage,     \* the next step of a request
          read,      \* the count a request of allowed() works with
          saved, logged,  \* how many rows and log records the views have written
          admitted, refused,  \* requests the window has let through and turned away
          spoilt,    \* the window's counter was missed or could not be reached
          windows, outages

effects == <<saved, logged>>
limitVars == <<endpoint, counter, stage, read, effects, admitted, refused,
               spoilt, windows, outages>>

Public == {"event", "js error", "browser log", "csp", "api"}
Private == {"share link", "bot path"}

LimitTypeOK ==
  /\ endpoint \in Public \cup Private
  /\ counter \in {None} \cup (Nat \ {0})
  /\ stage \in [Callers ->
       {"new", "get", "add", "get again", "incr", "set", "add again", "view",
        "done"}]
  /\ read \in [Callers -> 0..Limit]
  /\ saved \in Nat /\ logged \in Nat /\ spoilt \in BOOLEAN
  /\ admitted \in Nat /\ refused \in Nat
  /\ windows \in 0..MaxWindows /\ outages \in 0..MaxOutages

LimitInit ==
  /\ endpoint \in Public \cup Private
  /\ counter = None
  /\ stage = [r \in Callers |-> "new"] /\ read = [r \in Callers |-> 0]
  /\ saved = 0 /\ logged = 0 /\ admitted = 0 /\ refused = 0 /\ spoilt = FALSE
  /\ windows = 0 /\ outages = 0

-----------------------------------------------------------------------------
Moves(r, to) == stage' = [stage EXCEPT ![r] = to]

Admits(r) == Moves(r, "view") /\ admitted' = admitted + 1 /\ UNCHANGED refused
Refuses(r) == Moves(r, "done") /\ refused' = refused + 1 /\ UNCHANGED admitted
Counting == UNCHANGED <<admitted, refused>>

\* A request arrives.  The API looks for its key first, a shared dashboard for
\* a link that is still usable; both turn others away without counting them.
Arrives(r) ==
  /\ stage[r] = "new"
  /\ Moves(r, IF endpoint \in Public THEN "add" ELSE "get")
  /\ Counting
  /\ UNCHANGED <<endpoint, counter, read, effects, spoilt, windows, outages>>

TurnedAway(r) ==
  /\ stage[r] = "new" /\ endpoint \in {"api", "share link"}
  /\ Moves(r, "done")
  /\ Counting
  /\ UNCHANGED <<endpoint, counter, read, effects, spoilt, windows, outages>>

-----------------------------------------------------------------------------
\* allowed(): what is done with the count that was read.
Weighs(r, current) ==
  IF current >= Limit
  THEN Refuses(r) /\ UNCHANGED read
  ELSE Moves(r, "incr") /\ read' = [read EXCEPT ![r] = current] /\ Counting

\* allowed() reads the counter.
Gets(r) ==
  /\ stage[r] = "get"
  /\ IF counter = None THEN Moves(r, "add") /\ UNCHANGED read /\ Counting
                       ELSE Weighs(r, counter)
  /\ UNCHANGED <<endpoint, counter, effects, spoilt, windows, outages>>

\* The first request of a window creates the counter, in both forms.
Adds(r) ==
  /\ stage[r] = "add" /\ counter = None
  /\ counter' = 1 /\ Admits(r)
  /\ UNCHANGED <<endpoint, read, effects, spoilt, windows, outages>>

\* Another request was first.
AddsLate(r) ==
  /\ stage[r] = "add" /\ counter # None
  /\ Moves(r, IF endpoint \in Public THEN "incr" ELSE "get again")
  /\ Counting
  /\ UNCHANGED <<endpoint, counter, read, effects, spoilt, windows, outages>>

GetsAgain(r) ==
  /\ stage[r] = "get again"
  /\ Weighs(r, IF counter = None THEN 0 ELSE counter)
  /\ UNCHANGED <<endpoint, counter, effects, spoilt, windows, outages>>

\* Mutant: the request trusts the count it had read.
WithinAnyway(count) == TRUE

\* What the new count says.
Within(count) == count <= Limit

\* The increment counts the request and decides.
Increments(r) ==
  /\ stage[r] = "incr" /\ counter # None
  /\ counter' = counter + 1
  /\ IF Within(counter + 1) THEN Admits(r) ELSE Refuses(r)
  /\ UNCHANGED <<endpoint, read, effects, spoilt, windows, outages>>

\* The counter is gone: incr() raises, and the request starts a new one.
Misses(r) ==
  /\ stage[r] = "incr" /\ counter = None
  /\ Moves(r, IF endpoint \in Public THEN "add again" ELSE "set")
  /\ spoilt' = TRUE /\ Counting
  /\ UNCHANGED <<endpoint, counter, read, effects, windows, outages>>

\* allowed() then writes what it had read, plus one, whatever is there by now.
SetsCount(r) ==
  /\ stage[r] = "set"
  /\ counter' = read[r] + 1 /\ spoilt' = TRUE
  /\ IF Within(read[r] + 1) THEN Admits(r) ELSE Refuses(r)
  /\ UNCHANGED <<endpoint, read, effects, windows, outages>>

\* A public endpoint adds a counter unless there is one, and admits.
AddsAgain(r) ==
  /\ stage[r] = "add again"
  /\ counter' = (IF counter = None THEN 1 ELSE counter) /\ spoilt' = TRUE
  /\ Admits(r)
  /\ UNCHANGED <<endpoint, read, effects, windows, outages>>

\* A call of the cache fails.  allowed() admits the request, or writes the count
\* if it was the increment; a public endpoint answers with an error.
CacheFails(r) ==
  /\ outages < MaxOutages /\ outages' = outages + 1
  /\ stage[r] \in {"get", "add", "get again", "incr", "set", "add again"}
  /\ spoilt' = TRUE
  /\ IF endpoint \in Public THEN Moves(r, "done") /\ Counting
     ELSE IF stage[r] = "incr" THEN Moves(r, "set") /\ Counting
     ELSE Admits(r)
  /\ UNCHANGED <<endpoint, counter, read, effects, windows>>

-----------------------------------------------------------------------------
\* A new window begins: its counts are those of no request yet.
Begins ==
  /\ counter' = None /\ admitted' = 0 /\ refused' = 0 /\ spoilt' = FALSE

\* The window of the counter is over.
Expires ==
  /\ counter # None /\ windows < MaxWindows
  /\ windows' = windows + 1 /\ Begins
  /\ UNCHANGED <<endpoint, stage, read, effects, outages>>

\* The right password ends the window with clear().
RightPassword(r) ==
  /\ stage[r] = "view" /\ endpoint = "share link"
  /\ Moves(r, "done") /\ Begins
  /\ UNCHANGED <<endpoint, read, effects, windows, outages>>

\* A wrong one leaves the counter as it is.
WrongPassword(r) ==
  /\ stage[r] = "view" /\ endpoint = "share link"
  /\ Moves(r, "done") /\ Counting
  /\ UNCHANGED <<endpoint, counter, read, effects, spoilt, windows, outages>>

\* The view writes so many rows and log records.
Writes(r, view, newRows, newRecords) ==
  /\ stage[r] = "view" /\ endpoint = view
  /\ saved' = saved + newRows /\ logged' = logged + newRecords
  /\ Moves(r, "done") /\ Counting
  /\ UNCHANGED <<endpoint, counter, read, spoilt, windows, outages>>

\* The views of the public endpoints.  Without consent, when the body is too large,
\* no JSON or lacks a field, and when the row cannot be stored, nothing is written.
analytics_event_api(r) == \E n \in 0..1 : Writes(r, "event", n, 0)

\* The row of the error stays when its log record fails.
analytics_js_error_api(r) == \E n \in 0..1 : \E m \in 0..n : Writes(r, "js error", n, m)

analytics_browser_log_api(r) == \E m \in 0..1 : Writes(r, "browser log", 0, m)

\* Each report of the request fails on its own, before or after its row.
csp_report(r) == \E n \in 0..MaxReports : \E m \in 0..n : Writes(r, "csp", n, m)

paxalia_api_ingest(r) == \E n \in 0..1 : Writes(r, "api", n, 0)

\* A path that makes no rule changes nothing; the rows a rule moves are not counted.
bot_path_mark(r) == \E n \in 0..1 : Writes(r, "bot path", n, 0)

LimitNext ==
  \/ \E r \in Callers :
       \/ Arrives(r) \/ TurnedAway(r) \/ Gets(r) \/ Adds(r) \/ AddsLate(r)
       \/ GetsAgain(r) \/ Increments(r) \/ Misses(r) \/ SetsCount(r) \/ AddsAgain(r)
       \/ CacheFails(r) \/ RightPassword(r) \/ WrongPassword(r)
       \/ analytics_event_api(r) \/ analytics_js_error_api(r)
       \/ analytics_browser_log_api(r) \/ csp_report(r) \/ paxalia_api_ingest(r)
       \/ bot_path_mark(r)
  \/ Expires

LimitSpec == LimitInit /\ [][LimitNext]_limitVars

-----------------------------------------------------------------------------
(***************************************************************************)
(* However the requests interleave, a window admits at most Limit of them,   *)
(* and turns one away only once it has admitted Limit; only a request that   *)
(* finds the counter gone between its read and its increment, or a failing   *)
(* cache, may change that.                                                   *)
(***************************************************************************)
LimitIsExact ==
  ~spoilt => /\ admitted <= Limit
             /\ refused > 0 => admitted = Limit

\* Not kept: the same of every window.  The late write of SetsCount rewinds the counter,
\* and AddsAgain admits a request that nothing counts.
LimitAlways == admitted <= Limit
=============================================================================
