-------------------------------- MODULE Traffic --------------------------------
(***************************************************************************)
(* The page views that AnalyticsMiddleware stores and the row of daily      *)
(* counters that it increments, with what else writes that row: the         *)
(* aggregation of yesterday and the import of an export of another tool.    *)
(*                                                                         *)
(* One site.  A row is locked from the SELECT FOR UPDATE, or from the       *)
(* INSERT, to the end of its transaction; an uncommitted row is seen by     *)
(* nobody, and a second INSERT of the same day waits for the first.         *)
(***************************************************************************)
EXTENDS Naturals, FiniteSets

CONSTANTS Visits,        \* requests answered at the same time
          Days,          \* bound: days of the run
          MaxHits,       \* bound: requests that are tracked
          MaxMishaps,    \* bound: lock timeouts and deaths of a process
          MaxWrites      \* bound: aggregations, imports and prunings

Unowned == "nobody"

ASSUME TrafficAssumption == Days \in Nat \ {0} /\ MaxHits \in Nat /\ Unowned \notin Visits

VARIABLES views,      \* PageView rows: day -> kind -> how many
          rows,       \* DailySiteStats: day -> its counters, for the days that have one
          owner,      \* day -> who has its row, or its insertion, locked
          visit,      \* the requests that are being counted
          command,    \* the aggregation or import that runs
          today,
          counted,    \* history: what the row of each day should hold
          hits, mishaps, writes

trafficVars == <<views, rows, owner, visit, command, today, counted, hits, mishaps, writes>>

Kinds == {"page", "api", "bot"}
Attempts == 3
NoneYet == [k \in Kinds |-> 0]
Resting == [step |-> "idle", day |-> 1, kind |-> "page", read |-> NoneYet, tries |-> 0]
NoCommand == [step |-> "idle", day |-> 1, left |-> {}, counts |-> NoneYet]
Imported == 2      \* the total_views of an imported line

TrafficTypeOK ==
  /\ views \in [1 .. Days -> [Kinds -> Nat]]
  /\ DOMAIN rows \subseteq 1 .. Days /\ \A d \in DOMAIN rows : rows[d] \in [Kinds -> Nat]
  /\ owner \in [1 .. Days -> Visits \cup {Unowned}]
  /\ \A v \in Visits : /\ visit[v].step \in {"idle", "count", "look", "create", "save"}
                       /\ visit[v].tries \in 0 .. Attempts - 1
  /\ command.step \in {"idle", "counting", "writing", "creating", "updating"}
  /\ today \in 1 .. Days /\ counted \in [1 .. Days -> [Kinds -> Nat]]

TrafficInit ==
  /\ views = [d \in 1 .. Days |-> NoneYet] /\ rows = <<>>
  /\ owner = [d \in 1 .. Days |-> Unowned] /\ visit = [v \in Visits |-> Resting]
  /\ command = NoCommand /\ today = 1 /\ counted = [d \in 1 .. Days |-> NoneYet]
  /\ hits = 0 /\ mishaps = 0 /\ writes = 0

-----------------------------------------------------------------------------
(* A tracked request: its view, then _increment_daily_stats(). *)

\* What a request is: a bot by its path or agent, else an API call or a page;
\* an ignored path, or a visitor who has not consented, is not tracked at all.
View(v, kind) ==
  /\ visit[v] = Resting /\ hits < MaxHits
  /\ views' = [views EXCEPT ![today][kind] = @ + 1]
  /\ visit' = [visit EXCEPT ![v].step = "count", ![v].kind = kind]
  /\ hits' = hits + 1
  /\ UNCHANGED <<rows, owner, command, today, counted, mishaps, writes>>

\* The day of the increment is read after the view was stored.
CountView(v) ==
  /\ visit[v].step = "count"
  /\ visit' = [visit EXCEPT ![v].step = "look", ![v].day = today]
  /\ UNCHANGED <<views, rows, owner, command, today, counted, hits, mishaps, writes>>

\* Variant of MayHold: the row is read without FOR UPDATE.
MayHoldAnyway(d) == TRUE
MayHold(d) == owner[d] = Unowned

Look(v) ==
  LET d == visit[v].day IN
    /\ visit[v].step = "look"
    /\ IF d \in DOMAIN rows
         THEN /\ MayHold(d) /\ owner' = [owner EXCEPT ![d] = v]
              /\ visit' = [visit EXCEPT ![v].step = "save", ![v].read = rows[d]]
         ELSE visit' = [visit EXCEPT ![v].step = "create"] /\ UNCHANGED owner
    /\ UNCHANGED <<views, rows, command, today, counted, hits, mishaps, writes>>

Create(v) ==
  LET d == visit[v].day IN
    /\ visit[v].step = "create" /\ d \notin DOMAIN rows /\ MayHold(d)
    /\ owner' = [owner EXCEPT ![d] = v]
    /\ visit' = [visit EXCEPT ![v].step = "save", ![v].read = NoneYet]
    /\ UNCHANGED <<views, rows, command, today, counted, hits, mishaps, writes>>

\* Another request created the row: the failed INSERT has marked the
\* transaction for rollback, so the get() that follows it raises
\* TransactionManagementError, which is no OperationalError and is logged.
CreateFails(v) ==
  /\ visit[v].step = "create" /\ visit[v].day \in DOMAIN rows
  /\ visit' = [visit EXCEPT ![v] = Resting]
  /\ UNCHANGED <<views, rows, owner, command, today, counted, hits, mishaps, writes>>

Release(v) == [d \in 1 .. Days |-> IF owner[d] = v THEN Unowned ELSE owner[d]]
WithCounters(d, c) == [x \in DOMAIN rows \cup {d} |-> IF x = d THEN c ELSE rows[x]]

Save(v) ==
  LET d == visit[v].day
      k == visit[v].kind
  IN  /\ visit[v].step = "save"
      /\ rows' = WithCounters(d, [visit[v].read EXCEPT ![k] = @ + 1])
      /\ counted' = [counted EXCEPT ![d][k] = @ + 1]
      /\ owner' = Release(v) /\ visit' = [visit EXCEPT ![v] = Resting]
      /\ UNCHANGED <<views, command, today, hits, mishaps, writes>>

\* "database is locked": the transaction is rolled back and tried again, at
\* most Attempts times in all.
Locked(v) ==
  /\ visit[v].step \in {"look", "create", "save"} /\ mishaps < MaxMishaps
  /\ visit' = [visit EXCEPT ![v] = IF visit[v].tries + 1 < Attempts
                 THEN [visit[v] EXCEPT !.step = "look", !.read = NoneYet, !.tries = @ + 1]
                 ELSE Resting]
  /\ owner' = Release(v) /\ mishaps' = mishaps + 1
  /\ UNCHANGED <<views, rows, command, today, counted, hits, writes>>

VisitDies(v) ==
  /\ visit[v] # Resting /\ mishaps < MaxMishaps
  /\ visit' = [visit EXCEPT ![v] = Resting]
  /\ owner' = Release(v) /\ mishaps' = mishaps + 1
  /\ UNCHANGED <<views, rows, command, today, counted, hits, writes>>

-----------------------------------------------------------------------------
(* aggregate_daily_stats: yesterday's views are counted kind by kind, then   *)
(* the row is overwritten, or created, under its lock.                       *)

CommandStarts == command = NoCommand /\ writes < MaxWrites /\ writes' = writes + 1
Ends == command' = NoCommand

Aggregate ==
  /\ CommandStarts /\ today > 1
  /\ command' = [NoCommand EXCEPT !.step = "counting", !.day = today - 1, !.left = Kinds]
  /\ UNCHANGED <<views, rows, owner, visit, today, counted, hits, mishaps>>

AggregateCount(k) ==
  /\ command.step = "counting" /\ k \in command.left
  /\ command' = [command EXCEPT !.left = @ \ {k}, !.counts[k] = views[command.day][k],
                                !.step = IF command.left = {k} THEN "writing" ELSE @]
  /\ UNCHANGED <<views, rows, owner, visit, today, counted, hits, mishaps, writes>>

AggregateWrite ==
  /\ command.step = "writing" /\ MayHold(command.day)
  /\ rows' = WithCounters(command.day, command.counts)
  /\ counted' = [counted EXCEPT ![command.day] = command.counts]
  /\ Ends
  /\ UNCHANGED <<views, owner, visit, today, hits, mishaps, writes>>

-----------------------------------------------------------------------------
(* import_daily_stats, for one line: a day that has a row is skipped unless  *)
(* the administrator asked to overwrite; only total_views is the line's.     *)

Import(d, overwrite) ==
  /\ CommandStarts
  /\ command' = IF d \notin DOMAIN rows THEN [NoCommand EXCEPT !.step = "creating", !.day = d]
                ELSE IF overwrite THEN [NoCommand EXCEPT !.step = "updating", !.day = d]
                ELSE NoCommand
  /\ UNCHANGED <<views, rows, owner, visit, today, counted, hits, mishaps>>

ImportCreates ==
  LET d == command.day IN
    /\ command.step = "creating" /\ d \notin DOMAIN rows /\ MayHold(d)
    /\ rows' = WithCounters(d, [NoneYet EXCEPT !["page"] = Imported])
    /\ counted' = [counted EXCEPT ![d] = [NoneYet EXCEPT !["page"] = Imported]]
    /\ Ends
    /\ UNCHANGED <<views, owner, visit, today, hits, mishaps, writes>>

\* The first view of the day came meanwhile: IntegrityError ends the import.
ImportFails ==
  /\ command.step = "creating" /\ command.day \in DOMAIN rows
  /\ Ends
  /\ UNCHANGED <<views, rows, owner, visit, today, counted, hits, mishaps, writes>>

ImportUpdates ==
  LET d == command.day IN
    /\ command.step = "updating" /\ MayHold(d)
    /\ rows' = [rows EXCEPT ![d]["page"] = Imported]
    /\ counted' = [counted EXCEPT ![d]["page"] = Imported]
    /\ Ends
    /\ UNCHANGED <<views, owner, visit, today, hits, mishaps, writes>>

-----------------------------------------------------------------------------
\* prune_analytics_data with a retention of so many days, at some hour of today:
\* all views of the days before, and some of the day in which the cutoff falls.
PruneViews(retention) ==
  /\ writes < MaxWrites /\ writes' = writes + 1
  /\ \E cut \in [Kinds -> 0 .. MaxHits] :
       /\ \A d \in 1 .. Days : d + retention = today => \A k \in Kinds : cut[k] <= views[d][k]
       /\ \A d \in 1 .. Days : d + retention = today \/ cut = NoneYet
       /\ views' = [d \in 1 .. Days |-> IF d + retention < today THEN NoneYet
                      ELSE IF d + retention = today THEN [k \in Kinds |-> views[d][k] - cut[k]]
                      ELSE views[d]]
  /\ UNCHANGED <<rows, owner, visit, command, today, counted, hits, mishaps>>

Midnight ==
  /\ today < Days /\ today' = today + 1
  /\ UNCHANGED <<views, rows, owner, visit, command, counted, hits, mishaps, writes>>

TrafficNext ==
  \/ \E v \in Visits : \/ \E kind \in Kinds : View(v, kind)
                       \/ CountView(v) \/ Look(v) \/ Create(v) \/ CreateFails(v)
                       \/ Save(v) \/ Locked(v) \/ VisitDies(v)
  \/ Aggregate \/ (\E k \in Kinds : AggregateCount(k)) \/ AggregateWrite
  \/ (\E d \in 1 .. Days, overwrite \in BOOLEAN : Import(d, overwrite))
  \/ ImportCreates \/ ImportFails \/ ImportUpdates
  \/ (\E retention \in 1 .. Days : PruneViews(retention)) \/ Midnight

TrafficSpec == TrafficInit /\ [][TrafficNext]_trafficVars

-----------------------------------------------------------------------------
\* "Update daily counters without a read/modify/write race": whatever requests,
\* aggregations and imports write the row of a day at the same time, it holds what
\* the last of the latter wrote and every increment that was saved since.
NoLostUpdate ==
  \A d \in 1 .. Days :
    IF d \in DOMAIN rows THEN rows[d] = counted[d] ELSE counted[d] = NoneYet

\* "this helper handles the concurrent first-row creation": while nothing but
\* requests writes, and none of them met a lock timeout or died, the row of the day
\* counts every view of the day once no request is in flight.
EveryViewCounts ==
  (\A v \in Visits : visit[v] = Resting) /\ mishaps = 0 /\ writes = 0 /\ today = 1
    => views[1] = IF 1 \in DOMAIN rows THEN rows[1] ELSE NoneYet
=============================================================================
