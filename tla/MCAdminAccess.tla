----------------------------- MODULE MCAdminAccess -----------------------------
(***************************************************************************)
(* Small instances of what guards the dashboard and of what it mails: the   *)
(* sign-in of administrators (AdminAccess), the limits on requests          *)
(* (RateLimits) and the scheduled reports (ScheduledReports).  They share   *)
(* no variable: part says which one moves.                                  *)
(***************************************************************************)
EXTENDS AdminAccess, RateLimits, ScheduledReports, TLC

VARIABLE part

guardVars == <<part, accessVars, limitVars, reportVars>>

GuardInit ==
  /\ part \in {"access", "limits", "reports"}
  /\ AccessInit
  /\ LimitInit
  /\ part # "limits" => endpoint = "csp"
  /\ ReportsInit
  /\ part # "reports" => \A r \in Reports : reports[r] = [exists |-> FALSE,
                           active |-> TRUE, frequency |-> "weekly", sent |-> Never]

GuardNext ==
  \/ /\ part = "access" /\ AccessNext
     /\ UNCHANGED <<part, limitVars, reportVars>>
  \/ /\ part = "limits" /\ LimitNext
     /\ UNCHANGED <<part, accessVars, reportVars>>
  \/ /\ part = "reports" /\ ReportsNext
     /\ UNCHANGED <<part, accessVars, limitVars>>

GuardSpec == GuardInit /\ [][GuardNext]_guardVars

Alike == Permutations(Requests) \cup Permutations(Devices) \cup Permutations(Challenges)
=============================================================================
