------------------------------ MODULE AdminCenter ------------------------------
(***************************************************************************)
(* The generic administration of registered models: new rows, change forms, *)
(* the editable list, registered actions, single and bulk deletion          *)
(* (admin_center/views.py, services.py, query.py, registry.py).             *)
(*                                                                         *)
(* One administrator works in several tabs that share a session; requests   *)
(* of the tabs run side by side, and other administrators and the program   *)
(* change the same rows.  A row has a field that forms edit and a secret    *)
(* that they show disabled.                                                 *)
(***************************************************************************)
EXTENDS Naturals, FiniteSets

CONSTANTS Objects,    \* rows of the model
          Tabs,       \* browser tabs of the administrator
          MaxBulk,    \* ADMIN_MAX_BULK_OPERATIONS
          MaxEdits,   \* new values written
          MaxOthers   \* steps of others

ASSUME CenterBounds == MaxBulk \in Nat /\ MaxEdits \in Nat /\ MaxOthers \in Nat

None == {}

VARIABLES rows,       \* rows that exist
          value,      \* the field forms edit
          secret,     \* a sensitive field
          protected,  \* rows a protecting reference points to
          deletable,  \* rows the administrator may delete
          changeable, \* rows the administrator may change
          selection,  \* paxalia_admin_delete_ids of the session
          tab,        \* the pages
          edits, others,  \* bounds
          rotated,    \* history: times each secret was set on purpose
          gone        \* history: what the last bulk deletion showed and removed

centerVars == <<rows, value, secret, protected, deletable, changeable, selection, tab,
                edits, others, rotated, gone>>

policy == <<protected, deletable, changeable>>
fields == <<value, secret>>
counts == <<edits, others, rotated>>

Values == 0..MaxEdits
Secrets == 0..(MaxEdits + MaxOthers)

Tab == [page: {"none", "list", "change", "saving", "delete", "bulk"},
        step: {"page", "plan", "delete", "forget"},  \* of a deletion
        shown: SUBSET Objects,            \* rows on the page
        picked: SUBSET Objects,           \* rows the confirmation is about
        allowed: SUBSET Objects,          \* history: rows that might be deleted when it was sent
        seen: [Objects -> Values],        \* their values, when it is a form or the list
        row: [Objects -> Values \X Secrets]]  \* rows as the request read them

CenterTypeOK ==
  /\ rows \subseteq Objects
  /\ value \in [Objects -> Values] /\ secret \in [Objects -> Secrets]
  /\ protected \subseteq Objects /\ deletable \subseteq Objects /\ changeable \subseteq Objects
  /\ selection \subseteq Objects
  /\ tab \in [Tabs -> Tab]
  /\ edits \in 0..MaxEdits /\ others \in 0..MaxOthers
  /\ rotated \in [Objects -> Secrets]
  /\ \A o \in Objects : rotated[o] <= edits + others
  /\ gone \in [shown: SUBSET Objects, removed: SUBSET Objects]

Blank == [page |-> "none", step |-> "page", shown |-> None, picked |-> None,
          allowed |-> None, seen |-> [o \in Objects |-> 0],
          row |-> [o \in Objects |-> <<0, 0>>]]

CenterInit ==
  /\ rows \in SUBSET Objects
  /\ value = [o \in Objects |-> 0] /\ secret = [o \in Objects |-> 0]
  /\ protected = None /\ deletable = Objects /\ changeable = Objects
  /\ selection = None /\ tab = [t \in Tabs |-> Blank]
  /\ edits = 0 /\ others = 0 /\ rotated = [o \in Objects |-> 0]
  /\ gone = [shown |-> None, removed |-> None]

Shows(t, page, S) ==
  tab' = [tab EXCEPT ![t] = [Blank EXCEPT !.page = page, !.shown = S]]

ShowsValues(t, page, S) ==
  tab' = [tab EXCEPT ![t] = [Blank EXCEPT !.page = page, !.shown = S,
                                          !.seen = [o \in Objects |->
                                                      IF o \in S THEN value[o] ELSE 0]]]

Leaves(t) == tab' = [tab EXCEPT ![t] = Blank]

-----------------------------------------------------------------------------
(* The list and the change form.                                           *)

\* model_changelist and model_change, without a submission.
ShowList(t) ==
  /\ tab[t].page = "none" /\ rows # None
  /\ ShowsValues(t, "list", rows)
  /\ UNCHANGED <<rows, fields, policy, selection, counts, gone>>

ShowForm(t, o) ==
  /\ tab[t].page = "none" /\ o \in rows \cap changeable
  /\ ShowsValues(t, "change", {o})
  /\ UNCHANGED <<rows, fields, policy, selection, counts, gone>>

\* model_add: a new row, with the values and the secret the form was given.
Add(o) ==
  /\ o \notin rows /\ edits < MaxEdits
  /\ rows' = rows \cup {o} /\ edits' = edits + 1
  /\ value' = [value EXCEPT ![o] = edits + 1]
  /\ rotated' = [rotated EXCEPT ![o] = @ + 1]
  /\ secret' = [secret EXCEPT ![o] = rotated[o] + 1]
  /\ UNCHANGED <<policy, selection, tab, others, gone>>

\* The submission: every row on the page must still be there and be changeable.
\* Submitted values that differ from the rows as read now count as edits, typed in
\* (S) or merely older.  The rows are saved later, with every field as read.
Submit(t, S) ==
  LET shown == tab[t].shown
      typed == IF S = None THEN 0 ELSE edits + 1
      submitted == [o \in Objects |-> IF o \in S THEN typed ELSE tab[t].seen[o]]
      changed == {o \in shown : submitted[o] # value[o]}
  IN /\ tab[t].page \in {"list", "change"} /\ S \subseteq shown
     /\ S # None => edits < MaxEdits
     /\ edits' = edits + IF S = None THEN 0 ELSE 1
     /\ IF shown \subseteq rows \cap changeable /\ Cardinality(shown) <= MaxBulk
        THEN tab' = [tab EXCEPT ![t] =
                       [Blank EXCEPT !.page = "saving", !.shown = changed,
                          !.row = [o \in Objects |-> IF o \in changed
                                                     THEN <<submitted[o], secret[o]>>
                                                     ELSE <<0, 0>>]]]
        ELSE Leaves(t)
     /\ UNCHANGED <<rows, fields, policy, selection, others, rotated, gone>>

\* save_model writes all fields of a row; a row deleted meanwhile is inserted again
\* by save(), under its key.
Save(t) ==
  LET S == tab[t].shown IN
  /\ tab[t].page = "saving"
  /\ value' = [o \in Objects |-> IF o \in S THEN tab[t].row[o][1] ELSE value[o]]
  /\ secret' = [o \in Objects |-> IF o \in S THEN tab[t].row[o][2] ELSE secret[o]]
  /\ rows' = rows \cup S
  /\ Leaves(t)
  /\ UNCHANGED <<policy, selection, counts, gone>>

\* Saving fails: the transaction rolls back.
SaveFails(t) ==
  /\ tab[t].page = "saving" /\ others < MaxOthers
  /\ others' = others + 1 /\ Leaves(t)
  /\ UNCHANGED <<rows, fields, policy, selection, edits, rotated, gone>>

\* execute_action: a registered action on rows that are all there and permitted.
Act(t, S) ==
  /\ tab[t].page = "list" /\ edits < MaxEdits
  /\ S # None /\ S \subseteq tab[t].shown /\ Cardinality(S) <= MaxBulk
  /\ S \subseteq rows \cap changeable
  /\ value' = [o \in Objects |-> IF o \in S THEN edits + 1 ELSE value[o]]
  /\ edits' = edits + 1 /\ Leaves(t)
  /\ UNCHANGED <<rows, secret, policy, selection, others, rotated, gone>>

-----------------------------------------------------------------------------
(* Deletion.                                                               *)

\* A tab goes on with its deletion.
Continues(t, step) == tab' = [tab EXCEPT ![t].step = step]

\* The selection will not be in the session any more when the request ends.
Forgets(t) == tab' = [tab EXCEPT ![t] = [Blank EXCEPT !.page = "bulk", !.step = "forget"]]

\* The slip of relying on the checks of the page.
PermittedWhenShown(S) == S \subseteq rows

\* Rows that are there and that the administrator may delete.
Permitted(S) == S \subseteq rows \cap deletable

ShowDelete(t, o) ==
  /\ tab[t].page = "none" /\ o \in rows \cap deletable
  /\ Shows(t, "delete", {o})
  /\ UNCHANGED <<rows, fields, policy, selection, counts, gone>>

\* delete_selected: the checked selection goes to the session.
SelectDelete(t, S) ==
  /\ tab[t].page = "list" /\ S # None /\ S \subseteq tab[t].shown
  /\ Cardinality(S) <= MaxBulk /\ Permitted(S)
  /\ selection' = S /\ Leaves(t)
  /\ UNCHANGED <<rows, fields, policy, counts, gone>>

\* model_bulk_delete: a selection with rows that are gone will be forgotten.
ShowBulk(t) ==
  /\ tab[t].page = "none" /\ selection # None
  /\ IF Permitted(selection) THEN Shows(t, "bulk", selection)
     ELSE Forgets(t)
  /\ UNCHANGED <<rows, fields, policy, selection, counts, gone>>

\* The confirmation is sent: rows and permissions are read.  That of a bulk
\* deletion names no rows: the session does.
Confirm(t) ==
  LET bulk == tab[t].page = "bulk"
      S == IF bulk THEN selection ELSE tab[t].shown
  IN /\ tab[t].page \in {"delete", "bulk"} /\ tab[t].step = "page"
     /\ IF S # None /\ Permitted(S)
        THEN tab' = [tab EXCEPT ![t].step = "plan", ![t].picked = S,
                                ![t].allowed = deletable]
        ELSE IF bulk /\ S # None THEN Forgets(t) ELSE Leaves(t)
     /\ UNCHANGED <<rows, fields, policy, selection, counts, gone>>

\* A single object is looked up once more; the plan of the deletion is made.  It asks
\* for permissions again, of which Django may answer those it read at first; a refused
\* plan shows the page again, which the tab may open itself.
Plan(t) ==
  LET S == tab[t].picked
      missing == tab[t].page = "delete" /\ ~(S \subseteq rows)
      blocked == S \cap protected # None
  IN /\ tab[t].step = "plan"
     /\ \/ ~missing /\ ~blocked /\ Continues(t, "delete")
        \/ (missing \/ blocked \/ ~(S \subseteq deletable)) /\ Leaves(t)
     /\ UNCHANGED <<rows, fields, policy, selection, counts, gone>>

\* perform_delete and perform_delete_queryset, a transaction: what is still there of
\* the rows goes.
Delete(t) ==
  LET S == tab[t].picked \cap rows IN
  /\ tab[t].step = "delete" /\ S \cap protected = None
  /\ rows' = rows \ S
  /\ IF tab[t].page = "bulk"
     THEN /\ Forgets(t)
          /\ gone' = [shown |-> tab[t].shown, removed |-> S]
     ELSE Leaves(t) /\ UNCHANGED gone
  /\ UNCHANGED <<fields, policy, selection, counts>>

\* It fails, as it does when a reference protects a row by now.
DeleteFails(t) ==
  /\ tab[t].step = "delete" /\ Leaves(t)
  /\ UNCHANGED <<rows, fields, policy, selection, counts, gone>>

\* The request ends, and its session is saved without a selection.
Forget(t) ==
  /\ tab[t].step = "forget"
  /\ selection' = None /\ Leaves(t)
  /\ UNCHANGED <<rows, fields, policy, counts, gone>>

-----------------------------------------------------------------------------
(* Others.                                                                 *)

Other == others < MaxOthers /\ others' = others + 1

\* The program itself sets a secret: a password is changed, a key is rotated.
Rotate(o) ==
  /\ Other /\ o \in rows
  /\ rotated' = [rotated EXCEPT ![o] = @ + 1]
  /\ secret' = [secret EXCEPT ![o] = rotated[o] + 1]
  /\ UNCHANGED <<rows, value, policy, selection, tab, edits, gone>>

\* Another administrator edits a row, deletes it, makes or removes a reference that
\* protects it, or takes a permission away.
Interfere(o) ==
  /\ Other /\ o \in rows
  /\ \/ /\ edits < MaxEdits /\ value' = [value EXCEPT ![o] = edits + 1] /\ edits' = edits + 1
        /\ UNCHANGED <<rows, policy>>
     \/ /\ o \notin protected /\ rows' = rows \ {o} /\ UNCHANGED <<value, edits, policy>>
     \/ /\ protected' = IF o \in protected THEN protected \ {o} ELSE protected \cup {o}
        /\ UNCHANGED <<rows, value, edits, deletable, changeable>>
     \/ /\ deletable' = deletable \ {o}
        /\ UNCHANGED <<rows, value, edits, protected, changeable>>
     \/ /\ changeable' = changeable \ {o}
        /\ UNCHANGED <<rows, value, edits, protected, deletable>>
  /\ UNCHANGED <<secret, selection, tab, rotated, gone>>

CenterNext ==
  \/ \E t \in Tabs :
       \/ ShowList(t) \/ Save(t) \/ SaveFails(t)
       \/ ShowBulk(t) \/ Confirm(t) \/ Plan(t)
       \/ Delete(t) \/ DeleteFails(t) \/ Forget(t)
       \/ \E o \in Objects : ShowForm(t, o) \/ ShowDelete(t, o)
       \/ \E S \in SUBSET Objects : Submit(t, S) \/ Act(t, S) \/ SelectDelete(t, S)
  \/ \E o \in Objects : Add(o) \/ Rotate(o) \/ Interfere(o)

CenterSpec == CenterInit /\ [][CenterNext]_centerVars

-----------------------------------------------------------------------------
(* Properties.                                                             *)

\* "Re-check the object and the deletion plan immediately before mutation": whatever
\* happens from the page or the selection to the transaction that deletes, and
\* whichever tab chose the rows, a deletion removes only rows that the administrator
\* might still delete when its confirmation was sent.
DeletedWasAllowed ==
  [][\A t \in Tabs : tab'[t] # tab[t] => rows \ rows' \subseteq tab[t].allowed]_centerVars

\* "Review the selection before confirming": a bulk deletion removes what its
\* confirmation page showed.
DeletedAsConfirmed == gone.removed \subseteq gone.shown

\* "Existing objects never echo or replace a stored secret through the generic
\* editor": the stored secret is the one that was set last.
SecretKept == \A o \in rows : secret[o] = rotated[o]

=============================================================================
