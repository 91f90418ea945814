---------------------------- MODULE ReviewPages ----------------------------
(***************************************************************************)
(* The chairperson's review of a section (DeptAdminGradesView.jsx,         *)
(* SectionReviewPanel.jsx) and the registrar's commit queue                *)
(* (RegistrarGradesView.jsx) over the section's grades.                    *)
(*                                                                         *)
(* Each page acts on the grades it last loaded.  A click sends one request *)
(* per grade, awaits each before the next, and gives up at the first that  *)
(* fails; the section meanwhile has one status on the page, that of its    *)
(* latest grade, and the buttons go by that status.                        *)
(*                                                                         *)
(* A second click while the first one's requests are under way is left     *)
(* out, and so is the grade itself: GradeStaging is about grades.          *)
(***************************************************************************)
EXTENDS Naturals, FiniteSets

CONSTANTS
    Class,
    MaxReviewSaves    \* bound: grades saved and sections submitted

ASSUME ReviewConstants == IsFiniteSet(Class)

Pages == {"chair", "registrar"}
LastRank == Cardinality(Class)

\* Dates of rows matter by their order only; rank 0 is the earliest.  Statuses as the
\* pages read them: "forwarded" is DepartmentApproved, "final" is on the ledger only.
Statuses == {"draft", "returned", "submitted", "approved", "forwarded", "final"}
NoRow == [status |-> "none", at |-> 0]
Rows == [status : Statuses, at : 0..LastRank] \cup {NoRow}

VARIABLES
    rows,    \* each student's grade, staged or on the ledger
    seen,    \* the statuses each page last loaded
    shown,   \* the section's status on the chairperson's page
    batch,   \* the click each page is working on
    saves    \* what the professor has done so far

reviewVars == <<rows, seen, shown, batch, saves>>

NoBatch == [kind |-> "none", took |-> {}, todo |-> {}]

-----------------------------------------------------------------------------
(* The section's status.                                                   *)

Reads(st) == CASE st = "draft" -> "pending" [] st = "final" -> "forwarded" [] OTHER -> st

Priority(st) ==
    CASE st = "pending" -> 0 [] st = "returned" -> 1 [] st = "submitted" -> 2
      [] st = "approved" -> 3 [] st = "forwarded" -> 4

Present(rs) == {s \in Class : rs[s] # NoRow}

\* The latest row decides, among equals the one furthest on.
SectionStatus(rs) ==
    LET latest == {s \in Present(rs) : \A r \in Present(rs) : rs[r].at <= rs[s].at}
    IN  IF latest = {} THEN "none"
        ELSE CHOOSE st \in {Reads(rs[s].status) : s \in latest} :
                 \A r \in latest : Priority(Reads(rs[r].status)) <= Priority(st)

-----------------------------------------------------------------------------
(* The server.                                                             *)

\* Everything else keeps its order when the rows of S are dated anew.
Rank(S, s) ==
    LET earlier == {r \in Class \ S : 0 < rows[r].at /\ rows[r].at <= rows[s].at}
    IN  Cardinality({rows[r].at : r \in earlier})

Dated(S, st, at) ==
    rows' = [s \in Class |-> IF s \in S THEN [status |-> st, at |-> at]
                                ELSE [rows[s] EXCEPT !.at = Rank(S, s)]]

Now(S, st) == Dated(S, st, LastRank)

\* A date without a time is midnight: before what happened that day, after what
\* happened on days before.
Today(S, st) == Dated(S, st, 0) \/ Dated(S, st, LastRank)

ReviewAct == saves < MaxReviewSaves /\ saves' = saves + 1

\* The professor saves a grade; one on the ledger is staged apart, and not here.
Save(s) ==
    /\ rows[s].status # "final"
    /\ Today({s}, "draft")
    /\ ReviewAct
    /\ UNCHANGED <<seen, shown, batch>>

\* SubmitSection: all staged rows at one time, whatever their status.
Submit ==
    /\ \E s \in Class : rows[s].status \notin {"none", "final"}
    /\ Now({s \in Class : rows[s].status \notin {"none", "final"}}, "submitted")
    /\ ReviewAct
    /\ UNCHANGED <<seen, shown, batch>>

\* Mutant of Accepts: committing a grade that is back with the chairperson is no error.
AcceptsStale(kind) ==
    CASE kind = "approve" -> {"submitted", "approved"}
      [] kind = "forward" -> {"approved", "forwarded"}
      [] kind = "return"  -> {"submitted", "approved"}
      [] kind = "commit"  -> {"submitted", "approved", "forwarded", "final"}

\* The statuses in which the server grants a request.
Accepts(kind) ==
    CASE kind = "approve" -> {"submitted", "approved"}
      [] kind = "forward" -> {"approved", "forwarded"}
      [] kind = "return"  -> {"submitted", "approved"}
      [] kind = "commit"  -> {"forwarded", "final"}

\* Approving what is approved, and so on, changes nothing.
ServeGrade(kind, s) ==
    /\ rows[s].status \in Accepts(kind)
    /\ CASE kind = "approve" /\ rows[s].status = "submitted" -> Now({s}, "approved")
         [] kind = "forward" /\ rows[s].status = "approved"  -> Now({s}, "forwarded")
         [] kind = "return"                                  -> Now({s}, "returned")
         [] kind = "commit" /\ rows[s].status = "forwarded"  -> Today({s}, "final")
         [] OTHER -> UNCHANGED rows

-----------------------------------------------------------------------------
(* The pages.                                                              *)

\* The registrar's queue has the forwarded grades; the chairperson's list has all, but
\* without the ledger's when the ledger could not be read.
Load(p) ==
    LET missing == [s \in Class |-> IF rows[s].status = "final" THEN NoRow ELSE rows[s]]
    IN  \E rs \in IF p = "chair" THEN {rows, missing} ELSE {rows} :
            /\ seen' = [seen EXCEPT ![p] = [s \in Class |-> rs[s].status]]
            /\ shown' = IF p = "chair" THEN SectionStatus(rs) ELSE shown
            /\ UNCHANGED <<rows, batch, saves>>

\* The buttons of the review panel.
Enabled(kind) ==
    CASE kind = "approve" -> shown \notin {"none", "forwarded"}
      [] kind = "return"  -> shown \notin {"none", "forwarded"}
      [] kind = "forward" -> shown = "approved"

\* The grades of the page's list a click is for.
Takes(kind) ==
    CASE kind = "approve" -> {"submitted"}
      [] kind = "forward" -> {"submitted", "approved", "forwarded"}
      [] kind = "return"  -> {"submitted", "approved", "forwarded"}
      [] kind = "commit"  -> {"forwarded"}

BeginClick(p, kind) ==
    LET took == {s \in Class : seen[p][s] \in Takes(kind)}
    IN  /\ batch[p] = NoBatch
        /\ batch' = [batch EXCEPT ![p] = [kind |-> kind, took |-> took, todo |-> took]]
        /\ UNCHANGED <<rows, seen, shown, saves>>

Click(kind) == Enabled(kind) /\ BeginClick("chair", kind)

ClickCommit ==
    /\ \E s \in Class : seen["registrar"][s] = "forwarded"
    /\ BeginClick("registrar", "commit")

\* The list is in the order of the database: any.
Granted(p) ==
    /\ \E s \in batch[p].todo :
          /\ ServeGrade(batch[p].kind, s)
          /\ batch' = [batch EXCEPT ![p].todo = @ \ {s}]
    /\ UNCHANGED <<seen, shown, saves>>

\* A grade in another status, a lost request or a lost answer: the click is over, with
\* an error.
Failed(p) ==
    /\ \E s \in batch[p].todo : UNCHANGED rows \/ ServeGrade(batch[p].kind, s)
    /\ batch' = [batch EXCEPT ![p] = NoBatch]
    /\ UNCHANGED <<seen, shown, saves>>

\* "Section approved successfully!", and so on.
Reported(p) ==
    /\ batch[p].kind # "none" /\ batch[p].todo = {}
    /\ batch' = [batch EXCEPT ![p] = NoBatch]
    /\ UNCHANGED <<rows, seen, shown, saves>>

-----------------------------------------------------------------------------
ReviewInit ==
    /\ rows = [s \in Class |-> NoRow]
    /\ seen = [p \in Pages |-> [s \in Class |-> "none"]]
    /\ shown = "none"
    /\ batch = [p \in Pages |-> NoBatch]
    /\ saves = 0

ReviewNext ==
    \/ \E s \in Class : Save(s)
    \/ Submit
    \/ \E kind \in {"approve", "forward", "return"} : Click(kind)
    \/ ClickCommit
    \/ \E p \in Pages : Load(p) \/ Granted(p) \/ Failed(p) \/ Reported(p)

ReviewSpec == ReviewInit /\ [][ReviewNext]_reviewVars

-----------------------------------------------------------------------------
(* Properties.                                                             *)

\* Rows, lists and clicks have their types.
ReviewTypeOK ==
    /\ rows \in [Class -> Rows]
    /\ seen \in [Pages -> [Class -> Statuses \cup {"none"}]]
    /\ shown \in {"none", "pending", "returned", "submitted", "approved", "forwarded"}
    /\ \A p \in Pages : batch[p].todo \subseteq batch[p].took /\ batch[p].took \subseteq Class

\* "Section grades officially committed to the ledger!": each grade the registrar
\* committed so far is on the ledger, although grades are saved, submitted and returned
\* between the load of the queue and each request.
CommitIsTrue ==
    batch["registrar"].kind = "commit" =>
        \A s \in batch["registrar"].took \ batch["registrar"].todo : rows[s].status = "final"

\* "Forwarded to Registrar": a section that is shown as such, by a page that is up to
\* date and idle, has no grade that waits to be forwarded.  The buttons of such a section
\* are disabled.
ForwardedSectionsAreWhole ==
    (/\ shown = "forwarded" /\ batch["chair"] = NoBatch
     /\ seen["chair"] = [s \in Class |-> rows[s].status])
        => \A s \in Class : rows[s].status # "approved"
=============================================================================
