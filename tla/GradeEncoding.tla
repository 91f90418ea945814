---------------------------- MODULE GradeEncoding ----------------------------
(***************************************************************************)
(* A professor's page for one section (FacultyPortal.jsx) over the table   *)
(* of staged grades.                                                       *)
(*                                                                         *)
(* Every change on the server is announced, and each announcement makes    *)
(* the page load sections, grades and rosters anew; an announcement sent   *)
(* while the page is disconnected is lost.  Loads overlap, their answers   *)
(* are applied in whatever order they come, and a request that fails       *)
(* counts as an empty answer.  Saving sends one request per student, all   *)
(* at once; submitting saves first and then asks for the whole section.    *)
(* The buttons stay enabled meanwhile, so saves and submissions overlap,   *)
(* and what is left of a failed one may still be on its way.  Chairperson  *)
(* and registrar act on the rows, students enroll and drop, and the        *)
(* encoding period moves to the other term.                                *)
(*                                                                         *)
(* The encoding window is open throughout.  Flags and uploads are left out.*)
(***************************************************************************)
EXTENDS Naturals, FiniteSets

CONSTANTS
    Pupils,
    Marks,              \* grades a professor types
    Loads,              \* loads that may be under way at one time; at least one
    Jobs,               \* saves and submissions that may be; at least one
    MaxEncodingActs,    \* bound: what the professor does
    MaxEncodingChanges  \* bound: times the rows' statuses, the roster or the period change

ASSUME EncodingConstants == MaxEncodingChanges \in Nat

Unset == "none"
Terms == {"midterm", "finals"}
Grades == [midterm : Marks \cup {Unset}, finals : Marks \cup {Unset}]
Blank == [midterm |-> Unset, finals |-> Unset]

\* An approved row may have been forwarded too: the page does not tell.
StagedStatuses == {"draft", "submitted", "approved", "returned"}
StagedRows == [grades : Grades, status : StagedStatuses, at : 0..MaxEncodingChanges]
NoStagedRow == [grades |-> Blank, status |-> "none", at |-> 0]

VARIABLES
    stagedRows,   \* the server's staged row of each student
    enrolled,     \* the server's roster of the section
    period,       \* the term the server has open
    changes,      \* the server's time
    told,         \* an announcement the page has not acted on
    missed,       \* one was lost since the newest load began; read by properties only
    term,         \* the term the page is in
    sheet,        \* the grades the page shows, of the students it shows
    status,       \* the section's status on the page, for each term
    confirming,   \* the submit dialog is open
    encodingActs, \* what the professor has done so far
    jobs,         \* the saves and submissions under way, awaited by the page or not
    loads,        \* the loads under way
    newest,       \* the load started last, Unset before the first
    fresh         \* the page has applied the newest load, all of it, and nothing since

sectionVars == <<stagedRows, enrolled, period, changes>>
pageVars == <<term, sheet, status, confirming, encodingActs>>
loadVars == <<loads, newest, fresh>>
encodingVars == <<sectionVars, told, missed, pageVars, jobs, loadVars>>

NoJob == [kind |-> "none", term |-> "midterm", sent |-> <<>>, flying |-> {}, alone |-> TRUE]

\* whole: every request of the load was answered.
NoLoad == [stage |-> "none", term |-> "midterm", rows |-> <<>>, whole |-> TRUE]

Locked(st) == st \in {"submitted", "approved"}

-----------------------------------------------------------------------------
(* What a load makes of the server's rows.                                 *)

SheetPriority(st) ==
    CASE st = "draft" -> 0 [] st = "returned" -> 1 [] st = "submitted" -> 2 [] st = "approved" -> 3

\* Rows with a grade for the term that are no drafts speak for the section.
Speaking(rs, t) ==
    {s \in DOMAIN rs : rs[s].status \notin {"none", "draft"} /\ rs[s].grades[t] # Unset}

\* The latest of them decides, among equals the one furthest on.
SheetStatus(rs, t) ==
    LET latest == {s \in Speaking(rs, t) : \A r \in Speaking(rs, t) : rs[r].at <= rs[s].at}
    IN  IF latest = {} THEN "draft"
        ELSE CHOOSE st \in {rs[s].status : s \in latest} :
                 \A r \in latest : SheetPriority(rs[r].status) <= SheetPriority(st)

\* Mutant of Merged: only a draft lifts a lock.
MergedKeepsReturned(old, new) == IF Locked(old) /\ new # "draft" THEN old ELSE new

\* A lock is lifted only by a return or a draft.
Merged(old, new) == IF Locked(old) /\ new \notin {"returned", "draft"} THEN old ELSE new

\* What is typed stays only where the server has no grade.
Overlaid(s, g) ==
    IF s \in DOMAIN sheet
    THEN [t \in Terms |-> IF g[t] # Unset THEN g[t] ELSE sheet[s][t]]
    ELSE g

-----------------------------------------------------------------------------
(* The server.                                                             *)

Tick == changes < MaxEncodingChanges /\ changes' = changes + 1

Tell == told' = TRUE

\* Statuses of rows change together, at one time.
SetStatus(S, st) ==
    /\ Tick
    /\ stagedRows' = [s \in Pupils |->
           IF s \in S THEN [stagedRows[s] EXCEPT !.status = st, !.at = changes']
                      ELSE stagedRows[s]]
    /\ Tell
    /\ UNCHANGED <<enrolled, period>>

\* RecordGrade: the row becomes a draft, whatever it was.
Record(s, g) ==
    /\ stagedRows' = [stagedRows EXCEPT ![s] = [grades |-> g, status |-> "draft", at |-> 0]]
    /\ Tell
    /\ UNCHANGED <<enrolled, period, changes>>

Reviewed(s) ==
    \/ stagedRows[s].status = "submitted" /\ SetStatus({s}, "approved")
    \/ stagedRows[s].status \in {"submitted", "approved"} /\ SetStatus({s}, "returned")

Review(s) ==
    /\ Reviewed(s)
    /\ UNCHANGED <<missed, pageVars, jobs, loadVars>>

RosterChanges(S) ==
    /\ Tick
    /\ S # enrolled
    /\ enrolled' = S
    /\ Tell
    /\ UNCHANGED <<stagedRows, period, missed, pageVars, jobs, loadVars>>

PeriodMoves ==
    /\ Tick
    /\ period' \in Terms \ {period}
    /\ UNCHANGED <<stagedRows, enrolled, told, missed, pageVars, jobs, loadVars>>

-----------------------------------------------------------------------------
(* Loading.                                                                *)

Begun(t) == [NoLoad EXCEPT !.stage = "grades", !.term = t]

BeginLoad(l, t) ==
    /\ loads[l].stage = "none"
    /\ loads' = [loads EXCEPT ![l] = Begun(t)]
    /\ newest' = l
    /\ fresh' = FALSE
    /\ missed' = FALSE

\* The page hears of a change.  Two announcements may be heard as one.
Reload(l) ==
    /\ told
    /\ BeginLoad(l, term)
    /\ told' = FALSE
    /\ UNCHANGED <<sectionVars, pageVars, jobs>>

\* The connection is down when the change is announced; nobody announces it again.
AnnouncementLost ==
    /\ told
    /\ told' = FALSE
    /\ missed' = TRUE
    /\ UNCHANGED <<sectionVars, pageVars, jobs, loadVars>>

\* The professor comes back to the window.
Focus(l) ==
    /\ BeginLoad(l, term)
    /\ UNCHANGED <<sectionVars, told, pageVars, jobs>>

\* The page hears of the period; a load for the new term begins, older ones go on.
FollowPeriod(l) ==
    /\ term # period
    /\ term' = period
    /\ BeginLoad(l, period)
    /\ UNCHANGED <<sectionVars, told, sheet, status, confirming, encodingActs, jobs>>

\* No grade at all is what the page makes of a request that fails.
NoRows == [s \in Pupils |-> NoStagedRow]

ReadGrades(l) ==
    /\ loads[l].stage = "grades"
    /\ \/ loads' = [loads EXCEPT ![l].stage = "roster", ![l].rows = stagedRows]
       \/ loads' = [loads EXCEPT ![l].stage = "roster", ![l].rows = NoRows, ![l].whole = FALSE]
    /\ UNCHANGED <<sectionVars, told, missed, pageVars, jobs, newest, fresh>>

\* What the page shows once a load has brought rows and a roster; the status of the
\* other term starts over.
Show(d, roster) ==
    /\ sheet' = [s \in roster |-> Overlaid(s, d.rows[s].grades)]
    /\ status' = [t \in Terms |->
           Merged(status[t], IF t = d.term THEN SheetStatus(d.rows, t) ELSE "draft")]

\* The section is not among those the page was given: all it knew of it is forgotten.
Forget ==
    /\ sheet' = <<>>
    /\ status' = [t \in Terms |-> "draft"]

\* The roster is read after the grades; one that fails is empty.  If the request for the
\* sections failed the page has none, and one it has open cannot be drawn (Reopen).
Apply(l) ==
    LET d == loads[l]
    IN  /\ d.stage = "roster"
        /\ \/ Show(d, enrolled) /\ fresh' = (l = newest /\ d.whole)
           \/ (Show(d, {}) \/ Forget) /\ fresh' = FALSE
        /\ loads' = [loads EXCEPT ![l] = NoLoad]
        /\ UNCHANGED <<sectionVars, told, missed, term, confirming, encodingActs, jobs, newest>>

-----------------------------------------------------------------------------
(* Encoding and saving.                                                    *)

EncodingAct == encodingActs < MaxEncodingActs /\ encodingActs' = encodingActs + 1

Editable == ~Locked(status[term])

Type(s, m) ==
    /\ EncodingAct
    /\ Editable /\ s \in DOMAIN sheet
    /\ sheet[s][term] # m
    /\ sheet' = [sheet EXCEPT ![s][term] = m]
    /\ UNCHANGED <<sectionVars, told, missed, term, status, confirming, jobs, loadVars>>

\* Whatever else is under way.  alone: no save but its own has been on its way since the
\* job began; read by a property only.
StartJob(j, kind) ==
    /\ EncodingAct
    /\ jobs[j] = NoJob /\ sheet # <<>>
    /\ jobs' = [k \in Jobs |->
           IF k = j
           THEN [kind |-> kind, term |-> term, sent |-> sheet, flying |-> DOMAIN sheet,
                 alone |-> \A i \in Jobs : jobs[i].flying = {}]
           ELSE IF jobs[k] = NoJob THEN NoJob ELSE [jobs[k] EXCEPT !.alone = FALSE]]
    /\ UNCHANGED <<sectionVars, told, missed, term, sheet, status, confirming, loadVars>>

SaveSheet(j) == Editable /\ StartJob(j, "save")

\* Submission is blocked while a student lacks the term's grade.
AskToSubmit ==
    /\ Editable /\ ~confirming
    /\ \A s \in DOMAIN sheet : sheet[s][term] # Unset
    /\ confirming' = TRUE
    /\ UNCHANGED <<sectionVars, told, missed, term, sheet, status, encodingActs, jobs, loadVars>>

Cancel ==
    /\ confirming
    /\ confirming' = FALSE
    /\ UNCHANGED <<sectionVars, told, missed, term, sheet, status, encodingActs, jobs, loadVars>>

\* Nothing is asked again when the dialog is confirmed.
Confirm(j) == confirming /\ StartJob(j, "submit")

SaveArrives(j, s) ==
    /\ s \in jobs[j].flying /\ jobs[j].kind # "failed"
    /\ Record(s, jobs[j].sent[s])
    /\ jobs' = [jobs EXCEPT ![j].flying = @ \ {s}]
    /\ UNCHANGED <<missed, pageVars, loadVars>>

\* What is left of a job nobody awaits: the saves that are still on their way.
Rest(d, flying) ==
    IF flying = {} THEN NoJob
    ELSE [kind |-> "failed", term |-> "midterm", sent |-> d.sent, flying |-> flying,
          alone |-> FALSE]

\* One request fails, or its answer is lost: the handler ends with an alert while the
\* others are still on their way, and each of those arrives or fails.
SaveFails(j, s) ==
    /\ s \in jobs[j].flying
    /\ \/ UNCHANGED <<sectionVars, told>>
       \/ Record(s, jobs[j].sent[s])
    /\ jobs' = [jobs EXCEPT ![j] = Rest(@, @.flying \ {s})]
    /\ UNCHANGED <<missed, pageVars, loadVars>>

\* The page takes the answers as the section's status for the term it was saved in.
Conclude(j, st) ==
    /\ status' = [status EXCEPT ![jobs[j].term] = st]
    /\ jobs' = [jobs EXCEPT ![j] = NoJob]
    /\ fresh' = FALSE

Saved(j) ==
    /\ jobs[j].kind = "save" /\ jobs[j].flying = {}
    /\ Conclude(j, "draft")
    /\ UNCHANGED <<sectionVars, told, missed, term, sheet, confirming, encodingActs, loads, newest>>

\* Mutant of AllSaved: the section is submitted along with the saves.
AllSavedOrNot(j) == jobs[j].kind \in {"submit", "late"}

\* The section is submitted once every save is answered; late, the page awaits it no more.
AllSaved(j) == jobs[j].kind \in {"submit", "late"} /\ jobs[j].flying = {}

\* SubmitSection: every row of the section, whatever its status.
SubmitRows == SetStatus({s \in Pupils : stagedRows[s] # NoStagedRow}, "submitted")

SubmitArrives(j) ==
    /\ AllSaved(j)
    /\ SubmitRows
    /\ jobs' = [jobs EXCEPT ![j] =
           IF @.kind = "late" THEN NoJob ELSE [@ EXCEPT !.kind = "submitted"]]
    /\ UNCHANGED <<missed, pageVars, loadVars>>

Submitted(j) ==
    /\ jobs[j].kind = "submitted"
    /\ Conclude(j, "submitted")
    /\ confirming' = FALSE
    /\ UNCHANGED <<sectionVars, told, missed, term, sheet, encodingActs, loads, newest>>

\* A job the page awaits no more.
Left(d) ==
    IF d.kind \in {"submit", "late"} /\ d.flying = {} THEN [d EXCEPT !.kind = "late"]
    ELSE Rest(d, d.flying)

\* The submission is lost or late, or its answer is: an alert, and the dialog stays.
SubmitFails(j) ==
    /\ AllSaved(j) \/ jobs[j].kind = "submitted"
    /\ \E d \in {NoJob, Left(jobs[j])} : jobs' = [jobs EXCEPT ![j] = d]
    /\ UNCHANGED <<sectionVars, told, missed, pageVars, loadVars>>

\* The professor loads the page anew, as it must be when its open section is gone.  It
\* keeps the statuses it showed and waits for no answer.
Reopen(l) ==
    /\ term' = "midterm" /\ sheet' = <<>> /\ confirming' = FALSE
    /\ jobs' = [j \in Jobs |-> Left(jobs[j])]
    /\ loads' = [k \in Loads |-> IF k = l THEN Begun("midterm") ELSE NoLoad]
    /\ newest' = l /\ fresh' = FALSE
    /\ told' = FALSE /\ missed' = FALSE
    /\ UNCHANGED <<sectionVars, status, encodingActs>>

-----------------------------------------------------------------------------
EncodingInit ==
    /\ stagedRows = [s \in Pupils |-> NoStagedRow]
    /\ enrolled = {} /\ period = "midterm" /\ changes = 0
    /\ told = TRUE /\ missed = FALSE
    /\ term = "midterm" /\ sheet = <<>> /\ confirming = FALSE /\ encodingActs = 0
    /\ status = [t \in Terms |-> "draft"]
    /\ jobs = [j \in Jobs |-> NoJob]
    /\ loads = [l \in Loads |-> NoLoad]
    /\ newest = Unset
    /\ fresh = FALSE

EncodingNext ==
    \/ \E s \in Pupils : Review(s)
    \/ \E S \in SUBSET Pupils : RosterChanges(S)
    \/ PeriodMoves
    \/ AnnouncementLost
    \/ \E l \in Loads : \/ Reload(l) \/ Focus(l) \/ FollowPeriod(l) \/ Reopen(l)
                        \/ ReadGrades(l) \/ Apply(l)
    \/ \E s \in Pupils, m \in Marks : Type(s, m)
    \/ AskToSubmit \/ Cancel
    \/ \E j \in Jobs : \/ SaveSheet(j) \/ Confirm(j)
                       \/ \E s \in Pupils : SaveArrives(j, s) \/ SaveFails(j, s)
                       \/ Saved(j) \/ SubmitArrives(j) \/ Submitted(j) \/ SubmitFails(j)

EncodingSpec == EncodingInit /\ [][EncodingNext]_encodingVars

-----------------------------------------------------------------------------
(* Properties.                                                             *)

\* Rows, sheet, statuses and requests have their types.
EncodingTypeOK ==
    /\ stagedRows \in [Pupils -> StagedRows \cup {NoStagedRow}]
    /\ enrolled \subseteq Pupils /\ period \in Terms /\ term \in Terms
    /\ status \in [Terms -> StagedStatuses]
    /\ DOMAIN sheet \subseteq Pupils
    /\ \A s \in DOMAIN sheet : sheet[s] \in Grades
    /\ \A j \in Jobs : jobs[j].flying \subseteq DOMAIN jobs[j].sent
    /\ told \in BOOLEAN /\ missed \in BOOLEAN

\* A submission carries what the professor sent with it: when it is granted, every
\* student on the sheet it was made from has the row the sheet had, although its saves
\* are answered in any order, chairperson and registrar act on rows meanwhile, and the
\* page may have been loaded anew.  It is not so, and not said, of a submission made or
\* going on while a save of another click is on its way, which the buttons allow: that
\* one may be the last to reach a row.
SubmittedAsSent ==
    [][\A j \in Jobs : SubmitArrives(j) /\ jobs[j].alone =>
          \A s \in DOMAIN jobs[j].sent : stagedRows'[s].grades = jobs[j].sent[s]]_encodingVars

\* A load repairs the page: when the newest one was answered whole and applied last, and
\* no change was announced since, the page locks the section exactly if the server's rows
\* do, whatever was shown, lost or answered out of order before.  Until then it may not:
\* a load whose request for the grades failed shows a submitted section as a draft, and
\* a lost announcement is made up for only by the next load.
LoadsRepair ==
    fresh /\ ~told /\ ~missed => (Locked(status[term]) <=> Locked(SheetStatus(stagedRows, term)))

\* "Submission Blocked: All students in the section must have Midterm grades encoded
\* before submitting to the Chairperson": no grade of a submission is missing.
SubmittedAreGraded ==
    [][\A j \in Jobs : SubmitArrives(j) =>
          \A s \in DOMAIN jobs[j].sent : jobs[j].sent[s][jobs[j].term] # Unset]_encodingVars
=============================================================================
