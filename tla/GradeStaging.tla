---------------------------- MODULE GradeStaging ----------------------------
(***************************************************************************)
(* The grade workflow of the web application (GradeController.cs): a grade *)
(* is encoded, submitted, approved and forwarded as a row of the table     *)
(* pending_grade_records, and the registrar's finalization carries the row *)
(* to the ledger by up to three separate transactions and deletes it.      *)
(*                                                                         *)
(* Database statements and ledger calls are atomic; a handler that makes   *)
(* several of them is a request that goes through one per step, and other  *)
(* requests run in between.  The chaincode itself is module Chaincode.     *)
(***************************************************************************)
EXTENDS Chaincode

CONSTANTS
    Professor, Chair, Registrar,  \* the certificates the application acts with
    Slots,      \* (student, subject, school year, semester, section) keys of one section
    StudentOf,  \* the student of the slot a record id is drawn for
    Requests,   \* multi-step handlers that may be running at once
    Reasons,    \* notes of registrar corrections; none if empty
    Suspect,    \* ids of records with a text (a note, a name) that may contain "error"
    MaxVersion, \* bound: no registrar correction of a record past this version
    MaxFaults   \* bound: lost reads, lost calls, timeouts and crashes

NoSlot == "no slot"

ASSUME StagingAssumption ==
    /\ {Professor, Chair, Registrar} \subseteq Certs
    /\ MayIssue(Professor) /\ MayApprove(Chair) /\ IsRegistrar(Registrar)
    /\ Reasons \subseteq Notes /\ Suspect \subseteq RecordIds
    /\ NoSlot \notin Slots
    /\ StudentOf \in [RecordIds -> Students]
    /\ MaxVersion \in Nat /\ MaxFaults \in Nat

VARIABLES
    staged,    \* pending_grade_records: slot -> row
    slotOf,    \* record id -> the slot it was made for
    world,     \* the ledger's world state
    late,      \* ledger transactions whose caller has given up waiting
    requests,  \* the handlers that are between two steps
    faults,    \* how many faults of the bound are used up
    (* History of the run, read by the properties only. *)
    forwarded, \* the <<id, grade>> that stood in a row with status DepartmentApproved
    written,   \* the <<function, id, grade>> of each IssueGrade and UpdateGrade committed
    everFinal, \* the ids that have been Finalized on the ledger
    log        \* gradecorrectionlogs: <<id, grade, what was done>> of each correction logged

ledgerVars == <<world, written, everFinal>>
tableVars  == <<staged, slotOf, forwarded>>
vars == <<tableVars, ledgerVars, late, requests, faults, log>>

-----------------------------------------------------------------------------
(* Rows and requests.                                                      *)

NoRow == [id |-> NoId, grade |-> NoGrade, status |-> "None"]

Row == [id : RecordIds, grade : Grades,
        status : {"Draft", "SubmittedToChairperson", "ChairpersonApproved",
                  "DepartmentApproved", "Returned", "Corrected"}]

Staged(id) == {s \in Slots : staged[s].id = id}
Fresh == {id \in RecordIds \ {GenesisId} : slotOf[id] = NoSlot}

\* Replace the rows of the slots in rows, a function from slots to rows.
SetRows(rows) ==
    /\ staged' = [s \in Slots |-> IF s \in DOMAIN rows THEN rows[s] ELSE staged[s]]
    /\ forwarded' = forwarded \cup
           {<<rows[s].id, rows[s].grade>> :
               s \in {s \in DOMAIN rows : rows[s].status = "DepartmentApproved"}}

SetStatus(S, status) == SetRows([s \in S |-> [staged[s] EXCEPT !.status = status]])

\* A handler at work: its ledger calls still to make and the data it carries, with
\* the slot of an import or the reason of a registrar's correction.
Request(op, id, grade, about, calls) ==
    [op |-> op, id |-> id, grade |-> grade, about |-> about, calls |-> calls]
Idle == Request("none", NoId, NoGrade, NoNote, <<>>)

Start(q, r) == requests[q] = Idle /\ requests' = [requests EXCEPT ![q] = r]
Stop(q)     == requests' = [requests EXCEPT ![q] = Idle]
Busy(q, op) == requests[q].op = op

Init ==
    /\ staged   = [s \in Slots |-> NoRow]
    /\ slotOf   = [id \in RecordIds |-> NoSlot]
    /\ world    = [k \in Keys |-> Absent]
    /\ late     = {}
    /\ requests = [q \in Requests |-> Idle]
    /\ faults  \in 0..MaxFaults
    /\ forwarded = {} /\ written = {} /\ everFinal = {} /\ log = {}

-----------------------------------------------------------------------------
(* Handlers that are one statement on the table.                           *)

\* Encode a grade: the row of the slot keeps its id and whatever its status was
\* becomes a draft again; a slot without a row gets one with a new id.
RecordGrade(s, g) ==
    /\ \E id \in IF staged[s] # NoRow THEN {staged[s].id} ELSE Fresh :
           /\ SetRows(Put(s, [id |-> id, grade |-> g, status |-> "Draft"]))
           /\ slotOf' = [slotOf EXCEPT ![id] = s]
    /\ UNCHANGED <<ledgerVars, late, requests, faults, log>>

\* Submit every row of the section, whatever its status.
SubmitSection ==
    /\ LET rows == {s \in Slots : staged[s] # NoRow}
       IN  rows # {} /\ SetStatus(rows, "SubmittedToChairperson")
    /\ UNCHANGED <<ledgerVars, late, requests, faults, slotOf, log>>

ApproveStaged(s) ==
    /\ staged[s].status = "SubmittedToChairperson"
    /\ SetStatus({s}, "ChairpersonApproved")
    /\ UNCHANGED <<ledgerVars, late, requests, faults, slotOf, log>>

\* Mutant of ForwardStaged: another name for the status.
ForwardStagedMisnamed(s) ==
    /\ staged[s].status = "ChairpersonApproved"
    /\ SetStatus({s}, "Approved")
    /\ UNCHANGED <<ledgerVars, late, requests, faults, slotOf, log>>

\* FinalizeGrade of a chairperson.
ForwardStaged(s) ==
    /\ staged[s].status = "ChairpersonApproved"
    /\ SetStatus({s}, "DepartmentApproved")
    /\ UNCHANGED <<ledgerVars, late, requests, faults, slotOf, log>>

\* The registrar returns forwarded rows, a chairperson rows before that.
ReturnStaged(s) ==
    /\ staged[s].status \in
           {"SubmittedToChairperson", "ChairpersonApproved", "DepartmentApproved"}
    /\ SetStatus({s}, "Returned")
    /\ UNCHANGED <<ledgerVars, late, requests, faults, slotOf, log>>

-----------------------------------------------------------------------------
(* Handlers that start by reading and write later.                         *)

\* FlagGrade and UpdateAcademicStatus read the grade payload, edit it and write it back.
StartEdit(q, s) ==
    /\ staged[s] # NoRow
    /\ Start(q, Request("edit", staged[s].id, staged[s].grade, NoNote, <<>>))
    /\ UNCHANGED <<tableVars, ledgerVars, late, faults, log>>

\* The write names the row by id and puts the payload read, changed only in its
\* flags, under whatever status the row has by now.
WriteEdit(q) ==
    /\ Busy(q, "edit")
    /\ LET r == requests[q]
       IN  SetRows([s \in Staged(r.id) |-> [staged[s] EXCEPT !.grade = r.grade]])
    /\ Stop(q)
    /\ UNCHANGED <<ledgerVars, late, faults, slotOf, log>>

\* CorrectGrade by the professor while the row is staged: look for the row, update the
\* row of that id, and log the correction, which LogCorrection does.
StartCorrection(q, s, g) ==
    /\ staged[s] # NoRow
    /\ Start(q, Request("correct row", staged[s].id, g, NoNote, <<>>))
    /\ UNCHANGED <<tableVars, ledgerVars, late, faults, log>>

\* An update of no row is no error: the handler goes on to log the correction.
WriteCorrection(q) ==
    /\ Busy(q, "correct row")
    /\ LET r == requests[q]
       IN  /\ SetRows([s \in Staged(r.id) |->
                         [staged[s] EXCEPT !.grade = r.grade, !.status = "Corrected"]])
           /\ requests' = [requests EXCEPT ![q].op =
                              IF Staged(r.id) # {} THEN "log row" ELSE "log nothing"]
    /\ UNCHANGED <<ledgerVars, late, faults, slotOf, log>>

\* A bulk upload fetches the ledger's grades first and remembers the id of a record
\* of the slot; if the fetch fails it goes on without.
StartImport(q, s, g) ==
    /\ LET found == {id \in RecordIds : slotOf[id] = s /\ Exists(world, id)}
       IN  \/ /\ \E id \in IF found = {} THEN {NoId} ELSE found :
                     Start(q, Request("import", id, g, s, <<>>))
              /\ UNCHANGED faults
           \/ /\ found # {} /\ faults < MaxFaults
              /\ faults' = faults + 1
              /\ Start(q, Request("import", NoId, g, s, <<>>))
    /\ UNCHANGED <<tableVars, ledgerVars, late, log>>

\* The row takes the id of the staged row, else of the ledger's record, else a new one.
WriteImport(q) ==
    /\ Busy(q, "import")
    /\ LET r == requests[q]
           s == r.about
       IN  \E id \in IF staged[s] # NoRow THEN {staged[s].id}
                     ELSE IF r.id # NoId THEN {r.id} ELSE Fresh :
               /\ SetRows(Put(s, [id |-> id, grade |-> r.grade, status |-> "Draft"]))
               /\ slotOf' = [slotOf EXCEPT ![id] = s]
    /\ Stop(q)
    /\ UNCHANGED <<ledgerVars, late, faults, log>>

-----------------------------------------------------------------------------
(* Handlers that call the ledger.                                          *)

\* Mutant of StartFinalize: any row will do.
StartFinalizeUnchecked(q, s) ==
    /\ staged[s] # NoRow
    /\ Start(q, Request("read ledger", staged[s].id, staged[s].grade, NoNote, <<>>))
    /\ UNCHANGED <<tableVars, ledgerVars, late, faults, log>>

\* FinalizeGrade of a registrar: the row is read once, and must be forwarded.
StartFinalize(q, s) ==
    /\ staged[s].status = "DepartmentApproved"
    /\ Start(q, Request("read ledger", staged[s].id, staged[s].grade, NoNote, <<>>))
    /\ UNCHANGED <<tableVars, ledgerVars, late, faults, log>>

\* Mutant of CallsToFinalize: a retry issues the grade again.
CallsToFinalizeAgain(status) == <<"IssueGrade", "ApproveGrade", "FinalizeRecord">>

\* The calls that take a ledger record in this status to Finalized.
CallsToFinalize(status) ==
    (IF status = "Absent" THEN <<"IssueGrade">> ELSE <<>>)
    \o (IF status # "DepartmentApproved" THEN <<"ApproveGrade">> ELSE <<>>)
    \o <<"FinalizeRecord">>

\* A record that is final already only needs its row cleaned up.  A failed read counts
\* as an absent record, and so does an answer with the word "error" anywhere in it.
PlanFinalize(q) ==
    /\ Busy(q, "read ledger")
    /\ LET r == requests[q]
           plan(op, calls) ==
               requests' = [requests EXCEPT ![q].op = op, ![q].calls = calls]
       IN  \/ /\ IF world[r.id].status = "Finalized" THEN plan("clean up", <<>>)
                 ELSE plan("finalize", CallsToFinalize(world[r.id].status))
              /\ UNCHANGED faults
           \/ /\ Exists(world, r.id)
              /\ \/ r.id \in Suspect /\ UNCHANGED faults
                 \/ faults < MaxFaults /\ faults' = faults + 1
              /\ plan("finalize", CallsToFinalize("Absent"))
    /\ UNCHANGED <<tableVars, ledgerVars, late, log>>

\* FinalizeGrade of a registrar for a record that is on the ledger only.
StartFinalizeOnLedger(q, id) ==
    /\ Staged(id) = {} /\ Exists(world, id) /\ world[id].status # "Finalized"
    /\ Start(q, Request("ledger only", id, NoGrade, NoNote, <<"FinalizeRecord">>))
    /\ UNCHANGED <<tableVars, ledgerVars, late, faults, log>>

\* ApproveGrade of a chairperson for a record that is on the ledger only.
StartApproveOnLedger(q, id) ==
    /\ Staged(id) = {} /\ Exists(world, id)
    /\ Start(q, Request("approve", id, NoGrade, NoNote, <<"ApproveGrade">>))
    /\ UNCHANGED <<tableVars, ledgerVars, late, faults, log>>

\* CorrectGrade and SubmitFinals of a professor for a ledger record.
StartUpdateOnLedger(q, id, g) ==
    /\ Exists(world, id)
    /\ Start(q, Request("update", id, g, NoNote, <<"UpdateGrade">>))
    /\ UNCHANGED <<tableVars, ledgerVars, late, faults, log>>

\* FlagGrade of a professor for a record that is on the ledger only: the grade it
\* reads is sent back with the flag.
StartFlagOnLedger(q, id) ==
    /\ Staged(id) = {} /\ Exists(world, id)
    /\ Start(q, Request("flag", id, world[id].grade, NoNote, <<"UpdateGrade">>))
    /\ UNCHANGED <<tableVars, ledgerVars, late, faults, log>>

\* CorrectFinalizedGradeAsRegistrar.
StartRegistrarCorrection(q, id, g, reason) ==
    /\ world[id].status = "Finalized" /\ world[id].version < MaxVersion
    /\ Start(q, Request("correct", id, g, reason,
                        <<"ReturnGrade", "UpdateGrade", "ApproveGrade", "FinalizeRecord">>))
    /\ UNCHANGED <<tableVars, ledgerVars, late, faults, log>>

\* The invocation a request sends for its next call, with the certificate of its actor.
Invocation(r) ==
    LET fn == Head(r.calls)
        cert == CASE fn = "IssueGrade" \/ r.op \in {"update", "flag"} -> Professor
                  [] r.op = "approve" -> Chair
                  [] OTHER            -> Registrar
    IN  CASE fn = "IssueGrade" ->
               [fn |-> fn, cert |-> cert, id |-> r.id, student |-> StudentOf[r.id],
                grade |-> r.grade]
          [] fn = "UpdateGrade" ->
               [fn |-> fn, cert |-> cert, id |-> r.id, grade |-> r.grade]
          [] fn = "ReturnGrade" ->
               [fn |-> fn, cert |-> cert, id |-> r.id, note |-> r.about]
          [] OTHER -> [fn |-> fn, cert |-> cert, id |-> r.id]

Outcome(i) == Execute(world, CHOOSE t \in TxIds : TRUE, i)

\* The ledger commits the accepted transaction of the invocation i.
Commit(i) ==
    /\ world' = [k \in Keys |->
                    IF k \in DOMAIN Outcome(i).writes THEN Outcome(i).writes[k] ELSE world[k]]
    /\ written' = IF i.fn \in {"IssueGrade", "UpdateGrade"}
                  THEN written \cup {<<i.fn, i.id, i.grade>>} ELSE written
    /\ everFinal' = IF world'[i.id].status = "Finalized"
                    THEN everFinal \cup {i.id} ELSE everFinal

Calling(q) == requests[q].calls # <<>>

CallAccepted(q) ==
    /\ Calling(q)
    /\ Outcome(Invocation(requests[q])).ok
    /\ Commit(Invocation(requests[q]))
    /\ requests' = [requests EXCEPT ![q].calls = Tail(@)]
    /\ UNCHANGED <<tableVars, late, faults, log>>

\* The first rejected call ends the handler; what was committed before it stays.
CallRejected(q) ==
    /\ Calling(q)
    /\ ~Outcome(Invocation(requests[q])).ok
    /\ Stop(q)
    /\ UNCHANGED <<tableVars, ledgerVars, late, faults, log>>

\* The call is endorsed, but the handler's HTTP request times out and ends it.
CallTimesOut(q) ==
    /\ Calling(q) /\ faults < MaxFaults
    /\ LET i == Invocation(requests[q])
       IN  /\ Outcome(i).ok
           /\ late' = late \cup {[inv |-> i, read |-> world[i.id]]}
    /\ faults' = faults + 1
    /\ Stop(q)
    /\ UNCHANGED <<tableVars, ledgerVars, log>>

\* A transaction nobody waits for is ordered: it is valid if what it read is current.
CommitLate(m) ==
    /\ late' = late \ {m}
    /\ IF world[m.inv.id] = m.read THEN Commit(m.inv) ELSE UNCHANGED ledgerVars
    /\ UNCHANGED <<tableVars, requests, faults, log>>

\* The process dies, or a call fails before it is endorsed.
Crash(q) ==
    /\ requests[q] # Idle /\ faults < MaxFaults
    /\ faults' = faults + 1
    /\ Stop(q)
    /\ UNCHANGED <<tableVars, ledgerVars, late, log>>

\* Mutant of DeleteStaged: the row goes before the ledger has answered.
DeleteStagedEarly(q) ==
    /\ Busy(q, "finalize") \/ Busy(q, "clean up")
    /\ SetRows([s \in Staged(requests[q].id) |-> NoRow])
    /\ Stop(q)
    /\ UNCHANGED <<ledgerVars, late, faults, slotOf, log>>

\* The last step of both ways to finalize: delete the row, whatever it holds by now.
DeleteStaged(q) ==
    /\ Busy(q, "finalize") \/ Busy(q, "clean up")
    /\ ~Calling(q)
    /\ SetRows([s \in Staged(requests[q].id) |-> NoRow])
    /\ Stop(q)
    /\ UNCHANGED <<ledgerVars, late, faults, slotOf, log>>

\* The handlers that log a correction when their calls are made.
Logging == {"correct", "update", "log row", "log nothing"}

\* Mutant of LogCorrection: the log is written before the ledger calls.
LogCorrectionEarly(q) ==
    /\ requests[q].op \in Logging
    /\ LET r == requests[q]
       IN  log' = log \cup {<<r.id, r.grade, r.op>>}
    /\ Stop(q)
    /\ UNCHANGED <<tableVars, ledgerVars, late, faults>>

\* The last step of a correction: log it and report success.
LogCorrection(q) ==
    /\ requests[q].op \in Logging
    /\ ~Calling(q)
    /\ LET r == requests[q]
       IN  log' = log \cup {<<r.id, r.grade, r.op>>}
    /\ Stop(q)
    /\ UNCHANGED <<tableVars, ledgerVars, late, faults>>

Respond(q) ==
    /\ Busy(q, "ledger only") \/ Busy(q, "approve") \/ Busy(q, "flag")
    /\ ~Calling(q)
    /\ Stop(q)
    /\ UNCHANGED <<tableVars, ledgerVars, late, faults, log>>

-----------------------------------------------------------------------------

\* A request's own next step.
Proceed(q) ==
    \/ WriteEdit(q) \/ WriteCorrection(q) \/ WriteImport(q)
    \/ PlanFinalize(q) \/ CallAccepted(q) \/ CallRejected(q)
    \/ DeleteStaged(q) \/ LogCorrection(q) \/ Respond(q)

Begin(q) ==
    \/ \E s \in Slots : StartEdit(q, s) \/ StartFinalize(q, s)
    \/ \E s \in Slots, g \in Grades : StartCorrection(q, s, g) \/ StartImport(q, s, g)
    \/ \E id \in RecordIds : \/ StartFinalizeOnLedger(q, id) \/ StartApproveOnLedger(q, id)
                            \/ StartFlagOnLedger(q, id)
    \/ \E id \in RecordIds, g \in Grades : StartUpdateOnLedger(q, id, g)
    \/ \E id \in RecordIds, g \in Grades, n \in Reasons :
           StartRegistrarCorrection(q, id, g, n)

Next ==
    \/ \E s \in Slots, g \in Grades : RecordGrade(s, g)
    \/ SubmitSection
    \/ \E s \in Slots : ApproveStaged(s) \/ ForwardStaged(s) \/ ReturnStaged(s)
    \/ \E q \in Requests : Begin(q) \/ Proceed(q) \/ CallTimesOut(q) \/ Crash(q)
    \/ \E m \in late : CommitLate(m)

Spec == Init /\ [][Next]_vars

\* A running handler goes on, and the registrar keeps trying to finalize a row that
\* is again and again ready for it.
Fairness ==
    /\ \A q \in Requests : WF_vars(Proceed(q))
    /\ \A s \in Slots : SF_vars(\E q \in Requests : StartFinalize(q, s))

FairSpec == Spec /\ Fairness

-----------------------------------------------------------------------------
(* Properties.                                                             *)

\* Rows, requests and ledger values have their shape, and a row sits in its slot.
TypeOK ==
    /\ staged \in [Slots -> Row \cup {NoRow}]
    /\ slotOf \in [RecordIds -> Slots \cup {NoSlot}]
    /\ \A s \in Slots : staged[s] # NoRow => slotOf[staged[s].id] = s
    /\ world \in World
    /\ \A q \in Requests : requests[q].calls # <<>> =>
           Invocation(requests[q]) \in Invocations
    /\ faults \in 0..MaxFaults

\* Whatever fails, times out or interleaves, no record disappears: an id that was
\* once staged is still staged or has reached Finalized on the ledger.
NothingVanishes ==
    \A id \in RecordIds :
        slotOf[id] # NoSlot => Staged(id) # {} \/ id \in everFinal

\* The grade of a ledger record is one that was forwarded to the registrar in a row
\* of that record, or one that a correction on the ledger put there.
LedgerGradesWereForwarded ==
    \A id \in RecordIds : Exists(world, id) =>
        \/ <<id, world[id].grade>> \in forwarded
        \/ <<"UpdateGrade", id, world[id].grade>> \in written

\* A correction in the log put its grade on the ledger, although its transactions are
\* separate calls that fail one by one, or into a staged row.  The one false entry
\* there can be is of a row that was finalized, and deleted, after the handler found it.
LoggedCorrectionsHappened ==
    \A e \in log :
        \/ e[3] = "log row"
        \/ e[3] = "log nothing" /\ e[1] \in everFinal
        \/ <<"UpdateGrade", e[1], e[2]>> \in written

\* After any failure of a finalization the registrar can press the button again: a
\* forwarded row leaves that state, and if nobody takes it back it gets finalized.
\* It does not hold of a record whose text makes every read of it look like an error,
\* nor of one that was final before: a registrar's correction that stopped half-way may
\* have left it Returned, and then the ledger refuses what finalizing asks for.
Forwarded(id) == \E s \in Staged(id) : staged[s].status = "DepartmentApproved"

RetryFinishes ==
    \A id \in RecordIds \ Suspect : Forwarded(id) ~> ~Forwarded(id) \/ id \in everFinal

\* The grade was written to the ledger at some time.
Written(id, g) == \E fn \in {"IssueGrade", "UpdateGrade"} : <<fn, id, g>> \in written

\* A row cleaned up as stale holds nothing that did not reach the ledger.
CleanedUpRowsAreStale ==
    [][\A q \in Requests, s \in Slots :
          (/\ Busy(q, "clean up") /\ requests'[q] = Idle
           /\ staged[s].id = requests[q].id /\ staged'[s] = NoRow)
              => Written(staged[s].id, staged[s].grade)]_vars

\* When a finalization reports success, the grade it was asked to finalize has been
\* written to the ledger.
FinalizedGradeIsOnLedger ==
    [][\A q \in Requests, s \in Slots :
          (/\ Busy(q, "finalize") /\ requests'[q] = Idle
           /\ staged[s].id = requests[q].id /\ staged'[s] = NoRow)
              => Written(requests[q].id, requests[q].grade)]_vars

\* While a row stands as approved by the chairperson, or forwarded on that approval,
\* its grade is the one that was approved.
ApprovedGradesStay ==
    [][\A s \in Slots :
          {staged[s].status, staged'[s].status} \subseteq
              {"ChairpersonApproved", "DepartmentApproved"}
                  => staged'[s].grade = staged[s].grade]_vars
=============================================================================
