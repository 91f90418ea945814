----------------------------- MODULE Chaincode -----------------------------
(***************************************************************************)
(* The grade smart contract (chaincode/main.go) as pure functions.         *)
(*                                                                         *)
(* Fabric runs a chaincode function by simulating it on the committed      *)
(* world state: the function reads keys, may reject the call, and leaves a *)
(* set of writes that take effect only if the transaction is committed.    *)
(* Here a function of the contract is an operator from a world state w, a  *)
(* transaction id t and an invocation i to                                 *)
(*      [ok |-> was it accepted, writes |-> key :> value of each PutState] *)
(* GradeLedger applies the writes at once, FabricLedger between simulation *)
(* and commit, and GradeStaging calls the functions from the web handlers. *)
(***************************************************************************)
EXTENDS Integers, Sequences

CONSTANTS
    RecordIds,  \* ids of academic records
    GenesisId,  \* the id "GENESIS-001"
    TxIds,      \* Fabric transaction ids; an audit event is stored under its own
    Grades,     \* non-empty grade payloads
    Notes,      \* revision notes
    Certs,      \* X.509 certificates: [cn, msp, role]
    Batches,    \* argument lists of IssueBatchGrades
    Students    \* the students grades are issued to, by the common name in student_hash

NoGrade    == ""        \* the empty string of main.go's checks
NoId       == ""
NoName     == ""
NoNote     == ""
System     == "system"  \* FacultyID of the genesis record
GenesisGrade == "1.00"
GenesisStudent == "genesis.student"

Names == {c.cn : c \in Certs}

BatchItem == [id : RecordIds \cup {NoId}, student : Students, grade : Grades \cup {NoGrade},
              version : Int]

ASSUME ChaincodeAssumption ==
    /\ GenesisId \in RecordIds
    /\ RecordIds \cap TxIds = {}
    /\ NoId \notin RecordIds
    /\ GenesisGrade \in Grades
    /\ NoGrade \notin Grades
    /\ NoNote \notin Notes
    /\ Certs \subseteq [cn : STRING \ {NoName, System}, msp : STRING, role : STRING]
    /\ Batches \subseteq Seq(BatchItem)
    /\ Students \subseteq STRING

-----------------------------------------------------------------------------
(* Values of the world state.                                              *)

Statuses == {"Issued", "Returned", "Corrected", "DepartmentApproved", "Finalized"}

Record == [status : Statuses, student : Students \cup {GenesisStudent}, grade : Grades,
           note : Notes \cup {NoNote}, version : Nat \ {0}, faculty : Names \cup {System},
           submitter : Names \cup {NoName}]

\* An audit event is stored under "AUDIT:" and its transaction id, a name no record
\* has: hence RecordIds \cap TxIds = {}.

\* An audit event of one of the five supported types; its content is not modelled.
AuditEvent == [status |-> "Audit"]

Absent == [status |-> "Absent"]

Keys  == RecordIds \cup TxIds
Value == Record \cup {AuditEvent, Absent}
World == [Keys -> Value]

Exists(w, k) == w[k].status # "Absent"

-----------------------------------------------------------------------------
(* What clients may ask for.  The note a client sends with a new grade is  *)
(* left out: only the note of a Returned record is ever compared.          *)

IssueInvocations    == [fn : {"IssueGrade"}, cert : Certs, id : RecordIds,
                        student : Students, grade : Grades \cup {NoGrade}]
BatchInvocations    == [fn : {"IssueBatchGrades"}, cert : Certs, batch : Batches]
ReturnInvocations   == [fn : {"ReturnGrade"}, cert : Certs, id : RecordIds, note : Notes]
UpdateInvocations   == [fn : {"UpdateGrade"}, cert : Certs, id : RecordIds,
                        grade : Grades \cup {NoGrade}]
ApproveInvocations  == [fn : {"ApproveGrade"}, cert : Certs, id : RecordIds]
FinalizeInvocations == [fn : {"FinalizeRecord"}, cert : Certs, id : RecordIds]
InitInvocations     == [fn : {"InitLedger"}, cert : Certs]
ResetInvocations    == [fn : {"ResetLedgerToGenesis"}, cert : Certs, confirmed : BOOLEAN]
AuditInvocations    == [fn : {"CreateAuditEvent"}, cert : Certs,
                        supported : BOOLEAN, complete : BOOLEAN]

Invocations ==
    UNION {IssueInvocations, BatchInvocations, ReturnInvocations, UpdateInvocations,
           ApproveInvocations, FinalizeInvocations, InitInvocations,
           ResetInvocations, AuditInvocations}

-----------------------------------------------------------------------------
(* Who the caller is (OBAC and ABAC).                                      *)

RoleMatchesMSP(c) ==
    \/ c.msp = "RegistrarMSP"  /\ c.role \in {"registrar", "student"}
    \/ c.msp = "FacultyMSP"    /\ c.role = "faculty"
    \/ c.msp = "DepartmentMSP" /\ c.role \in {"department_admin", "deptAdmin"}

IsRegistrar(c) == c.msp = "RegistrarMSP" /\ c.role = "registrar"
IsDeptAdmin(c) == c.msp = "DepartmentMSP" /\ c.role \in {"department_admin", "deptAdmin"}

\* Mutant of MayIssue: the role list is dropped.
MayIssueAnyRole(c) == RoleMatchesMSP(c)

MayIssue(c)    == RoleMatchesMSP(c) /\ c.role \in {"faculty", "department_admin", "deptAdmin"}

\* Approval knows "department_admin" only, not its alias "deptAdmin".
MayApprove(c)  == \/ c.msp = "DepartmentMSP" /\ c.role = "department_admin"
                  \/ IsRegistrar(c)

-----------------------------------------------------------------------------
(* Outcomes.                                                               *)

Reject        == [ok |-> FALSE, writes |-> <<>>]
Accept(wr)    == [ok |-> TRUE, writes |-> wr]
Put(k, v)     == [x \in {k} |-> v]
Unwritten     == [x \in {} |-> Absent]
\* The outcome of a function that rejects unless allowed holds.
When(allowed, wr) == IF allowed THEN Accept(wr) ELSE Reject

\* Mutant of StampRecord: the last actor replaces the submitter.
StampRecordAlways(submitter, actor) == actor

\* stampRecord on the fields modelled: SubmittedBy is filled once, never replaced.
StampRecord(submitter, actor) == IF submitter = NoName THEN actor ELSE submitter

Genesis == [status |-> "Finalized", student |-> GenesisStudent, grade |-> GenesisGrade,
            note |-> NoNote, version |-> 1, faculty |-> System, submitter |-> NoName]

Issued(c, p, g, v) == [status |-> "Issued", student |-> p, grade |-> g, note |-> NoNote,
                       version |-> v, faculty |-> c.cn, submitter |-> c.cn]

\* One transition of an existing record: the next version with a status, grade and note.
Advance(r, status, grade, note, actor) ==
    [status |-> status, student |-> r.student, grade |-> grade, note |-> note,
     version |-> r.version + 1, faculty |-> r.faculty,
     submitter |-> StampRecord(r.submitter, actor)]

-----------------------------------------------------------------------------
(* The functions of the contract.                                          *)

\* InitLedger checks nothing: it puts the genesis record over whatever is there.
InitLedger(w, t, i) == Accept(Put(GenesisId, Genesis))

IssueGrade(w, t, i) ==
    When(/\ MayIssue(i.cert)
         /\ i.grade # NoGrade
         /\ ~Exists(w, i.id),
         Put(i.id, Issued(i.cert, i.student, i.grade, 1)))

\* Mutant of BatchVersion: the client's version is stored as it is.
BatchVersionRaw(item) == item.version

\* A batch item may bring its own version; what is not positive becomes 1.
BatchVersion(item) == IF item.version <= 0 THEN 1 ELSE item.version

\* Items without an id are skipped; one bad item rejects the whole batch.
IssueBatchGrades(w, t, i) ==
    LET b    == i.batch
        used == {n \in DOMAIN b : b[n].id # NoId}
        item(id) == b[CHOOSE n \in used : b[n].id = id]
    IN  When(/\ MayIssue(i.cert)
             /\ \A m, n \in used : b[m].id = b[n].id => m = n
             /\ \A n \in used : b[n].grade # NoGrade /\ ~Exists(w, b[n].id),
             [id \in {b[n].id : n \in used} |->
                 Issued(i.cert, item(id).student, item(id).grade, BatchVersion(item(id)))])

ReturnableBy(c) ==
    {"Issued", "Corrected", "DepartmentApproved"}
        \cup (IF IsRegistrar(c) THEN {"Finalized"} ELSE {})

\* Repeating a return with the same note succeeds and writes nothing.
ReturnGrade(w, t, i) ==
    LET r == w[i.id]
        already == r.status = "Returned" /\ r.note = i.note
    IN  When(/\ IsDeptAdmin(i.cert) \/ IsRegistrar(i.cert)
             /\ Exists(w, i.id)
             /\ already \/ r.status \in ReturnableBy(i.cert),
             IF already THEN Unwritten
             ELSE Put(i.id, Advance(r, "Returned", r.grade, i.note, i.cert.cn)))

\* Only a returned grade is corrected, by the professor who issued it or an office.
UpdateGrade(w, t, i) ==
    LET r == w[i.id]
    IN  When(/\ RoleMatchesMSP(i.cert) /\ i.cert.role # "student"
             /\ i.grade # NoGrade
             /\ Exists(w, i.id)
             /\ r.status = "Returned"
             /\ \/ r.faculty = i.cert.cn
                \/ i.cert.role \in {"department_admin", "deptAdmin", "registrar"},
             Put(i.id, Advance(r, "Corrected", i.grade, r.note, i.cert.cn)))

ApproveGrade(w, t, i) ==
    LET r == w[i.id]
    IN  When(/\ MayApprove(i.cert)
             /\ Exists(w, i.id)
             /\ r.status \in {"Issued", "Corrected", "DepartmentApproved"},
             IF r.status = "DepartmentApproved" THEN Unwritten
             ELSE Put(i.id, Advance(r, "DepartmentApproved", r.grade, r.note, i.cert.cn)))

FinalizeRecord(w, t, i) ==
    LET r == w[i.id]
    IN  When(/\ IsRegistrar(i.cert)
             /\ Exists(w, i.id)
             /\ r.status \in {"DepartmentApproved", "Finalized"},
             IF r.status = "Finalized" THEN Unwritten
             ELSE Put(i.id, Advance(r, "Finalized", r.grade, r.note, i.cert.cn)))

\* Deletes every key but the genesis record, audit events included.
ResetLedgerToGenesis(w, t, i) ==
    When(/\ i.confirmed
         /\ IsRegistrar(i.cert)
         /\ Exists(w, GenesisId),
         [k \in {k \in Keys \ {GenesisId} : Exists(w, k)} |-> Absent])

CreateAuditEvent(w, t, i) ==
    When(/\ IsRegistrar(i.cert)
         /\ i.supported
         /\ i.complete,
         Put(t, AuditEvent))

Execute(w, t, i) ==
    CASE i.fn = "InitLedger"           -> InitLedger(w, t, i)
      [] i.fn = "ResetLedgerToGenesis" -> ResetLedgerToGenesis(w, t, i)
      [] i.fn = "IssueGrade"           -> IssueGrade(w, t, i)
      [] i.fn = "IssueBatchGrades"     -> IssueBatchGrades(w, t, i)
      [] i.fn = "ReturnGrade"          -> ReturnGrade(w, t, i)
      [] i.fn = "UpdateGrade"          -> UpdateGrade(w, t, i)
      [] i.fn = "ApproveGrade"         -> ApproveGrade(w, t, i)
      [] i.fn = "FinalizeRecord"       -> FinalizeRecord(w, t, i)
      [] i.fn = "CreateAuditEvent"     -> CreateAuditEvent(w, t, i)

\* Mutants of ReadSet: a reset that reads only the genesis record, not the range it
\* deletes; a batch that checks only its first id; calls that check nothing.
ReadSetNoRange(i) ==
    IF i.fn = "ResetLedgerToGenesis" THEN {GenesisId}
    ELSE IF i.fn = "IssueBatchGrades" THEN {i.batch[n].id : n \in DOMAIN i.batch} \ {NoId}
    ELSE IF i.fn \in {"InitLedger", "CreateAuditEvent"} THEN {} ELSE {i.id}
ReadSetFirst(i) ==
    IF i.fn = "ResetLedgerToGenesis" THEN Keys
    ELSE IF i.fn = "IssueBatchGrades" THEN {i.batch[1].id}
    ELSE IF i.fn \in {"InitLedger", "CreateAuditEvent"} THEN {} ELSE {i.id}
ReadSetEmpty(i) == {}

\* The keys an accepted call read: GetState of each id it names, the whole range
\* for a reset, none for the two functions that write blindly.
ReadSet(i) ==
    CASE i.fn \in {"InitLedger", "CreateAuditEvent"} -> {}
      [] i.fn = "ResetLedgerToGenesis"               -> Keys
      [] i.fn = "IssueBatchGrades" -> {i.batch[n].id : n \in DOMAIN i.batch} \ {NoId}
      [] OTHER                                       -> {i.id}

-----------------------------------------------------------------------------
(* What a student's transaction list calls a status.                       *)

GradeTransactionType(status) ==
    CASE status = "Issued"             -> "GRADE_SUBMITTED"
      [] status = "Returned"           -> "GRADE_RETURNED"
      [] status = "Corrected"          -> "GRADE_REVISED"
      [] status = "DepartmentApproved" -> "GRADE_APPROVED"
      [] status = "Finalized"          -> "GRADE_FINALIZED"
      [] OTHER                         -> "GRADE_UPDATED"
=============================================================================
