---------------------------- MODULE GradeLedger ----------------------------
(***************************************************************************)
(* The ledger the contract promises: every transaction runs alone, against *)
(* the world state its predecessor left.  This is the specification that   *)
(* FabricLedger, with its simulation and validation phases, implements.    *)
(*                                                                         *)
(* A transaction the contract rejects is never ordered, so only accepted   *)
(* calls are steps.  The finite set TxIds bounds their number.             *)
(***************************************************************************)
EXTENDS Chaincode

VARIABLES
    world,    \* the state database: key -> current value
    history,  \* the history database: key -> what each transaction wrote there
    used      \* ids of the transactions in the chain

vars == <<world, history, used>>

Entry == [tx : TxIds, cert : Certs, value : Value]

Init ==
    /\ world   = [k \in Keys |-> Absent]
    /\ history = [k \in Keys |-> <<>>]
    /\ used    = {}

\* Put the writes wr of the transaction t, signed with certificate c, in the chain.
Commit(t, c, wr) ==
    /\ world' = [k \in Keys |-> IF k \in DOMAIN wr THEN wr[k] ELSE world[k]]
    /\ history' = [k \in Keys |->
           IF k \in DOMAIN wr
           THEN Append(history[k], [tx |-> t, cert |-> c, value |-> wr[k]])
           ELSE history[k]]
    /\ used' = used \cup {t}

Submit(t, i, outcome) ==
    /\ t \notin used
    /\ outcome.ok
    /\ Commit(t, i.cert, outcome.writes)

-----------------------------------------------------------------------------
(* One action per function of the contract that changes the ledger.        *)

DoInitLedger(t) ==
    \E i \in InitInvocations : Submit(t, i, InitLedger(world, t, i))

DoResetLedgerToGenesis(t) ==
    \E i \in ResetInvocations : Submit(t, i, ResetLedgerToGenesis(world, t, i))

DoIssueGrade(t) ==
    \E i \in IssueInvocations : Submit(t, i, IssueGrade(world, t, i))

DoIssueBatchGrades(t) ==
    \E i \in BatchInvocations : Submit(t, i, IssueBatchGrades(world, t, i))

DoReturnGrade(t) ==
    \E i \in ReturnInvocations : Submit(t, i, ReturnGrade(world, t, i))

DoUpdateGrade(t) ==
    \E i \in UpdateInvocations : Submit(t, i, UpdateGrade(world, t, i))

DoApproveGrade(t) ==
    \E i \in ApproveInvocations : Submit(t, i, ApproveGrade(world, t, i))

DoFinalizeRecord(t) ==
    \E i \in FinalizeInvocations : Submit(t, i, FinalizeRecord(world, t, i))

DoCreateAuditEvent(t) ==
    \E i \in AuditInvocations : Submit(t, i, CreateAuditEvent(world, t, i))

Transaction(t) ==
    \/ DoInitLedger(t)
    \/ DoResetLedgerToGenesis(t)
    \/ DoIssueGrade(t)
    \/ DoIssueBatchGrades(t)
    \/ DoReturnGrade(t)
    \/ DoUpdateGrade(t)
    \/ DoApproveGrade(t)
    \/ DoFinalizeRecord(t)
    \/ DoCreateAuditEvent(t)

Next == \E t \in TxIds : Transaction(t)

Spec == Init /\ [][Next]_vars

-----------------------------------------------------------------------------
(* What the read-only functions report about the history.                  *)

\* Mutant of Live: the check of the student in each entry is dropped.
LiveOfAnyone(h, name) ==
    LET live[n \in 0..Len(h)] ==
            IF n = 0 THEN <<>>
            ELSE IF h[n].value.status = "Absent" THEN live[n - 1]
                 ELSE Append(live[n - 1], h[n])
    IN  live[Len(h)]

\* The entries a student is shown of a key's history: those that are no deletion and
\* of a record of that student's.
Live(h, name) ==
    LET live[n \in 0..Len(h)] ==
            IF n = 0 THEN <<>>
            ELSE IF h[n].value.status = "Absent" \/ h[n].value.student # name
                 THEN live[n - 1]
                 ELSE Append(live[n - 1], h[n])
    IN  live[Len(h)]

\* getStudentTransactions: every write of every record the student now has.  Fabric's
\* history iterator hands out the newest entry first, and nothing sorts them after it.
StudentTransactions(c) ==
    [id \in {id \in RecordIds : Exists(world, id) /\ world[id].student = c.cn} |->
        LET live == Live(history[id], c.cn)
        IN  [n \in DOMAIN live |->
                LET e == live[Len(live) + 1 - n]
                IN  [type |-> GradeTransactionType(e.value.status), record |-> e.value]]]

-----------------------------------------------------------------------------
(* Properties.                                                             *)

\* Every key holds a value of its kind and the history only entries.
TypeOK ==
    /\ world \in World
    /\ history \in [Keys -> Seq(Entry)]
    /\ used \subseteq TxIds

\* The edges of the record's life cycle, in the order status, next status.
Transitions ==
    {<<"Issued", "Returned">>, <<"Issued", "DepartmentApproved">>,
     <<"Corrected", "Returned">>, <<"Corrected", "DepartmentApproved">>,
     <<"DepartmentApproved", "Returned">>, <<"DepartmentApproved", "Finalized">>,
     <<"Finalized", "Returned">>, <<"Returned", "Corrected">>}

\* What one transaction may make of the record r: exactly one edge and one version,
\* the grade only in a correction, the note only in a return, the student and the owner never.
Succeeds(r, s) ==
    /\ <<r.status, s.status>> \in Transitions
    /\ s.version = r.version + 1
    /\ s.student = r.student
    /\ s.faculty = r.faculty
    /\ s.submitter # r.submitter => r.submitter = NoName
    /\ s.grade # r.grade => s.status = "Corrected"
    /\ s.note # r.note => s.status = "Returned"

\* How the value at key k may follow the value u there.
MayFollow(k, u, v) ==
    \/ u.status \in Statuses /\ v.status \in Statuses /\ Succeeds(u, v)
    \/ u = Absent /\ v.status = IF k \in RecordIds THEN "Issued" ELSE "Audit"
    \/ v = Absent /\ u # Absent /\ k # GenesisId
    \/ k = GenesisId /\ v = Genesis

\* The value at key k before its nth entry.
Before(k, n) == IF n = 1 THEN Absent ELSE history[k][n - 1].value

\* No update is lost or invented: along the history of every key each value follows
\* from the one just before it by one legal step of the contract.
HistoryIsLegal ==
    \A k \in Keys : \A n \in DOMAIN history[k] :
        MayFollow(k, Before(k, n), history[k][n].value)

\* Every finalized grade was signed by a registrar right after that very grade,
\* in the same hands, was approved by an office entitled to approve it, and at
\* least one other certificate than the registrar's worked on the record.
FinalGradesWereApproved ==
    \A id \in RecordIds \ {GenesisId} : \A n \in DOMAIN history[id] :
        LET e == history[id][n]
            p == history[id][n - 1]
        IN  e.value.status = "Finalized" =>
                /\ n > 1
                /\ e.cert.msp = "RegistrarMSP" /\ e.cert.role = "registrar"
                /\ \/ p.cert.msp = "RegistrarMSP" /\ p.cert.role = "registrar"
                   \/ p.cert.msp = "DepartmentMSP" /\ p.cert.role = "department_admin"
                /\ p.value.status = "DepartmentApproved"
                /\ p.value.grade = e.value.grade
                /\ p.value.faculty = e.value.faculty
                /\ \E m \in 1..(n - 1) : history[id][m].cert # e.cert

\* What a student is shown of a record is a path of the life cycle, newest step first,
\* and the student's own: the list of getStudentTransactions begins with the record as
\* it is and ends with a GRADE_SUBMITTED, below a GRADE_FINALIZED stands always the
\* GRADE_APPROVED of the same grade, and nothing in it is of the student who had the
\* id before a reset.
StudentSeesALegalPath ==
    \A c \in Certs : (c.msp = "RegistrarMSP" /\ c.role = "student") =>
        \A id \in DOMAIN StudentTransactions(c) \ {GenesisId} :
            LET list == StudentTransactions(c)[id]
            IN  /\ list # <<>>
                /\ list[1].record = world[id]
                /\ list[Len(list)].type = "GRADE_SUBMITTED"
                /\ \A n \in DOMAIN list :
                       /\ list[n].record.student = c.cn
                       /\ list[n].type = "GRADE_FINALIZED" =>
                              /\ list[n + 1].type = "GRADE_APPROVED"
                              /\ list[n + 1].record.grade = list[n].record.grade

\* A finalized record stays as it is, or is deleted with all others by a reset.
FinalizedIsImmutable ==
    [][\A id \in RecordIds \ {GenesisId} :
          world[id].status = "Finalized" => world'[id] \in {world[id], Absent}]_vars
=============================================================================
