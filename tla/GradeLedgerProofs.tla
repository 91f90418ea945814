------------------------- MODULE GradeLedgerProofs -------------------------
(***************************************************************************)
(* Proofs about GradeLedger, for every set of records, certificates,       *)
(* grades and notes.                                                       *)
(*                                                                         *)
(* One lemma per function of the contract says that its writes are well    *)
(* typed and legal successors of what was there (OutcomeOK).  One lemma    *)
(* says that committing such writes preserves the inductive invariant.     *)
(***************************************************************************)
EXTENDS GradeLedger, SetInduction, TLAPS

(***************************************************************************)
(* An entry signed by a certificate entitled to write it.                  *)
(***************************************************************************)
SignedRight(k, c, v) ==
    /\ v.status = "Issued" => MayIssue(c)
    /\ v.status = "DepartmentApproved" => MayApprove(c)
    /\ (v.status = "Finalized" /\ k # GenesisId) => IsRegistrar(c)

(***************************************************************************)
(* What the lemmas establish of an outcome o of an accepted call on w:     *)
(* it writes legal, rightly signed successors, and of the keys that are    *)
(* transaction ids only its own and those that are taken already.          *)
(***************************************************************************)
OutcomeOK(w, t, c, o) ==
    /\ DOMAIN o.writes \subseteq Keys
    /\ \A k \in DOMAIN o.writes :
        /\ k \in RecordIds \cup {t} \/ Exists(w, k)
        /\ o.writes[k] \in Value
        /\ MayFollow(k, w[k], o.writes[k])
        /\ SignedRight(k, c, o.writes[k])

(***************************************************************************)
(* The inductive invariant: the state database holds the last entry of     *)
(* each key's history, whose entries follow each other legally and bear    *)
(* the right signatures; and nothing is stored under an unused id.         *)
(***************************************************************************)
WorldIsLastEntry ==
    \A k \in Keys :
        world[k] = IF history[k] = <<>> THEN Absent
                   ELSE history[k][Len(history[k])].value

EntriesAreSigned ==
    \A k \in Keys : \A n \in DOMAIN history[k] :
        SignedRight(k, history[k][n].cert, history[k][n].value)

UnusedAreAbsent == \A t \in TxIds \ used : world[t] = Absent

IInv ==
    /\ TypeOK
    /\ WorldIsLastEntry
    /\ HistoryIsLegal
    /\ EntriesAreSigned
    /\ UnusedAreAbsent

-----------------------------------------------------------------------------
(* Lemmas about records.                                                   *)

(***************************************************************************)
(* An existing value under a record id that has a life-cycle status is a   *)
(* record.                                                                 *)
(***************************************************************************)
LEMMA RecordByStatus ==
    ASSUME NEW v \in Value, v.status \in Statuses
    PROVE  v \in Record
BY DEF Value, AuditEvent, Absent, Statuses

(***************************************************************************)
(* Advance makes a record of a record.                                     *)
(***************************************************************************)
LEMMA AdvanceRecord ==
    ASSUME NEW r \in Record, NEW s \in Statuses, NEW g \in Grades,
           NEW n \in Notes \cup {NoNote}, NEW a \in Names
    PROVE  Advance(r, s, g, n, a) \in Record
BY DEF Advance, StampRecord, Record

(***************************************************************************)
(* A certificate's common name is a name.                                  *)
(***************************************************************************)
LEMMA CertName ==
    ASSUME NEW c \in Certs
    PROVE  c.cn \in Names
BY DEF Names
(***************************************************************************)
(* A value that does not exist is Absent.                                  *)
(***************************************************************************)
LEMMA AbsentByStatus ==
    ASSUME NEW v \in Value, v.status = "Absent"
    PROVE  v = Absent
BY DEF Value, AuditEvent, Absent, Record, Statuses

(***************************************************************************)
(* A step of an existing record along an edge of the life cycle, that      *)
(* keeps the grade and the note where it must, is a legal successor.       *)
(***************************************************************************)
LEMMA AdvanceFollows ==
    ASSUME NEW k, NEW r \in Record, NEW s \in Statuses, NEW g \in Grades,
           NEW n \in Notes \cup {NoNote}, NEW a \in Names,
           <<r.status, s>> \in Transitions,
           g # r.grade => s = "Corrected",
           n # r.note => s = "Returned"
    PROVE  MayFollow(k, r, Advance(r, s, g, n, a))
<1>1. r.status \in Statuses /\ Advance(r, s, g, n, a).status \in Statuses
  BY DEF Record, Advance
<1>2. Succeeds(r, Advance(r, s, g, n, a))
  BY DEF Succeeds, Advance, StampRecord, Record
<1> QED
  BY <1>1, <1>2 DEF MayFollow

-----------------------------------------------------------------------------
(* One lemma per function of the contract: an accepted call leaves legal,  *)
(* rightly signed successors of the values it overwrites.                  *)

(***************************************************************************)
(* A single legal write makes an outcome all right.                        *)
(***************************************************************************)
LEMMA PutOK ==
    ASSUME NEW w \in World, NEW t \in TxIds, NEW c \in Certs,
           NEW k \in RecordIds \cup {t}, NEW v \in Value,
           MayFollow(k, w[k], v), SignedRight(k, c, v)
    PROVE  OutcomeOK(w, t, c, Accept(Put(k, v)))
BY DEF OutcomeOK, Accept, Put, Keys

(***************************************************************************)
(* So does writing nothing.                                                *)
(***************************************************************************)
LEMMA UnwrittenOK ==
    ASSUME NEW w, NEW t, NEW c
    PROVE  OutcomeOK(w, t, c, Accept(Unwritten))
BY DEF OutcomeOK, Accept, Unwritten

(***************************************************************************)
(* InitLedger puts the genesis record under its own key.                   *)
(***************************************************************************)
LEMMA InitLedgerOK ==
    ASSUME NEW w \in World, NEW t \in TxIds, NEW i \in InitInvocations
    PROVE  OutcomeOK(w, t, i.cert, InitLedger(w, t, i))
<1>1. GenesisId \in RecordIds /\ i.cert \in Certs
  BY ChaincodeAssumption DEF InitInvocations
<1>2. Genesis \in Record
  BY ChaincodeAssumption DEF Genesis, Record, Statuses
<1>3. Genesis \in Value /\ MayFollow(GenesisId, w[GenesisId], Genesis)
  BY <1>2 DEF MayFollow, Value
<1>4. SignedRight(GenesisId, i.cert, Genesis)
  BY DEF SignedRight, Genesis
<1> QED
  BY <1>1, <1>3, <1>4, PutOK DEF InitLedger

(***************************************************************************)
(* IssueGrade puts a record on a free id.                                  *)
(***************************************************************************)
LEMMA IssueGradeOK ==
    ASSUME NEW w \in World, NEW t \in TxIds, NEW i \in IssueInvocations,
           IssueGrade(w, t, i).ok
    PROVE  OutcomeOK(w, t, i.cert, IssueGrade(w, t, i))
<1> DEFINE v == Issued(i.cert, i.student, i.grade, 1)
<1>1. /\ i.id \in RecordIds /\ i.id \in Keys /\ i.cert \in Certs /\ i.grade \in Grades \cup {NoGrade}
      /\ i.student \in Students
  BY DEF IssueInvocations, Keys
<1>2. MayIssue(i.cert) /\ i.grade # NoGrade /\ ~Exists(w, i.id)
  BY DEF IssueGrade, When, Reject, Accept
<1>3. IssueGrade(w, t, i) = Accept(Put(i.id, v))
  BY <1>2 DEF IssueGrade, When
<1>4. v \in Record /\ v.status = "Issued"
  BY <1>1, <1>2, CertName DEF Issued, Record, Statuses
<1>5. w[i.id] = Absent
  BY <1>1, <1>2, AbsentByStatus DEF Exists, World
<1>6. MayFollow(i.id, w[i.id], v)
  BY <1>1, <1>4, <1>5 DEF MayFollow
<1>7. SignedRight(i.id, i.cert, v)
  BY <1>2, <1>4 DEF SignedRight
<1> QED
  BY <1>1, <1>3, <1>4, <1>6, <1>7, PutOK DEF Value

(***************************************************************************)
(* IssueBatchGrades puts records on free ids, one for each item used.      *)
(***************************************************************************)
LEMMA IssueBatchGradesOK ==
    ASSUME NEW w \in World, NEW t \in TxIds, NEW i \in BatchInvocations,
           IssueBatchGrades(w, t, i).ok
    PROVE  OutcomeOK(w, t, i.cert, IssueBatchGrades(w, t, i))
<1> DEFINE b == i.batch
           used_ == {n \in DOMAIN b : b[n].id # NoId}
           ids == {b[n].id : n \in used_}
           item(id) == b[CHOOSE n \in used_ : b[n].id = id]
           version(id) == BatchVersion(item(id))
           wr == [id \in ids |-> Issued(i.cert, item(id).student, item(id).grade, version(id))]
           o == IssueBatchGrades(w, t, i)
<1>1. i.cert \in Certs /\ b \in Seq(BatchItem)
  BY ChaincodeAssumption DEF BatchInvocations
<1>2. /\ MayIssue(i.cert)
      /\ \A n \in used_ : b[n].grade # NoGrade /\ ~Exists(w, b[n].id)
      /\ o = Accept(wr)
  BY DEF IssueBatchGrades, When, Reject, Accept
<1>3. \A n \in used_ : b[n] \in BatchItem /\ b[n].id \in RecordIds
  <2> HIDE DEF b
  <2>1. ASSUME NEW n \in DOMAIN b, b[n].id # NoId
        PROVE  b[n] \in BatchItem /\ b[n].id \in RecordIds
    <3>1. b[n] \in BatchItem
      BY <1>1, <2>1
    <3> QED
      BY <2>1, <3>1 DEF BatchItem
  <2> QED
    BY <2>1
<1>4. ASSUME NEW id \in ids
      PROVE  /\ id \in RecordIds
             /\ wr[id] \in Record /\ wr[id].status = "Issued"
             /\ w[id] = Absent
  <2> DEFINE m == CHOOSE n \in used_ : b[n].id = id
  <2>1. m \in used_ /\ b[m].id = id
    BY <1>4
  <2> HIDE DEF m
  <2>2. b[m] \in BatchItem /\ id \in RecordIds /\ b[m].grade # NoGrade /\ ~Exists(w, id)
    BY <1>2, <1>3, <2>1
  <2>3. /\ b[m].grade \in Grades /\ b[m].version \in Int
        /\ b[m].student \in Students
    BY <2>2 DEF BatchItem
  <2>4. wr[id] = Issued(i.cert, b[m].student, b[m].grade, BatchVersion(b[m]))
    BY <1>4 DEF m
  <2> DEFINE ver == BatchVersion(b[m])
  <2>5. ver \in Nat \ {0}
    BY <2>3 DEF BatchVersion
  <2> HIDE DEF ver
  <2>6. Issued(i.cert, b[m].student, b[m].grade, ver) \in Record
    BY <2>3, <2>5, <1>1, CertName DEF Issued, Record, Statuses
  <2>7. wr[id] \in Record /\ wr[id].status = "Issued"
    BY <2>4, <2>6 DEF ver, Issued
  <2>8. w[id] = Absent
    BY <2>2, AbsentByStatus DEF Exists, World, Keys
  <2> QED
    BY <2>2, <2>7, <2>8
<1> HIDE DEF wr, ids
<1>5. DOMAIN wr = ids
  BY DEF wr
<1>6. ASSUME NEW k \in ids
      PROVE  /\ k \in Keys /\ k \in RecordIds /\ wr[k] \in Value
             /\ MayFollow(k, w[k], wr[k]) /\ SignedRight(k, i.cert, wr[k])
  BY <1>2, <1>4 DEF MayFollow, SignedRight, Keys, Value
<1> QED
  BY <1>2, <1>5, <1>6 DEF OutcomeOK, Accept
(***************************************************************************)
(* The lemma the four functions that move one record share: an accepted    *)
(* call either writes nothing or advances the record along an edge.        *)
(***************************************************************************)
LEMMA MoveOK ==
    ASSUME NEW w \in World, NEW t \in TxIds, NEW c \in Certs, NEW id \in RecordIds,
           NEW s \in Statuses, NEW g \in Grades, NEW n \in Notes \cup {NoNote},
           w[id] \in Record,
           <<w[id].status, s>> \in Transitions,
           g # w[id].grade => s = "Corrected",
           n # w[id].note => s = "Returned",
           s # "Issued",
           s = "DepartmentApproved" => MayApprove(c),
           s = "Finalized" => IsRegistrar(c)
    PROVE  OutcomeOK(w, t, c, Accept(Put(id, Advance(w[id], s, g, n, c.cn))))
<1> DEFINE v == Advance(w[id], s, g, n, c.cn)
<1>1. v \in Record
  BY AdvanceRecord, CertName
<1>2. MayFollow(id, w[id], v)
  BY AdvanceFollows, CertName
<1>3. v.status = s
  BY DEF Advance
<1>4. SignedRight(id, c, v)
  BY <1>3 DEF SignedRight
<1> HIDE DEF v
<1>5. v \in Value /\ id \in Keys
  BY <1>1 DEF Value, Keys
<1> QED
  BY <1>2, <1>4, <1>5, PutOK DEF v

(***************************************************************************)
(* ReturnGrade sends an open record back; the registrar also a final one.  *)
(***************************************************************************)
LEMMA ReturnGradeOK ==
    ASSUME NEW w \in World, NEW t \in TxIds, NEW i \in ReturnInvocations,
           ReturnGrade(w, t, i).ok
    PROVE  OutcomeOK(w, t, i.cert, ReturnGrade(w, t, i))
<1> DEFINE r == w[i.id]
           already == r.status = "Returned" /\ r.note = i.note
<1>1. i.id \in RecordIds /\ i.cert \in Certs /\ i.note \in Notes /\ r \in Value
  BY DEF ReturnInvocations, World, Keys
<1>2. /\ already \/ r.status \in ReturnableBy(i.cert)
      /\ ReturnGrade(w, t, i) =
            Accept(IF already THEN Unwritten
                   ELSE Put(i.id, Advance(r, "Returned", r.grade, i.note, i.cert.cn)))
  BY DEF ReturnGrade, When, Reject, Accept
<1>3. CASE already
  BY <1>2, <1>3, UnwrittenOK
<1>4. CASE ~already
  <2>1. r.status \in {"Issued", "Corrected", "DepartmentApproved", "Finalized"}
    BY <1>2, <1>4 DEF ReturnableBy
  <2>2. r \in Record
    BY <1>1, <2>1, RecordByStatus DEF Statuses
  <2>3. <<r.status, "Returned">> \in Transitions
    BY <2>1 DEF Transitions
  <2>4. r.grade \in Grades /\ "Returned" \in Statuses
    BY <2>2 DEF Record, Statuses
  <2>5. OutcomeOK(w, t, i.cert,
            Accept(Put(i.id, Advance(r, "Returned", r.grade, i.note, i.cert.cn))))
    BY <1>1, <2>2, <2>3, <2>4, MoveOK
  <2> QED
    BY <1>2, <1>4, <2>5
<1> QED
  BY <1>3, <1>4

(***************************************************************************)
(* UpdateGrade corrects a returned record.                                 *)
(***************************************************************************)
LEMMA UpdateGradeOK ==
    ASSUME NEW w \in World, NEW t \in TxIds, NEW i \in UpdateInvocations,
           UpdateGrade(w, t, i).ok
    PROVE  OutcomeOK(w, t, i.cert, UpdateGrade(w, t, i))
<1> DEFINE r == w[i.id]
<1>1. /\ i.id \in RecordIds /\ i.cert \in Certs /\ i.grade \in Grades \cup {NoGrade}
      /\ r \in Value
  BY DEF UpdateInvocations, World, Keys
<1>2. /\ i.grade # NoGrade /\ r.status = "Returned"
      /\ UpdateGrade(w, t, i) =
            Accept(Put(i.id, Advance(r, "Corrected", i.grade, r.note, i.cert.cn)))
  BY DEF UpdateGrade, When, Reject, Accept
<1>3. r \in Record
  BY <1>1, <1>2, RecordByStatus DEF Statuses
<1>4. <<r.status, "Corrected">> \in Transitions
  BY <1>2 DEF Transitions
<1>5. r.note \in Notes \cup {NoNote} /\ "Corrected" \in Statuses /\ i.grade \in Grades
  BY <1>1, <1>2, <1>3 DEF Record, Statuses
<1>6. OutcomeOK(w, t, i.cert,
          Accept(Put(i.id, Advance(r, "Corrected", i.grade, r.note, i.cert.cn))))
  BY <1>1, <1>3, <1>4, <1>5, MoveOK
<1> QED
  BY <1>2, <1>6

(***************************************************************************)
(* ApproveGrade approves an issued or corrected record.                    *)
(***************************************************************************)
LEMMA ApproveGradeOK ==
    ASSUME NEW w \in World, NEW t \in TxIds, NEW i \in ApproveInvocations,
           ApproveGrade(w, t, i).ok
    PROVE  OutcomeOK(w, t, i.cert, ApproveGrade(w, t, i))
<1> DEFINE r == w[i.id]
           next == Put(i.id, Advance(r, "DepartmentApproved", r.grade, r.note, i.cert.cn))
<1>1. i.id \in RecordIds /\ i.cert \in Certs /\ r \in Value
  BY DEF ApproveInvocations, World, Keys
<1>2. /\ MayApprove(i.cert)
      /\ r.status \in {"Issued", "Corrected", "DepartmentApproved"}
      /\ ApproveGrade(w, t, i) =
            Accept(IF r.status = "DepartmentApproved" THEN Unwritten ELSE next)
  BY DEF ApproveGrade, When, Reject, Accept
<1>3. CASE r.status = "DepartmentApproved"
  BY <1>2, <1>3, UnwrittenOK
<1>4. CASE r.status # "DepartmentApproved"
  <2>1. r \in Record
    BY <1>1, <1>2, RecordByStatus DEF Statuses
  <2>2. <<r.status, "DepartmentApproved">> \in Transitions
    BY <1>2, <1>4 DEF Transitions
  <2>3. r.grade \in Grades /\ r.note \in Notes \cup {NoNote} /\ "DepartmentApproved" \in Statuses
    BY <2>1 DEF Record, Statuses
  <2>4. OutcomeOK(w, t, i.cert, Accept(next))
    BY <1>1, <1>2, <2>1, <2>2, <2>3, MoveOK
  <2> QED
    BY <1>2, <1>4, <2>4
<1> QED
  BY <1>3, <1>4

(***************************************************************************)
(* FinalizeRecord finalizes an approved record.                            *)
(***************************************************************************)
LEMMA FinalizeRecordOK ==
    ASSUME NEW w \in World, NEW t \in TxIds, NEW i \in FinalizeInvocations,
           FinalizeRecord(w, t, i).ok
    PROVE  OutcomeOK(w, t, i.cert, FinalizeRecord(w, t, i))
<1> DEFINE r == w[i.id]
           next == Put(i.id, Advance(r, "Finalized", r.grade, r.note, i.cert.cn))
<1>1. i.id \in RecordIds /\ i.cert \in Certs /\ r \in Value
  BY DEF FinalizeInvocations, World, Keys
<1>2. /\ IsRegistrar(i.cert)
      /\ r.status \in {"DepartmentApproved", "Finalized"}
      /\ FinalizeRecord(w, t, i) =
            Accept(IF r.status = "Finalized" THEN Unwritten ELSE next)
  BY DEF FinalizeRecord, When, Reject, Accept
<1>3. CASE r.status = "Finalized"
  BY <1>2, <1>3, UnwrittenOK
<1>4. CASE r.status # "Finalized"
  <2>1. r \in Record
    BY <1>1, <1>2, RecordByStatus DEF Statuses
  <2>2. <<r.status, "Finalized">> \in Transitions
    BY <1>2, <1>4 DEF Transitions
  <2>3. r.grade \in Grades /\ r.note \in Notes \cup {NoNote} /\ "Finalized" \in Statuses
    BY <2>1 DEF Record, Statuses
  <2>4. OutcomeOK(w, t, i.cert, Accept(next))
    BY <1>1, <1>2, <2>1, <2>2, <2>3, MoveOK
  <2> QED
    BY <1>2, <1>4, <2>4
<1> QED
  BY <1>3, <1>4

(***************************************************************************)
(* ResetLedgerToGenesis deletes what exists, but for the genesis record.   *)
(***************************************************************************)
LEMMA ResetLedgerToGenesisOK ==
    ASSUME NEW w \in World, NEW t \in TxIds, NEW i \in ResetInvocations,
           ResetLedgerToGenesis(w, t, i).ok
    PROVE  OutcomeOK(w, t, i.cert, ResetLedgerToGenesis(w, t, i))
<1> DEFINE gone == {k \in Keys \ {GenesisId} : Exists(w, k)}
<1>1. ResetLedgerToGenesis(w, t, i) = Accept([k \in gone |-> Absent])
  BY DEF ResetLedgerToGenesis, When, Reject, Accept
<1>2. ASSUME NEW k \in gone
      PROVE  /\ k \in Keys /\ Exists(w, k) /\ Absent \in Value
             /\ MayFollow(k, w[k], Absent) /\ SignedRight(k, i.cert, Absent)
  BY <1>2 DEF Exists, MayFollow, SignedRight, Absent, Value
<1> HIDE DEF gone
<1> QED
  BY <1>1, <1>2 DEF OutcomeOK, Accept

(***************************************************************************)
(* CreateAuditEvent stores the event under the id of its transaction,      *)
(* where nothing can be as long as the id is unused.                       *)
(***************************************************************************)
LEMMA CreateAuditEventOK ==
    ASSUME NEW w \in World, NEW t \in TxIds, NEW i \in AuditInvocations,
           CreateAuditEvent(w, t, i).ok, w[t] = Absent
    PROVE  OutcomeOK(w, t, i.cert, CreateAuditEvent(w, t, i))
<1>1. t \in Keys /\ t \notin RecordIds /\ i.cert \in Certs
  BY ChaincodeAssumption DEF Keys, AuditInvocations
<1>2. CreateAuditEvent(w, t, i) = Accept(Put(t, AuditEvent))
  BY DEF CreateAuditEvent, When, Reject, Accept
<1>3. /\ AuditEvent \in Value
      /\ MayFollow(t, w[t], AuditEvent)
      /\ SignedRight(t, i.cert, AuditEvent)
  BY <1>1 DEF Value, MayFollow, SignedRight, AuditEvent
<1> QED
  BY <1>1, <1>2, <1>3, PutOK
-----------------------------------------------------------------------------
(* The inductive invariant.                                                *)

(***************************************************************************)
(* Committing legal, rightly signed writes preserves the invariant.        *)
(***************************************************************************)
LEMMA CommitPreserves ==
    ASSUME IInv, NEW t \in TxIds \ used, NEW c \in Certs, NEW o,
           OutcomeOK(world, t, c, o), Commit(t, c, o.writes)
    PROVE  IInv'
<1> DEFINE wr == o.writes
           e(k) == [tx |-> t, cert |-> c, value |-> wr[k]]
<1>1. /\ world \in World /\ history \in [Keys -> Seq(Entry)] /\ used \subseteq TxIds
      /\ t \in TxIds
  BY DEF IInv, TypeOK
<1>2. ASSUME NEW k \in DOMAIN wr
      PROVE  /\ k \in Keys /\ wr[k] \in Value /\ e(k) \in Entry
             /\ k \in RecordIds \cup {t} \/ Exists(world, k)
             /\ MayFollow(k, world[k], wr[k]) /\ SignedRight(k, c, wr[k])
             /\ world'[k] = wr[k]
             /\ history'[k] = Append(history[k], e(k))
  BY <1>2 DEF OutcomeOK, Commit, Entry
<1>3. ASSUME NEW k \in Keys, k \notin DOMAIN wr
      PROVE  world'[k] = world[k] /\ history'[k] = history[k]
  BY <1>3 DEF Commit
<1>4. DOMAIN world' = Keys /\ DOMAIN history' = Keys /\ used' = used \cup {t}
  BY DEF Commit
<1> HIDE DEF wr, e
<1>5. TypeOK'
  <2>1. ASSUME NEW k \in Keys PROVE world'[k] \in Value
    BY <1>1, <1>2, <1>3 DEF World
  <2>2. ASSUME NEW k \in Keys PROVE history'[k] \in Seq(Entry)
    <3>1. history[k] \in Seq(Entry)
      BY <1>1
    <3>2. CASE k \in DOMAIN wr
      <4>1. e(k) \in Entry /\ history'[k] = Append(history[k], e(k))
        BY <1>2, <3>2
      <4> QED
        BY <3>1, <4>1
    <3> QED
      BY <1>3, <3>1, <3>2
  <2>3. world' = [k \in Keys |-> world'[k]] /\ history' = [k \in Keys |-> history'[k]]
    BY DEF Commit
  <2> QED
    BY <1>1, <1>4, <2>1, <2>2, <2>3 DEF TypeOK, World
<1>6. WorldIsLastEntry'
  <2>1. ASSUME NEW k \in Keys
        PROVE  world'[k] = IF history'[k] = <<>> THEN Absent
                           ELSE history'[k][Len(history'[k])].value
    <3>1. CASE k \in DOMAIN wr
      <4>1. history[k] \in Seq(Entry)
        BY <1>1
      <4>2. /\ history'[k] # <<>>
            /\ history'[k][Len(history'[k])] = e(k)
        BY <1>2, <3>1, <4>1
      <4> QED
        BY <1>2, <3>1, <4>2 DEF e
    <3>2. CASE k \notin DOMAIN wr
      BY <1>3, <3>2 DEF IInv, WorldIsLastEntry
    <3> QED
      BY <3>1, <3>2
  <2> QED
    BY <2>1 DEF WorldIsLastEntry
<1>7. ASSUME NEW k \in Keys, NEW n \in DOMAIN history'[k]
      PROVE  /\ MayFollow(k, Before(k, n)', history'[k][n].value)
             /\ SignedRight(k, history'[k][n].cert, history'[k][n].value)
  <2> DEFINE h == history[k]
  <2>1. h \in Seq(Entry)
    BY <1>1
  <2>2. ASSUME NEW m \in DOMAIN h
        PROVE  /\ MayFollow(k, IF m = 1 THEN Absent ELSE h[m - 1].value, h[m].value)
               /\ SignedRight(k, h[m].cert, h[m].value)
    BY <2>2 DEF IInv, HistoryIsLegal, EntriesAreSigned, Before
  <2>3. world[k] = IF h = <<>> THEN Absent ELSE h[Len(h)].value
    BY DEF IInv, WorldIsLastEntry
  <2>4. Before(k, n)' = IF n = 1 THEN Absent ELSE history'[k][n - 1].value
    BY DEF Before
  <2>5. CASE k \notin DOMAIN wr
    BY <1>3, <2>2, <2>4, <2>5
  <2>6. CASE k \in DOMAIN wr
    <3>1. /\ history'[k] = Append(h, e(k))
          /\ MayFollow(k, world[k], wr[k]) /\ SignedRight(k, c, wr[k])
      BY <1>2, <2>6
    <3> HIDE DEF h
    <3>2. /\ DOMAIN history'[k] = 1 .. (Len(h) + 1)
          /\ Len(h) \in Nat /\ DOMAIN h = 1 .. Len(h)
          /\ \A m \in 1 .. Len(h) : history'[k][m] = h[m]
          /\ history'[k][Len(h) + 1] = e(k)
          /\ h = <<>> <=> Len(h) = 0
      BY <2>1, <3>1
    <3>3. CASE n = Len(h) + 1
      <4>1. Before(k, n)' = world[k]
        BY <2>3, <2>4, <3>2, <3>3
      <4>2. history'[k][n] = e(k)
        BY <3>2, <3>3
      <4> QED
        BY <3>1, <4>1, <4>2 DEF e
    <3>4. CASE n \in 1 .. Len(h)
      <4>1. history'[k][n] = h[n]
        BY <3>2, <3>4
      <4>2. Before(k, n)' = IF n = 1 THEN Absent ELSE h[n - 1].value
        BY <2>4, <3>2, <3>4
      <4> QED
        BY <2>2, <3>2, <3>4, <4>1, <4>2
    <3> QED
      BY <3>2, <3>3, <3>4
  <2> QED
    BY <2>5, <2>6
<1>8. HistoryIsLegal' /\ EntriesAreSigned'
  BY <1>7 DEF HistoryIsLegal, EntriesAreSigned
<1>9. UnusedAreAbsent'
  <2>1. ASSUME NEW u \in TxIds \ used' PROVE world'[u] = Absent
    <3>1. u \in TxIds \ used /\ u # t /\ u \in Keys /\ u \notin RecordIds
      BY <1>4, ChaincodeAssumption DEF Keys
    <3>2. world[u] = Absent
      BY <3>1 DEF IInv, UnusedAreAbsent
    <3>3. u \notin DOMAIN wr
      BY <1>2, <3>1, <3>2 DEF Exists, Absent
    <3> QED
      BY <1>3, <3>1, <3>2, <3>3
  <2> QED
    BY <2>1 DEF UnusedAreAbsent
<1> QED
  BY <1>5, <1>6, <1>8, <1>9 DEF IInv

(***************************************************************************)
(* The empty ledger satisfies the invariant.                               *)
(***************************************************************************)
LEMMA InitEstablishes == Init => IInv
BY DEF Init, IInv, TypeOK, WorldIsLastEntry, HistoryIsLegal, EntriesAreSigned,
       UnusedAreAbsent, World, Value, Keys

(***************************************************************************)
(* Every transaction preserves the invariant.                              *)
(***************************************************************************)
LEMMA NextPreserves ==
    ASSUME IInv, [Next]_vars
    PROVE  IInv'
<1>1. CASE UNCHANGED vars
  BY <1>1 DEF IInv, TypeOK, WorldIsLastEntry, HistoryIsLegal, EntriesAreSigned,
              UnusedAreAbsent, Before, vars
<1>2. ASSUME NEW t \in TxIds, Transaction(t)
      PROVE  IInv'
  <2> USE DEF Submit
  <2>0. world \in World
    BY DEF IInv, TypeOK
  <2>1. CASE DoInitLedger(t)
    <3>1. PICK i \in InitInvocations : Submit(t, i, InitLedger(world, t, i))
      BY <2>1 DEF DoInitLedger
    <3> QED
      BY <2>0, <3>1, InitLedgerOK, CommitPreserves DEF InitInvocations
  <2>2. CASE DoResetLedgerToGenesis(t)
    <3>1. PICK i \in ResetInvocations : Submit(t, i, ResetLedgerToGenesis(world, t, i))
      BY <2>2 DEF DoResetLedgerToGenesis
    <3> QED
      BY <2>0, <3>1, ResetLedgerToGenesisOK, CommitPreserves DEF ResetInvocations
  <2>3. CASE DoIssueGrade(t)
    <3>1. PICK i \in IssueInvocations : Submit(t, i, IssueGrade(world, t, i))
      BY <2>3 DEF DoIssueGrade
    <3> QED
      BY <2>0, <3>1, IssueGradeOK, CommitPreserves DEF IssueInvocations
  <2>4. CASE DoIssueBatchGrades(t)
    <3>1. PICK i \in BatchInvocations : Submit(t, i, IssueBatchGrades(world, t, i))
      BY <2>4 DEF DoIssueBatchGrades
    <3> QED
      BY <2>0, <3>1, IssueBatchGradesOK, CommitPreserves DEF BatchInvocations
  <2>5. CASE DoReturnGrade(t)
    <3>1. PICK i \in ReturnInvocations : Submit(t, i, ReturnGrade(world, t, i))
      BY <2>5 DEF DoReturnGrade
    <3> QED
      BY <2>0, <3>1, ReturnGradeOK, CommitPreserves DEF ReturnInvocations
  <2>6. CASE DoUpdateGrade(t)
    <3>1. PICK i \in UpdateInvocations : Submit(t, i, UpdateGrade(world, t, i))
      BY <2>6 DEF DoUpdateGrade
    <3> QED
      BY <2>0, <3>1, UpdateGradeOK, CommitPreserves DEF UpdateInvocations
  <2>7. CASE DoApproveGrade(t)
    <3>1. PICK i \in ApproveInvocations : Submit(t, i, ApproveGrade(world, t, i))
      BY <2>7 DEF DoApproveGrade
    <3> QED
      BY <2>0, <3>1, ApproveGradeOK, CommitPreserves DEF ApproveInvocations
  <2>8. CASE DoFinalizeRecord(t)
    <3>1. PICK i \in FinalizeInvocations : Submit(t, i, FinalizeRecord(world, t, i))
      BY <2>8 DEF DoFinalizeRecord
    <3> QED
      BY <2>0, <3>1, FinalizeRecordOK, CommitPreserves DEF FinalizeInvocations
  <2>9. CASE DoCreateAuditEvent(t)
    <3>1. PICK i \in AuditInvocations : Submit(t, i, CreateAuditEvent(world, t, i))
      BY <2>9 DEF DoCreateAuditEvent
    <3>2. world[t] = Absent
      BY <3>1 DEF IInv, UnusedAreAbsent
    <3> QED
      BY <2>0, <3>1, <3>2, CreateAuditEventOK, CommitPreserves DEF AuditInvocations
  <2> QED
    BY <1>2, <2>1, <2>2, <2>3, <2>4, <2>5, <2>6, <2>7, <2>8, <2>9 DEF Transaction
<1> QED
  BY <1>1, <1>2 DEF Next

(***************************************************************************)
(* The invariant holds in every reachable state.                           *)
(***************************************************************************)
LEMMA Invariant == Spec => []IInv
BY InitEstablishes, NextPreserves, PTL DEF Spec

-----------------------------------------------------------------------------
(* The theorems.                                                           *)

(***************************************************************************)
(* Every key holds a value of its kind and the history only entries.       *)
(***************************************************************************)
THEOREM TypeCorrect == Spec => []TypeOK
<1>1. IInv => TypeOK
  BY DEF IInv
<1> QED
  BY <1>1, Invariant, PTL

(***************************************************************************)
(* Along the history of every key each value follows from the one before   *)
(* it by one legal step of the contract, whatever clients submit.          *)
(***************************************************************************)
THEOREM LegalHistory == Spec => []HistoryIsLegal
<1>1. IInv => HistoryIsLegal
  BY DEF IInv
<1> QED
  BY <1>1, Invariant, PTL

(***************************************************************************)
(* Every finalized grade was signed by a registrar right after an office   *)
(* approved that very grade, and someone else than that registrar worked   *)
(* on the record: whoever issued it holds a role that is not registrar.    *)
(***************************************************************************)
THEOREM FinalGradesApproved == Spec => []FinalGradesWereApproved
<1>1. ASSUME IInv, NEW id \in RecordIds \ {GenesisId}, NEW n \in DOMAIN history[id],
             history[id][n].value.status = "Finalized"
      PROVE  LET e == history[id][n]
                 p == history[id][n - 1]
             IN  /\ n > 1
                 /\ e.cert.msp = "RegistrarMSP" /\ e.cert.role = "registrar"
                 /\ \/ p.cert.msp = "RegistrarMSP" /\ p.cert.role = "registrar"
                    \/ p.cert.msp = "DepartmentMSP" /\ p.cert.role = "department_admin"
                 /\ p.value.status = "DepartmentApproved"
                 /\ p.value.grade = e.value.grade
                 /\ p.value.faculty = e.value.faculty
                 /\ \E m \in 1..(n - 1) : history[id][m].cert # e.cert
  <2> DEFINE h == history[id]
             e == h[n]
             u == Before(id, n)
  <2>1. id \in Keys /\ h \in Seq(Entry) /\ n \in 1 .. Len(h) /\ Len(h) \in Nat
    BY <1>1 DEF IInv, TypeOK, Keys
  <2>2. MayFollow(id, u, e.value)
    BY <1>1, <2>1 DEF IInv, HistoryIsLegal
  <2>3. /\ u.status \in Statuses /\ Succeeds(u, e.value)
    BY <1>1, <2>2 DEF MayFollow, Absent
  <2>4. /\ u.status = "DepartmentApproved"
        /\ u.grade = e.value.grade
        /\ u.faculty = e.value.faculty
    BY <1>1, <2>3 DEF Succeeds, Transitions
  <2>5. n > 1 /\ u = h[n - 1].value /\ n - 1 \in DOMAIN h
    BY <2>1, <2>4 DEF Before, Absent
  <2>6. IsRegistrar(e.cert) /\ MayApprove(h[n - 1].cert)
    BY <1>1, <2>1, <2>4, <2>5 DEF IInv, EntriesAreSigned, SignedRight
  <2>7. h[1].value.status = "Issued" /\ 1 \in DOMAIN h
    <3>1. 1 \in DOMAIN h /\ Before(id, 1) = Absent
      BY <2>1 DEF Before
    <3>2. MayFollow(id, Absent, h[1].value)
      BY <1>1, <2>1, <3>1 DEF IInv, HistoryIsLegal
    <3> QED
      BY <3>1, <3>2 DEF MayFollow, Absent, Statuses
  <2>8. MayIssue(h[1].cert)
    BY <1>1, <2>1, <2>7 DEF IInv, EntriesAreSigned, SignedRight
  <2>9. h[1].cert # e.cert
    BY <2>6, <2>8 DEF MayIssue, IsRegistrar
  <2>10. 1 \in 1 .. (n - 1)
    BY <2>1, <2>5
  <2> QED
    BY <1>1, <2>4, <2>5, <2>6, <2>9, <2>10 DEF IsRegistrar, MayApprove
<1>2. IInv => FinalGradesWereApproved
  BY <1>1 DEF FinalGradesWereApproved
<1> QED
  BY <1>2, Invariant, PTL

-----------------------------------------------------------------------------
(* What students are shown.                                                *)

\* An entry the student called p is not shown.
Hidden(e, p) == e.value.status = "Absent" \/ e.value.student # p

\* f[n] is what p is shown of the first n entries, for n up to m.
IsLive(f, h, p, m) ==
    f = [n \in 0..m |->
            IF n = 0 THEN <<>>
            ELSE IF Hidden(h[n], p) THEN f[n - 1] ELSE Append(f[n - 1], h[n])]

\* There is such a function, whatever the entries are.
LEMMA LiveExists ==
    ASSUME NEW h, NEW p, NEW m \in Nat
    PROVE  \E f : IsLive(f, h, p, m)
<1> DEFINE S == {k \in Nat : \E f : IsLive(f, h, p, k)}
<1>1. 0 \in S
  <2>1. PICK f : f = [n \in 0..0 |-> <<>>]
    OBVIOUS
  <2>2. IsLive(f, h, p, 0)
    BY <2>1 DEF IsLive
  <2> QED
    BY <2>2
<1>2. ASSUME NEW k \in Nat, k \in S PROVE k + 1 \in S
  <2>1. PICK f : IsLive(f, h, p, k)
    BY <1>2
  <2>2. PICK last : last = IF Hidden(h[k + 1], p) THEN f[k]
                           ELSE Append(f[k], h[k + 1])
    OBVIOUS
  <2>3. PICK g : g = [n \in 0..(k + 1) |-> IF n = k + 1 THEN last ELSE f[n]]
    OBVIOUS
  <2>4. ASSUME NEW n \in 0..(k + 1)
        PROVE  g[n] = IF n = 0 THEN <<>>
                      ELSE IF Hidden(h[n], p) THEN g[n - 1]
                      ELSE Append(g[n - 1], h[n])
    <3>1. CASE n = k + 1
      <4>1. g[n] = last /\ g[n - 1] = f[k] /\ n # 0
        BY <2>3, <3>1
      <4> QED
        BY <2>2, <3>1, <4>1
    <3>2. CASE n # k + 1
      <4>1. n \in 0..k /\ g[n] = f[n] /\ (n # 0 => g[n - 1] = f[n - 1])
        BY <2>3, <3>2
      <4>2. f[n] = IF n = 0 THEN <<>>
                   ELSE IF Hidden(h[n], p) THEN f[n - 1]
                   ELSE Append(f[n - 1], h[n])
        BY <2>1, <4>1 DEF IsLive
      <4> QED
        BY <4>1, <4>2
    <3> QED
      BY <3>1, <3>2
  <2>5. g = [n \in 0..(k + 1) |-> g[n]]
    BY <2>3
  <2>6. IsLive(g, h, p, k + 1)
    BY <2>4, <2>5 DEF IsLive
  <2> QED
    BY <2>6
<1> HIDE DEF S
<1>3. Nat \subseteq S
  BY <1>1, <1>2, InductiveSet
<1>4. m \in S
  BY <1>3
<1> QED
  BY <1>4 DEF S

\* Live is computed by it.
LEMMA LiveIsLive ==
    ASSUME NEW h \in Seq(Entry), NEW p
    PROVE  \E f : IsLive(f, h, p, Len(h)) /\ Live(h, p) = f[Len(h)]
<1> DEFINE F == CHOOSE f : IsLive(f, h, p, Len(h))
<1>1. Len(h) \in Nat
  OBVIOUS
<1>2. IsLive(F, h, p, Len(h))
  BY <1>1, LiveExists
<1>3. Live(h, p) = F[Len(h)]
  BY DEF Live, IsLive, Hidden
<1> HIDE DEF F
<1> QED
  BY <1>2, <1>3

(***************************************************************************)
(* The entries l are a path of the life cycle of records of p: the first   *)
(* is issued, and what is final follows the approval of the same grade.    *)
(***************************************************************************)
Path(l, p) ==
    /\ l \in Seq(Entry)
    /\ \A n \in 1..Len(l) : l[n].value.student = p
    /\ l # <<>> => l[1].value.status = "Issued"
    /\ \A n \in 1..Len(l) : l[n].value.status = "Finalized" =>
           /\ n > 1
           /\ l[n - 1].value.status = "DepartmentApproved"
           /\ l[n - 1].value.grade = l[n].value.grade

\* A path goes on with an issued record, or with one that follows the last.
LEMMA PathGoesOn ==
    ASSUME NEW p, NEW l, Path(l, p), NEW e \in Entry, e.value.student = p,
           \/ e.value.status = "Issued"
           \/ l # <<>> /\ Succeeds(l[Len(l)].value, e.value)
    PROVE  Path(Append(l, e), p)
<1>1. l \in Seq(Entry) /\ Len(l) \in Nat
  BY DEF Path
<1>2. PICK k : k = Append(l, e)
  OBVIOUS
<1>3. /\ k \in Seq(Entry) /\ Len(k) = Len(l) + 1 /\ k[Len(l) + 1] = e
      /\ \A n \in 1..Len(l) : k[n] = l[n]
  BY <1>1, <1>2
<1>4. k[1].value.status = "Issued"
  <2>1. CASE l = <<>>
    <3>1. Len(l) = 0
      BY <2>1
    <3> QED
      BY <1>3, <2>1, <3>1
  <2>2. CASE l # <<>>
    <3>1. 1 \in 1..Len(l)
      BY <1>1, <2>2
    <3> QED
      BY <1>3, <2>2, <3>1 DEF Path
  <2> QED
    BY <2>1, <2>2
<1>5. ASSUME NEW n \in 1..Len(k), k[n].value.status = "Finalized"
      PROVE  /\ n > 1
             /\ k[n - 1].value.status = "DepartmentApproved"
             /\ k[n - 1].value.grade = k[n].value.grade
  <2>1. CASE n \in 1..Len(l)
    <3>1. k[n] = l[n] /\ l[n].value.status = "Finalized"
      BY <1>3, <1>5, <2>1
    <3>2. /\ n > 1 /\ l[n - 1].value.status = "DepartmentApproved"
          /\ l[n - 1].value.grade = l[n].value.grade
      BY <2>1, <3>1 DEF Path
    <3>3. k[n - 1] = l[n - 1]
      BY <1>1, <1>3, <2>1, <3>2
    <3> QED
      BY <3>1, <3>2, <3>3
  <2>2. CASE n = Len(l) + 1
    <3>1. k[n] = e /\ e.value.status = "Finalized"
      BY <1>3, <1>5, <2>2
    <3>2. l # <<>> /\ Succeeds(l[Len(l)].value, e.value)
      BY <3>1
    <3>3. /\ l[Len(l)].value.status = "DepartmentApproved"
          /\ l[Len(l)].value.grade = e.value.grade
      BY <3>1, <3>2 DEF Succeeds, Transitions
    <3>4. Len(l) \in 1..Len(l)
      BY <1>1, <3>2
    <3>5. n > 1 /\ n - 1 = Len(l) /\ k[n - 1] = l[Len(l)]
      BY <1>1, <1>3, <2>2, <3>4
    <3> QED
      BY <3>1, <3>3, <3>5
  <2> QED
    BY <1>1, <1>3, <2>1, <2>2
<1>6. \A n \in 1..Len(k) : k[n].value.student = p
  BY <1>1, <1>3 DEF Path
<1> QED
  BY <1>2, <1>3, <1>4, <1>5, <1>6 DEF Path

(***************************************************************************)
(* What a student is shown of a legal history is a path, and ends with the *)
(* last entry if that is the student's own.                                *)
(***************************************************************************)
LEMMA LiveIsAPath ==
    ASSUME NEW id \in RecordIds \ {GenesisId}, NEW h \in Seq(Entry), NEW p,
           \A n \in 1..Len(h) :
               MayFollow(id, IF n = 1 THEN Absent ELSE h[n - 1].value, h[n].value)
    PROVE  /\ Path(Live(h, p), p)
           /\ (h # <<>> /\ h[Len(h)].value # Absent /\ h[Len(h)].value.student = p) =>
                  Live(h, p) # <<>> /\ Live(h, p)[Len(Live(h, p))].value = h[Len(h)].value
<1>1. PICK f : IsLive(f, h, p, Len(h)) /\ Live(h, p) = f[Len(h)]
  BY LiveIsLive
<1>2. Len(h) \in Nat
  OBVIOUS
<1> DEFINE At(n) == IF n = 0 THEN Absent ELSE h[n].value
           Good(n) == /\ Path(f[n], p)
                      /\ (At(n) # Absent /\ At(n).student = p) =>
                             f[n] # <<>> /\ f[n][Len(f[n])].value = At(n)
           S == {n \in Nat : n <= Len(h) => Good(n)}
<1>3. 0 \in S
  <2>1. f[0] = <<>>
    BY <1>1, <1>2 DEF IsLive
  <2>2. Path(<<>>, p)
    BY DEF Path
  <2> QED
    BY <2>1, <2>2
<1>4. ASSUME NEW n \in Nat, n \in S PROVE n + 1 \in S
  <2> SUFFICES ASSUME n + 1 <= Len(h) PROVE Good(n + 1)
    OBVIOUS
  <2>1. /\ Path(f[n], p)
        /\ (At(n) # Absent /\ At(n).student = p) => f[n] # <<>> /\ f[n][Len(f[n])].value = At(n)
    BY <1>2, <1>4
  <2>2. PICK l : l = f[n]
    OBVIOUS
  <2>3. PICK e : e = h[n + 1]
    OBVIOUS
  <2>4. n + 1 \in 1..Len(h) /\ e \in Entry /\ e.value \in Value
    <3>1. n + 1 \in 1..Len(h)
      BY <1>2
    <3>2. e \in Entry
      BY <2>3, <3>1
    <3> QED
      BY <3>1, <3>2 DEF Entry
  <2>5. f[n + 1] = IF Hidden(e, p) THEN l ELSE Append(l, e)
    <3>1. \A i \in 0..Len(h) :
             f[i] = IF i = 0 THEN <<>>
                    ELSE IF Hidden(h[i], p) THEN f[i - 1]
                    ELSE Append(f[i - 1], h[i])
      BY <1>1 DEF IsLive
    <3>2. n + 1 \in 0..Len(h) /\ n + 1 # 0 /\ (n + 1) - 1 = n
      BY <1>2, <2>4
    <3> QED
      BY <2>2, <2>3, <3>1, <3>2
  <2>6. MayFollow(id, At(n), e.value) /\ At(n + 1) = e.value
    <3>1. MayFollow(id, IF n + 1 = 1 THEN Absent ELSE h[(n + 1) - 1].value, h[n + 1].value)
      BY <2>4
    <3>2. (IF n + 1 = 1 THEN Absent ELSE h[(n + 1) - 1].value) = At(n)
      OBVIOUS
    <3> QED
      BY <2>3, <3>1, <3>2
  <2>7. /\ Path(l, p)
        /\ (At(n) # Absent /\ At(n).student = p) => l # <<>> /\ l[Len(l)].value = At(n)
    BY <2>1, <2>2
  <2> HIDE DEF At
  <2>8. CASE Hidden(e, p)
    <3>1. e.value = Absent \/ e.value.student # p
      BY <2>4, <2>8, AbsentByStatus DEF Hidden
    <3> QED
      BY <2>5, <2>6, <2>7, <2>8, <3>1, <2>2
  <2>9. CASE ~Hidden(e, p)
    <3>1. f[n + 1] = Append(l, e) /\ e.value # Absent /\ e.value.student = p
      BY <2>5, <2>9 DEF Absent, Hidden
    <3>2. \/ e.value.status = "Issued"
          \/ At(n) # Absent /\ Succeeds(At(n), e.value) /\ At(n).student = p
      BY <2>6, <3>1 DEF MayFollow, Succeeds, Absent, Statuses
    <3>3. Path(Append(l, e), p)
      BY <2>4, <2>7, <3>1, <3>2, PathGoesOn
    <3>4. Append(l, e) # <<>> /\ Append(l, e)[Len(Append(l, e))] = e
      <4>1. l \in Seq(Entry) /\ e \in Entry
        BY <2>4, <2>7 DEF Path
      <4>2. PICK k : k = Append(l, e)
        OBVIOUS
      <4>3. Len(k) = Len(l) + 1 /\ k[Len(l) + 1] = e /\ k \in Seq(Entry) /\ Len(l) \in Nat
        BY <4>1, <4>2
      <4>4. k # <<>>
        BY <4>3
      <4> QED
        BY <4>2, <4>3, <4>4
    <3> QED
      BY <2>6, <3>1, <3>3, <3>4
  <2> QED
    BY <2>8, <2>9
<1> HIDE DEF S
<1>5. Nat \subseteq S
  BY <1>3, <1>4, InductiveSet
<1> HIDE DEF Good
<1>6. Good(Len(h))
  <2>1. Len(h) \in S /\ Len(h) <= Len(h)
    BY <1>2, <1>5
  <2> QED
    BY <2>1 DEF S
<1> USE DEF Good
<1>7. h # <<>> => At(Len(h)) = h[Len(h)].value
  BY <1>2
<1> QED
  BY <1>1, <1>6, <1>7

(***************************************************************************)
(* Whatever clients submit and delete, the list a student is shown of a    *)
(* record begins with the record as it is, goes back to a GRADE_SUBMITTED, *)
(* has no GRADE_FINALIZED but above the GRADE_APPROVED of the same grade,  *)
(* and nothing of another student.                                         *)
(***************************************************************************)
THEOREM StudentsSeeALegalPath == Spec => []StudentSeesALegalPath
<1>1. ASSUME IInv, NEW c \in Certs,
             NEW id \in DOMAIN StudentTransactions(c) \ {GenesisId}
      PROVE  LET list == StudentTransactions(c)[id]
             IN  /\ list # <<>>
                 /\ list[1].record = world[id]
                 /\ list[Len(list)].type = "GRADE_SUBMITTED"
                 /\ \A n \in DOMAIN list :
                        /\ list[n].record.student = c.cn
                        /\ list[n].type = "GRADE_FINALIZED" =>
                               /\ list[n + 1].type = "GRADE_APPROVED"
                               /\ list[n + 1].record.grade = list[n].record.grade
  <2>1. /\ id \in RecordIds \ {GenesisId} /\ id \in Keys /\ Exists(world, id)
        /\ world[id].student = c.cn
    BY DEF StudentTransactions, Keys
  <2>2. PICK h : h = history[id]
    OBVIOUS
  <2>3. /\ h \in Seq(Entry)
        /\ world[id] = IF h = <<>> THEN Absent ELSE h[Len(h)].value
        /\ \A n \in 1..Len(h) :
               MayFollow(id, IF n = 1 THEN Absent ELSE h[n - 1].value, h[n].value)
    <3>1. h \in Seq(Entry) /\ DOMAIN h = 1..Len(h)
      BY <1>1, <2>1, <2>2 DEF IInv, TypeOK
    <3>2. world[id] = IF h = <<>> THEN Absent ELSE h[Len(h)].value
      BY <1>1, <2>1, <2>2 DEF IInv, WorldIsLastEntry
    <3>3. ASSUME NEW n \in 1..Len(h)
          PROVE  MayFollow(id, IF n = 1 THEN Absent ELSE h[n - 1].value, h[n].value)
      BY <1>1, <2>1, <2>2, <3>1 DEF IInv, HistoryIsLegal, Before
    <3> QED
      BY <3>1, <3>2, <3>3
  <2>4. h # <<>> /\ h[Len(h)].value # Absent /\ world[id] = h[Len(h)].value
    BY <2>1, <2>3 DEF Exists, Absent
  <2>5. PICK l : l = Live(h, c.cn)
    OBVIOUS
  <2>6. Path(l, c.cn) /\ l # <<>> /\ l[Len(l)].value = world[id]
    BY <2>1, <2>3, <2>4, <2>5, LiveIsAPath
  <2>7. PICK list : list = [n \in DOMAIN l |->
                               [type |-> GradeTransactionType(l[Len(l) + 1 - n].value.status),
                                record |-> l[Len(l) + 1 - n].value]]
    OBVIOUS
  <2>8. StudentTransactions(c)[id] = list
    BY <2>1, <2>2, <2>5, <2>7 DEF StudentTransactions
  <2>9. l \in Seq(Entry) /\ Len(l) \in Nat /\ Len(l) >= 1 /\ DOMAIN l = 1..Len(l)
    BY <2>6 DEF Path
  <2>10. /\ DOMAIN list = 1..Len(l)
         /\ \A n \in 1..Len(l) :
                /\ list[n].type = GradeTransactionType(l[Len(l) + 1 - n].value.status)
                /\ list[n].record = l[Len(l) + 1 - n].value
    BY <2>7, <2>9
  <2>11. Len(list) = Len(l) /\ list # <<>>
    BY <2>7, <2>9
  <2>12. list[1].record = world[id]
    <3>1. 1 \in 1..Len(l) /\ Len(l) + 1 - 1 = Len(l)
      BY <2>9
    <3> QED
      BY <2>6, <2>10, <3>1
  <2>13. list[Len(list)].type = "GRADE_SUBMITTED"
    <3>1. Len(l) \in 1..Len(l) /\ Len(l) + 1 - Len(l) = 1
      BY <2>9
    <3>2. list[Len(l)].type = GradeTransactionType(l[1].value.status)
      BY <2>10, <3>1
    <3> QED
      BY <2>6, <2>11, <3>2 DEF Path, GradeTransactionType
  <2>14. ASSUME NEW n \in DOMAIN list
         PROVE  list[n].record.student = c.cn
    <3>1. Len(l) + 1 - n \in 1..Len(l)
      BY <2>9, <2>10
    <3> QED
      BY <2>6, <2>10, <3>1 DEF Path
  <2>15. ASSUME NEW n \in DOMAIN list, list[n].type = "GRADE_FINALIZED"
         PROVE  /\ list[n + 1].type = "GRADE_APPROVED"
                /\ list[n + 1].record.grade = list[n].record.grade
    <3>1. PICK m : m = Len(l) + 1 - n
      OBVIOUS
    <3>2. n \in 1..Len(l) /\ m \in 1..Len(l)
      BY <2>9, <2>10, <3>1
    <3>3. /\ GradeTransactionType(l[m].value.status) = "GRADE_FINALIZED"
          /\ list[n].record = l[m].value
      BY <2>10, <2>15, <3>1, <3>2
    <3>4. l[m].value.status = "Finalized"
      BY <3>3 DEF GradeTransactionType
    <3>5. /\ m > 1 /\ l[m - 1].value.status = "DepartmentApproved"
          /\ l[m - 1].value.grade = l[m].value.grade
      BY <2>6, <3>2, <3>4 DEF Path
    <3>6. n + 1 \in 1..Len(l) /\ Len(l) + 1 - (n + 1) = m - 1
      BY <2>9, <3>1, <3>2, <3>5
    <3>7. /\ list[n + 1].type = GradeTransactionType(l[m - 1].value.status)
          /\ list[n + 1].record = l[m - 1].value
      BY <2>10, <3>6
    <3>8. GradeTransactionType("DepartmentApproved") = "GRADE_APPROVED"
      BY DEF GradeTransactionType
    <3> QED
      BY <3>3, <3>5, <3>7, <3>8
  <2> QED
    BY <2>8, <2>11, <2>12, <2>13, <2>14, <2>15
<1>2. IInv => StudentSeesALegalPath
  BY <1>1 DEF StudentSeesALegalPath
<1> QED
  BY <1>2, Invariant, PTL
=============================================================================
