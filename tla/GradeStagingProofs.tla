------------------------- MODULE GradeStagingProofs -------------------------
(* What the grade workflow keeps to for any certificates, records, grades,   *)
(* slots and number of handlers at once, whatever fails or interleaves: no   *)
(* record disappears, the ledger holds no grade that was not forwarded or    *)
(* corrected there, and logged corrections happened.                         *)
EXTENDS GradeStaging, SequenceTheorems, TLAPS

Rows == Row \cup {NoRow}

\* A record's key holds a record; audit events have keys of their own.
LedgerInv ==
    /\ world \in World
    /\ \A id \in RecordIds : world[id] \in Record \cup {Absent}
    /\ \A id \in RecordIds : world[id].status = "Finalized" => id \in everFinal

\* A row stands in the slot its id was made for, so two rows never share an id.
TableInv ==
    /\ staged \in [Slots -> Rows]
    /\ slotOf \in [RecordIds -> Slots \cup {NoSlot}]
    /\ \A s \in Slots : staged[s] # NoRow => slotOf[staged[s].id] = s
    /\ \A s \in Slots : staged[s].status = "DepartmentApproved"
                            => <<staged[s].id, staged[s].grade>> \in forwarded
    /\ NothingVanishes

-----------------------------------------------------------------------------
(* What a handler between two steps knows.                                 *)

CallNames == {"IssueGrade", "ReturnGrade", "UpdateGrade", "ApproveGrade", "FinalizeRecord"}

RequestRecords ==
    [op : {"none", "edit", "correct row", "import", "read ledger", "clean up", "finalize",
           "ledger only", "approve", "update", "flag", "correct", "log row", "log nothing"},
     id : RecordIds \cup {NoId}, grade : Grades \cup {NoGrade},
     about : Slots \cup Notes \cup {NoNote}, calls : Seq(CallNames)]

AskedFor(r) == r.id \in RecordIds /\ r.grade \in Grades

\* The calls each handler has still to make.
FinalizeCalls ==
    {<<"IssueGrade", "ApproveGrade", "FinalizeRecord">>, <<"ApproveGrade", "FinalizeRecord">>,
     <<"FinalizeRecord">>, <<>>}
CorrectCalls ==
    {<<"ReturnGrade", "UpdateGrade", "ApproveGrade", "FinalizeRecord">>,
     <<"UpdateGrade", "ApproveGrade", "FinalizeRecord">>, <<"ApproveGrade", "FinalizeRecord">>,
     <<"FinalizeRecord">>, <<>>}

\* Those of a correction that has not put its grade on the ledger.
Uncorrected == {c \in CorrectCalls : c # <<>> /\ Head(c) \in {"ReturnGrade", "UpdateGrade"}}

Corrected(r) == <<"UpdateGrade", r.id, r.grade>> \in written

\* An edit or a correction of a row is of a record that was staged, ...
Edits(r) ==
    /\ r.op \in {"edit", "correct row"} /\ AskedFor(r) /\ r.calls = <<>>
    /\ slotOf[r.id] # NoSlot

\* ... and if the correction met no row the record has been final.
Logs(r) ==
    /\ r.op \in {"log row", "log nothing"} /\ AskedFor(r) /\ r.calls = <<>>
    /\ r.op = "log nothing" => r.id \in everFinal

\* An import knows of no record or of one of its slot.
Imports(r) ==
    /\ r.op = "import" /\ r.about \in Slots /\ r.grade \in Grades /\ r.calls = <<>>
    /\ r.id = NoId \/ (r.id \in RecordIds /\ slotOf[r.id] = r.about)

\* A finalization carries a grade that was forwarded, ...
Finalizes(r) ==
    /\ AskedFor(r) /\ <<r.id, r.grade>> \in forwarded
    /\ \/ r.op = "read ledger" /\ r.calls = <<>>
       \/ r.op = "finalize" /\ r.calls \in FinalizeCalls \ {<<>>}

\* ... and before it deletes a row the record has been final.
CleansUp(r) ==
    /\ r.op = "clean up" \/ (r.op = "finalize" /\ r.calls = <<>>)
    /\ AskedFor(r) /\ r.id \in everFinal /\ r.calls = <<>>

ActsOnLedger(r) ==
    /\ r.id \in RecordIds
    /\ \/ r.op = "ledger only" /\ r.calls \in {<<"FinalizeRecord">>, <<>>}
       \/ r.op = "approve" /\ r.calls \in {<<"ApproveGrade">>, <<>>}
       \/ r.op = "flag" /\ AskedFor(r) /\ r.calls \in {<<"UpdateGrade">>, <<>>}

\* What a correction will log is on the ledger once UpdateGrade was accepted.
Corrects(r) ==
    /\ AskedFor(r)
    /\ \/ /\ r.op = "update"
          /\ r.calls = <<"UpdateGrade">> \/ (r.calls = <<>> /\ Corrected(r))
       \/ /\ r.op = "correct" /\ r.about \in Notes
          /\ r.calls \in Uncorrected \/ (r.calls \in CorrectCalls /\ Corrected(r))

Knows(r) ==
    /\ r \in RequestRecords
    /\ \/ r = Idle
       \/ Edits(r) \/ Logs(r) \/ Imports(r) \/ Finalizes(r)
       \/ CleansUp(r) \/ ActsOnLedger(r) \/ Corrects(r)

RequestsInv ==
    /\ requests = [q \in Requests |-> requests[q]]
    /\ \A q \in Requests : Knows(requests[q])

\* The calls the handlers make.
Calls ==
    UNION {IssueInvocations, ReturnInvocations, UpdateInvocations, ApproveInvocations,
           FinalizeInvocations}

\* Of a call there are, whether or not somebody waits: an issue is of a forwarded grade.
Backed(i) ==
    /\ i \in Calls
    /\ i.fn = "IssueGrade" => <<i.id, i.grade>> \in forwarded

LateInv == \A m \in late : Backed(m.inv)

IInv ==
    /\ LedgerInv /\ TableInv /\ RequestsInv /\ LateInv
    /\ LedgerGradesWereForwarded /\ LoggedCorrectionsHappened
    /\ faults \in 0..MaxFaults

-----------------------------------------------------------------------------
(* The ledger.                                                             *)

PutsGrade(i) == i.fn \in {"IssueGrade", "UpdateGrade"}

\* What the record of a call becomes when the call is committed.
After(w, t, i) ==
    LET wr == Execute(w, t, i).writes
    IN  IF i.id \in DOMAIN wr THEN wr[i.id] ELSE w[i.id]

Moves(w, t, i) ==
    /\ DOMAIN Execute(w, t, i).writes \subseteq {i.id}
    /\ \/ After(w, t, i) = w[i.id]
       \/ /\ After(w, t, i) \in Record
          /\ \/ PutsGrade(i) /\ After(w, t, i).grade = i.grade
             \/ w[i.id] \in Record /\ After(w, t, i).grade = w[i.id].grade
    /\ Execute(w, t, i).ok /\ i.fn = "FinalizeRecord" => After(w, t, i).status = "Finalized"

LEMMA AdvanceIsRecord ==
    ASSUME NEW r \in Record, NEW s \in Statuses, NEW g \in Grades,
           NEW n \in Notes \cup {NoNote}, NEW c \in Certs
    PROVE  /\ Advance(r, s, g, n, c.cn) \in Record
           /\ Advance(r, s, g, n, c.cn).grade = g
           /\ Advance(r, s, g, n, c.cn).status = s
BY DEF Advance, Record, StampRecord, Names

\* A call writes nothing or a new version of the record it names.
LEMMA CallMoves ==
    ASSUME NEW w, NEW t, NEW i \in Calls, w[i.id] \in Record \cup {Absent}
    PROVE  Moves(w, t, i)
<1> DEFINE r == w[i.id]
<1>0. /\ i.cert \in Certs
      /\ {"Returned", "Corrected", "DepartmentApproved", "Finalized"} \subseteq Statuses
  BY DEF Calls, IssueInvocations, ReturnInvocations, UpdateInvocations, ApproveInvocations,
         FinalizeInvocations, Statuses
<1>1. /\ Exists(w, i.id) => r \in Record
      /\ r \in Record => r.grade \in Grades /\ r.note \in Notes \cup {NoNote}
  BY DEF Exists, Absent, Record
<1> HIDE DEF r
<1>2. CASE i \in IssueInvocations
  <2>1. Execute(w, t, i) = IssueGrade(w, t, i)
    BY <1>2 DEF Execute, IssueInvocations
  <2>2. i.grade # NoGrade => Issued(i.cert, i.student, i.grade, 1) \in Record
    BY <1>2 DEF Issued, Record, Names, Statuses, IssueInvocations
  <2> QED
    BY <2>1, <2>2, <1>2
       DEF IssueGrade, When, Accept, Reject, Put, Moves, After, Issued, PutsGrade, IssueInvocations
<1>3. CASE i \in ReturnInvocations
  <2>1. Execute(w, t, i) = ReturnGrade(w, t, i)
    BY <1>3 DEF Execute, ReturnInvocations
  <2>2. r \in Record => /\ Advance(r, "Returned", r.grade, i.note, i.cert.cn) \in Record
                        /\ Advance(r, "Returned", r.grade, i.note, i.cert.cn).grade = r.grade
    BY <1>3, <1>0, <1>1, AdvanceIsRecord DEF ReturnInvocations
  <2> QED
    BY <2>1, <2>2, <1>1, <1>3
       DEF r, ReturnGrade, When, Accept, Reject, Put, Unwritten, Moves, After, ReturnInvocations
<1>4. CASE i \in UpdateInvocations
  <2>1. Execute(w, t, i) = UpdateGrade(w, t, i)
    BY <1>4 DEF Execute, UpdateInvocations
  <2>2. r \in Record /\ i.grade # NoGrade
           => /\ Advance(r, "Corrected", i.grade, r.note, i.cert.cn) \in Record
              /\ Advance(r, "Corrected", i.grade, r.note, i.cert.cn).grade = i.grade
    BY <1>4, <1>0, <1>1, AdvanceIsRecord DEF UpdateInvocations
  <2> QED
    BY <2>1, <2>2, <1>1, <1>4
       DEF r, UpdateGrade, When, Accept, Reject, Put, Moves, After, PutsGrade, UpdateInvocations
<1>5. CASE i \in ApproveInvocations
  <2>1. Execute(w, t, i) = ApproveGrade(w, t, i)
    BY <1>5 DEF Execute, ApproveInvocations
  <2>2. r \in Record
           => /\ Advance(r, "DepartmentApproved", r.grade, r.note, i.cert.cn) \in Record
              /\ Advance(r, "DepartmentApproved", r.grade, r.note, i.cert.cn).grade = r.grade
    BY <1>5, <1>0, <1>1, AdvanceIsRecord DEF ApproveInvocations
  <2> QED
    BY <2>1, <2>2, <1>1, <1>5
       DEF r, ApproveGrade, When, Accept, Reject, Put, Unwritten, Moves, After, ApproveInvocations
<1>6. CASE i \in FinalizeInvocations
  <2>1. Execute(w, t, i) = FinalizeRecord(w, t, i)
    BY <1>6 DEF Execute, FinalizeInvocations
  <2>2. r \in Record
           => /\ Advance(r, "Finalized", r.grade, r.note, i.cert.cn) \in Record
              /\ Advance(r, "Finalized", r.grade, r.note, i.cert.cn).grade = r.grade
              /\ Advance(r, "Finalized", r.grade, r.note, i.cert.cn).status = "Finalized"
    BY <1>6, <1>0, <1>1, AdvanceIsRecord DEF FinalizeInvocations
  <2> QED
    BY <2>1, <2>2, <1>1, <1>6
       DEF r, FinalizeRecord, When, Accept, Reject, Put, Unwritten, Moves, After, FinalizeInvocations
<1> QED
  BY <1>2, <1>3, <1>4, <1>5, <1>6 DEF Calls

LEMMA CallsNameRecords == \A i \in Calls : i.id \in RecordIds
BY DEF Calls, IssueInvocations, ReturnInvocations, UpdateInvocations, ApproveInvocations,
       FinalizeInvocations

\* A committed call keeps the ledger sound, and history only grows.
LEMMA CommitPreserves ==
    ASSUME LedgerInv, LedgerGradesWereForwarded, forwarded' = forwarded,
           NEW i, Backed(i), Commit(i)
    PROVE  /\ LedgerInv' /\ LedgerGradesWereForwarded'
           /\ written \subseteq written' /\ everFinal \subseteq everFinal'
           /\ i.fn = "UpdateGrade" => <<"UpdateGrade", i.id, i.grade>> \in written'
           /\ Outcome(i).ok /\ i.fn = "FinalizeRecord" => i.id \in everFinal'
<1> DEFINE t == CHOOSE t \in TxIds : TRUE
           o == Execute(world, t, i)
           v == After(world, t, i)
<1>1. i \in Calls /\ i.id \in RecordIds /\ i.id \in Keys
  BY CallsNameRecords DEF Backed, Keys
<1>2. world[i.id] \in Record \cup {Absent}
  BY <1>1 DEF LedgerInv
<1>3. Moves(world, t, i)
  BY <1>1, <1>2, CallMoves
<1>4. /\ o = Outcome(i) /\ DOMAIN o.writes \subseteq {i.id}
      /\ v = IF i.id \in DOMAIN o.writes THEN o.writes[i.id] ELSE world[i.id]
      /\ \/ v = world[i.id]
         \/ /\ v \in Record
            /\ \/ PutsGrade(i) /\ v.grade = i.grade
               \/ world[i.id] \in Record /\ v.grade = world[i.id].grade
      /\ o.ok /\ i.fn = "FinalizeRecord" => v.status = "Finalized"
  BY <1>3 DEF Moves, After, Outcome
<1> HIDE DEF o, v, t
<1>5. /\ world' = [k \in Keys |-> IF k = i.id THEN v ELSE world[k]]
      /\ written' = IF PutsGrade(i) THEN written \cup {<<i.fn, i.id, i.grade>>} ELSE written
      /\ everFinal' = IF world'[i.id].status = "Finalized"
                      THEN everFinal \cup {i.id} ELSE everFinal
  <2>1. world' = [k \in Keys |-> IF k \in DOMAIN o.writes THEN o.writes[k] ELSE world[k]]
    BY <1>4 DEF Commit
  <2>2. \A k \in Keys : (IF k \in DOMAIN o.writes THEN o.writes[k] ELSE world[k])
                          = (IF k = i.id THEN v ELSE world[k])
    BY <1>4
  <2> QED
    BY <2>1, <2>2 DEF Commit, PutsGrade
<1>6. world'[i.id] = v /\ \A k \in Keys : k # i.id => world'[k] = world[k]
  BY <1>1, <1>5
<1>7. v \in Record \cup {Absent}
  BY <1>2, <1>4
<1>8. LedgerInv'
  <2>1. world' \in World
    BY <1>5, <1>7 DEF LedgerInv, World, Value
  <2>2. ASSUME NEW id \in RecordIds
        PROVE  /\ world'[id] \in Record \cup {Absent}
               /\ world'[id].status = "Finalized" => id \in everFinal'
    <3>1. id \in Keys
      BY DEF Keys
    <3>2. CASE id = i.id
      BY <3>2, <1>5, <1>6, <1>7
    <3>3. CASE id # i.id
      BY <3>1, <3>3, <1>5, <1>6 DEF LedgerInv
    <3> QED
      BY <3>2, <3>3
  <2> QED
    BY <2>1, <2>2 DEF LedgerInv
<1>9. LedgerGradesWereForwarded'
  <2>1. ASSUME NEW id \in RecordIds, world'[id].status # "Absent"
        PROVE  \/ <<id, world'[id].grade>> \in forwarded
               \/ <<"UpdateGrade", id, world'[id].grade>> \in written'
    <3>1. id \in Keys
      BY DEF Keys
    <3>2. CASE world'[id].grade = world[id].grade /\ world[id].status # "Absent"
      BY <3>2, <1>5 DEF LedgerGradesWereForwarded, Exists
    <3>3. CASE id = i.id /\ PutsGrade(i) /\ v.grade = i.grade
      <4>1. world'[id].grade = i.grade
        BY <3>3, <1>6
      <4>2. CASE i.fn = "IssueGrade"
        BY <3>3, <4>1, <4>2 DEF Backed
      <4>3. CASE i.fn = "UpdateGrade"
        BY <3>3, <4>1, <4>3, <1>5
      <4> QED
        BY <3>3, <4>2, <4>3 DEF PutsGrade
    <3>4. CASE id # i.id
      BY <3>1, <3>2, <3>4, <2>1, <1>6
    <3>5. CASE id = i.id /\ v = world[i.id]
      BY <3>2, <3>5, <2>1, <1>6
    <3>6. CASE id = i.id /\ world[i.id] \in Record /\ v.grade = world[i.id].grade
      BY <3>2, <3>6, <1>6 DEF Record, Statuses
    <3> QED
      BY <3>3, <3>4, <3>5, <3>6, <1>4
  <2> QED
    BY <2>1 DEF LedgerGradesWereForwarded, Exists
<1>10. i.fn = "UpdateGrade" => <<"UpdateGrade", i.id, i.grade>> \in written'
  BY <1>5 DEF PutsGrade
<1> QED
  BY <1>4, <1>5, <1>6, <1>8, <1>9, <1>10

-----------------------------------------------------------------------------
(* The table.                                                              *)

LEMMA EmptyRow == NoRow.id \notin RecordIds /\ NoRow.status = "None" /\ NoRow \notin Row
BY ChaincodeAssumption DEF NoRow, Row

\* Slots get ids once.
SlotsKept == \A id \in RecordIds : slotOf[id] # NoSlot => slotOf'[id] = slotOf[id]

\* What is put in a slot fits it, and what it replaces goes on or has been final.
LEMMA SetRowsPreserves ==
    ASSUME TableInv, NEW S \in SUBSET Slots, NEW rows \in [S -> Rows], SetRows(rows),
           slotOf' \in [RecordIds -> Slots \cup {NoSlot}], SlotsKept,
           \A s \in S : rows[s] # NoRow => slotOf'[rows[s].id] = s,
           \A id \in RecordIds : slotOf'[id] # slotOf[id] => \E s \in S : rows[s].id = id,
           \A s \in S : staged[s] # NoRow =>
               rows[s].id = staged[s].id \/ staged[s].id \in everFinal,
           everFinal' = everFinal
    PROVE  TableInv' /\ forwarded \subseteq forwarded'
<1>1. /\ staged' = [s \in Slots |-> IF s \in S THEN rows[s] ELSE staged[s]]
      /\ forwarded' = forwarded \cup {<<rows[s].id, rows[s].grade>> :
             s \in {s \in S : rows[s].status = "DepartmentApproved"}}
  BY DEF SetRows
<1>2. staged' \in [Slots -> Rows]
  BY <1>1 DEF TableInv
<1>3. \A s \in Slots : staged'[s] = IF s \in S THEN rows[s] ELSE staged[s]
  BY <1>1
<1>4. \A s \in Slots : staged[s] # NoRow => staged[s].id \in RecordIds /\ s # NoSlot
  BY StagingAssumption DEF TableInv, Rows, Row
<1>5. ASSUME NEW s \in Slots, staged'[s] # NoRow
      PROVE  slotOf'[staged'[s].id] = s
  BY <1>3, <1>4, <1>5 DEF TableInv, SlotsKept
<1>6. ASSUME NEW s \in Slots, staged'[s].status = "DepartmentApproved"
      PROVE  <<staged'[s].id, staged'[s].grade>> \in forwarded'
  <2>1. CASE s \in S
    BY <2>1, <1>1, <1>3, <1>6
  <2>2. CASE s \notin S
    BY <2>2, <1>1, <1>3, <1>6 DEF TableInv
  <2> QED
    BY <2>1, <2>2
<1>7. ASSUME NEW id \in RecordIds, slotOf'[id] # NoSlot, id \notin everFinal'
      PROVE  \E s \in Slots : staged'[s].id = id
  <2>1. CASE slotOf'[id] # slotOf[id]
    BY <2>1, <1>3
  <2>2. CASE slotOf'[id] = slotOf[id]
    <3>1. PICK s \in Slots : staged[s].id = id
      BY <2>2, <1>7 DEF TableInv, NothingVanishes, Staged
    <3>2. staged[s] # NoRow
      BY <3>1, EmptyRow
    <3> QED
      BY <3>1, <3>2, <1>3, <1>7
  <2> QED
    BY <2>1, <2>2
<1>8. NothingVanishes'
  BY <1>7 DEF NothingVanishes, Staged
<1> QED
  BY <1>1, <1>2, <1>5, <1>6, <1>8 DEF TableInv

\* Rows changed in place.
LEMMA RowsKeptPreserves ==
    ASSUME TableInv, NEW S \in SUBSET Slots, NEW rows \in [S -> Row], SetRows(rows),
           \A s \in S : rows[s].id = staged[s].id, UNCHANGED <<slotOf, everFinal>>
    PROVE  TableInv' /\ forwarded \subseteq forwarded'
<1>1. ASSUME NEW s \in S
      PROVE  rows[s] # NoRow => slotOf'[rows[s].id] = s
  <2>1. rows[s] \in Row /\ staged[s] # NoRow
    BY EmptyRow DEF Row
  <2> QED
    BY <2>1 DEF TableInv
<1>2. /\ slotOf' \in [RecordIds -> Slots \cup {NoSlot}] /\ SlotsKept
      /\ \A id \in RecordIds : slotOf'[id] = slotOf[id]
      /\ rows \in [S -> Rows]
  BY DEF TableInv, SlotsKept, Rows
<1> QED
  BY <1>1, <1>2, SetRowsPreserves

LEMMA StatusPreserves ==
    ASSUME TableInv, NEW S \in SUBSET Slots, NEW status, SetStatus(S, status),
           status \in {"SubmittedToChairperson", "ChairpersonApproved", "DepartmentApproved",
                       "Returned"},
           \A s \in S : staged[s] # NoRow, UNCHANGED <<slotOf, everFinal>>
    PROVE  TableInv' /\ forwarded \subseteq forwarded'
<1> DEFINE rows == [s \in S |-> [staged[s] EXCEPT !.status = status]]
<1>1. ASSUME NEW s \in S
      PROVE  rows[s] \in Row /\ rows[s].id = staged[s].id
  <2>1. staged[s] \in Row
    BY DEF TableInv, Rows
  <2> QED
    BY <2>1 DEF Row
<1>2. SetRows(rows)
  BY DEF SetStatus
<1>3. rows \in [S -> Row]
  BY <1>1
<1> HIDE DEF rows
<1> QED
  BY <1>1, <1>2, <1>3, RowsKeptPreserves

\* One row is put in a slot: that slot's own record, one made for it, or a new one.
LEMMA PutRowPreserves ==
    ASSUME TableInv, NEW s \in Slots, NEW id \in RecordIds, NEW g \in Grades,
           SetRows(Put(s, [id |-> id, grade |-> g, status |-> "Draft"])),
           slotOf' = [slotOf EXCEPT ![id] = s], everFinal' = everFinal,
           slotOf[id] \in {NoSlot, s}, staged[s] # NoRow => id = staged[s].id
    PROVE  TableInv' /\ forwarded \subseteq forwarded' /\ SlotsKept
<1> DEFINE row == [id |-> id, grade |-> g, status |-> "Draft"]
           rows == Put(s, row)
           S == {s}
<1>1. row \in Row /\ row \in Rows /\ row.id = id
  BY DEF Row, Rows
<1>2. rows \in [S -> Rows] /\ \A x \in S : rows[x] = row
  BY <1>1 DEF Put
<1>3. SetRows(rows)
  OBVIOUS
<1>4. slotOf' \in [RecordIds -> Slots \cup {NoSlot}] /\ SlotsKept /\ slotOf'[id] = s
  BY DEF TableInv, SlotsKept
<1>5. \A x \in S : rows[x].id = id /\ x = s
  BY <1>1, <1>2
<1>6. S \in SUBSET Slots
  OBVIOUS
<1> HIDE DEF row, rows
<1>7. \A x \in RecordIds : slotOf'[x] # slotOf[x] => \E y \in S : rows[y].id = x
  BY <1>5 DEF TableInv
<1>8. \A x \in S : rows[x] # NoRow => slotOf'[rows[x].id] = x
  BY <1>4, <1>5
<1>9. \A x \in S : staged[x] # NoRow =>
          rows[x].id = staged[x].id \/ staged[x].id \in everFinal
  BY <1>5
<1> HIDE DEF S
<1> QED
  BY <1>2, <1>3, <1>4, <1>6, <1>7, <1>8, <1>9, SetRowsPreserves

-----------------------------------------------------------------------------
(* Handlers.                                                               *)

Grows ==
    /\ SlotsKept
    /\ forwarded \subseteq forwarded' /\ written \subseteq written'
    /\ everFinal \subseteq everFinal'

\* What a handler knows stays true.
LEMMA KnowsStays ==
    ASSUME NEW r, Knows(r), Grows
    PROVE  Knows(r)'
<1>0. (Edits(r) => Edits(r)') /\ (Logs(r) => Logs(r)')
  BY DEF Edits, Logs, AskedFor, Grows, SlotsKept
<1>1. Imports(r) => Imports(r)'
  BY StagingAssumption DEF Imports, Grows, SlotsKept
<1>2. Finalizes(r) => Finalizes(r)'
  BY DEF Finalizes, Grows
<1>3. CleansUp(r) => CleansUp(r)'
  BY DEF CleansUp, Grows
<1>4. Corrects(r) => Corrects(r)'
  BY DEF Corrects, Corrected, Grows
<1> QED
  BY <1>0, <1>1, <1>2, <1>3, <1>4 DEF Knows

LEMMA OneRequestChanges ==
    ASSUME RequestsInv, Grows, NEW q \in Requests, NEW r, Knows(r)',
           requests' = [requests EXCEPT ![q] = r]
    PROVE  RequestsInv'
<1>1. /\ requests' = [p \in Requests |-> requests'[p]]
      /\ \A p \in Requests : requests'[p] = IF p = q THEN r ELSE requests[p]
  BY DEF RequestsInv
<1>2. ASSUME NEW p \in Requests
      PROVE  \E x : x = requests[p] /\ Knows(x)'
  BY KnowsStays DEF RequestsInv
<1>3. ASSUME NEW p \in Requests
      PROVE  \E x : x = requests'[p] /\ Knows(x)'
  BY <1>1, <1>2
<1>4. \A p \in Requests : Knows(requests[p])'
  BY <1>3
<1> QED
  BY <1>1, <1>4 DEF RequestsInv

LEMMA NothingRequested ==
    ASSUME RequestsInv, Grows, requests' = requests
    PROVE  RequestsInv'
<1>1. ASSUME NEW p \in Requests
      PROVE  \E x : x = requests'[p] /\ Knows(x)'
  BY KnowsStays DEF RequestsInv
<1>2. \A p \in Requests : Knows(requests[p])'
  BY <1>1
<1> QED
  BY <1>2 DEF RequestsInv

LEMMA LateStays ==
    ASSUME LateInv, Grows, late' \subseteq late
    PROVE  LateInv'
BY DEF LateInv, Backed, Grows

LEMMA IdleKnows == Knows(Idle)'
<1>1. <<>> \in Seq(CallNames)
  OBVIOUS
<1>2. Idle = [op |-> "none", id |-> NoId, grade |-> NoGrade, about |-> NoNote, calls |-> <<>>]
  BY DEF Idle, Request
<1>3. Idle \in RequestRecords
  BY <1>1, <1>2 DEF RequestRecords
<1> QED
  BY <1>3 DEF Knows

\* The first call of each list, and what is left of it.
LEMMA FinalizeSteps ==
    ASSUME NEW c \in FinalizeCalls \ {<<>>}
    PROVE  /\ Head(c) \in {"IssueGrade", "ApproveGrade", "FinalizeRecord"}
           /\ Tail(c) \in FinalizeCalls
           /\ Tail(c) = <<>> => Head(c) = "FinalizeRecord"
<1>1. CASE c = <<"IssueGrade", "ApproveGrade", "FinalizeRecord">>
  <2>1. Head(c) = "IssueGrade" /\ Tail(c) = <<"ApproveGrade", "FinalizeRecord">>
    BY <1>1
  <2> QED
    BY <2>1 DEF FinalizeCalls
<1>2. CASE c = <<"ApproveGrade", "FinalizeRecord">>
  <2>1. Head(c) = "ApproveGrade" /\ Tail(c) = <<"FinalizeRecord">>
    BY <1>2
  <2> QED
    BY <2>1 DEF FinalizeCalls
<1>3. CASE c = <<"FinalizeRecord">>
  <2>1. Head(c) = "FinalizeRecord" /\ Tail(c) = <<>>
    BY <1>3
  <2> QED
    BY <2>1 DEF FinalizeCalls
<1> QED
  BY <1>1, <1>2, <1>3 DEF FinalizeCalls

LEMMA CorrectSteps ==
    ASSUME NEW c \in CorrectCalls \ {<<>>}
    PROVE  /\ Head(c) \in {"ReturnGrade", "UpdateGrade", "ApproveGrade", "FinalizeRecord"}
           /\ Tail(c) \in CorrectCalls
           /\ Head(c) = "ReturnGrade" => Tail(c) \in Uncorrected
<1>1. CASE c = <<"ReturnGrade", "UpdateGrade", "ApproveGrade", "FinalizeRecord">>
  <2> DEFINE d == <<"UpdateGrade", "ApproveGrade", "FinalizeRecord">>
  <2>1. Head(c) = "ReturnGrade" /\ Tail(c) = d
    BY <1>1
  <2>2. d # <<>> /\ Head(d) = "UpdateGrade" /\ d \in CorrectCalls
    BY DEF CorrectCalls
  <2> HIDE DEF d
  <2> QED
    BY <2>1, <2>2 DEF Uncorrected
<1>2. CASE c = <<"UpdateGrade", "ApproveGrade", "FinalizeRecord">>
  <2>1. Head(c) = "UpdateGrade" /\ Tail(c) = <<"ApproveGrade", "FinalizeRecord">>
    BY <1>2
  <2> QED
    BY <2>1 DEF CorrectCalls
<1>3. CASE c = <<"ApproveGrade", "FinalizeRecord">>
  <2>1. Head(c) = "ApproveGrade" /\ Tail(c) = <<"FinalizeRecord">>
    BY <1>3
  <2> QED
    BY <2>1 DEF CorrectCalls
<1>4. CASE c = <<"FinalizeRecord">>
  <2>1. Head(c) = "FinalizeRecord" /\ Tail(c) = <<>>
    BY <1>4
  <2> QED
    BY <2>1 DEF CorrectCalls
<1> QED
  BY <1>1, <1>2, <1>3, <1>4 DEF CorrectCalls

LEMMA SingleStep ==
    ASSUME NEW f, NEW c, c = <<f>>
    PROVE  c # <<>> /\ Head(c) = f /\ Tail(c) = <<>>
OBVIOUS

\* Who has calls to make.
LEMMA Callers ==
    ASSUME NEW r, Knows(r), r.calls # <<>>
    PROVE  \/ /\ Finalizes(r) /\ r.op = "finalize"
              /\ r.calls \in FinalizeCalls \ {<<>>}
           \/ /\ ActsOnLedger(r) /\ r.op \in {"ledger only", "approve", "flag"}
              /\ Tail(r.calls) = <<>>
              /\ Head(r.calls) \in {"FinalizeRecord", "ApproveGrade", "UpdateGrade"}
              /\ Head(r.calls) = "UpdateGrade" => r.grade \in Grades
           \/ /\ Corrects(r) /\ r.op = "update" /\ Head(r.calls) = "UpdateGrade"
              /\ Tail(r.calls) = <<>>
           \/ /\ Corrects(r) /\ r.op = "correct" /\ r.about \in Notes
              /\ r.calls \in CorrectCalls \ {<<>>}
<1>1. r # Idle
  BY DEF Idle, Request
<1>2. CASE Finalizes(r)
  BY <1>2 DEF Finalizes
<1>3. CASE ActsOnLedger(r)
  <2>1. CASE r.calls = <<"FinalizeRecord">>
    <3>1. Head(r.calls) = "FinalizeRecord" /\ Tail(r.calls) = <<>>
      BY <2>1
    <3>2. r.op \in {"ledger only", "approve", "flag"}
      BY <1>3 DEF ActsOnLedger
    <3> QED
      BY <1>3, <3>1, <3>2
  <2>2. CASE r.calls = <<"ApproveGrade">>
    <3>1. Head(r.calls) = "ApproveGrade" /\ Tail(r.calls) = <<>>
      BY <2>2
    <3>2. r.op \in {"ledger only", "approve", "flag"}
      BY <1>3 DEF ActsOnLedger
    <3> QED
      BY <1>3, <3>1, <3>2
  <2>3. CASE r.op = "flag" /\ r.calls = <<"UpdateGrade">>
    <3>1. Head(r.calls) = "UpdateGrade" /\ Tail(r.calls) = <<>>
      BY <2>3
    <3>2. r.grade \in Grades
      BY <1>3, <2>3 DEF ActsOnLedger, AskedFor
    <3> QED
      BY <1>3, <2>3, <3>1, <3>2
  <2> QED
    BY <1>3, <2>1, <2>2, <2>3 DEF ActsOnLedger
<1>4. CASE Corrects(r)
  <2>1. CASE r.op = "update"
    BY <1>4, <2>1, SingleStep DEF Corrects
  <2>2. CASE r.op = "correct"
    BY <1>4, <2>2 DEF Corrects, Uncorrected
  <2> QED
    BY <1>4, <2>1, <2>2 DEF Corrects
<1> QED
  BY <1>1, <1>2, <1>3, <1>4 DEF Knows, Edits, Logs, Imports, CleansUp

\* Whatever the handler and how far it is, its next call is backed by what it knows.
LEMMA InvocationBacked ==
    ASSUME NEW r, Knows(r), r.calls # <<>>
    PROVE  /\ Backed(Invocation(r))
           /\ Invocation(r).id = r.id
           /\ Invocation(r).fn = Head(r.calls)
           /\ Head(r.calls) = "UpdateGrade" => Invocation(r).grade = r.grade
<1> DEFINE fn == Head(r.calls)
           cert == CASE fn = "IssueGrade" \/ r.op \in {"update", "flag"} -> Professor
                     [] r.op = "approve" -> Chair
                     [] OTHER -> Registrar
<1>1. cert \in Certs
  BY StagingAssumption
<1>2. r.id \in RecordIds
  BY Callers DEF Finalizes, ActsOnLedger, Corrects, AskedFor
<1>3. fn \in {"IssueGrade", "ReturnGrade", "UpdateGrade", "ApproveGrade", "FinalizeRecord"}
  BY Callers, FinalizeSteps, CorrectSteps
<1>4. fn \in {"IssueGrade", "UpdateGrade"} => r.grade \in Grades
  BY Callers, FinalizeSteps, CorrectSteps DEF Finalizes, Corrects, AskedFor
<1>5. fn = "IssueGrade" => <<r.id, r.grade>> \in forwarded
  BY Callers, CorrectSteps DEF Finalizes
<1>6. fn = "ReturnGrade" => r.about \in Notes
  BY Callers, FinalizeSteps
<1>7. Invocation(r) = CASE fn = "IssueGrade" ->
                             [fn |-> fn, cert |-> cert, id |-> r.id,
                              student |-> StudentOf[r.id], grade |-> r.grade]
                        [] fn = "UpdateGrade" ->
                             [fn |-> fn, cert |-> cert, id |-> r.id, grade |-> r.grade]
                        [] fn = "ReturnGrade" ->
                             [fn |-> fn, cert |-> cert, id |-> r.id, note |-> r.about]
                        [] OTHER -> [fn |-> fn, cert |-> cert, id |-> r.id]
  BY DEF Invocation
<1> HIDE DEF fn, cert
<1>8. CASE fn = "IssueGrade"
  <2>1. Invocation(r) = [fn |-> fn, cert |-> cert, id |-> r.id, student |-> StudentOf[r.id],
                         grade |-> r.grade]
    BY <1>7, <1>8
  <2>2. StudentOf[r.id] \in Students
    BY <1>2, StagingAssumption
  <2> QED
    BY <2>1, <2>2, <1>1, <1>2, <1>4, <1>5, <1>8 DEF Backed, Calls, IssueInvocations, fn
<1>11. CASE fn = "UpdateGrade"
  <2>1. Invocation(r) = [fn |-> fn, cert |-> cert, id |-> r.id, grade |-> r.grade]
    BY <1>7, <1>11
  <2> QED
    BY <2>1, <1>1, <1>2, <1>4, <1>11 DEF Backed, Calls, UpdateInvocations, fn
<1>9. CASE fn = "ReturnGrade"
  <2>1. Invocation(r) = [fn |-> fn, cert |-> cert, id |-> r.id, note |-> r.about]
    BY <1>7, <1>9
  <2> QED
    BY <2>1, <1>1, <1>2, <1>6, <1>9 DEF Backed, Calls, ReturnInvocations, fn
<1>10. CASE fn \in {"ApproveGrade", "FinalizeRecord"}
  <2>1. Invocation(r) = [fn |-> fn, cert |-> cert, id |-> r.id]
    BY <1>7, <1>10
  <2> QED
    BY <2>1, <1>1, <1>2, <1>10 DEF Backed, Calls, ApproveInvocations, FinalizeInvocations, fn
<1> QED
  BY <1>3, <1>8, <1>9, <1>10, <1>11

\* When the call was accepted and the rest is to come, the handler knows what it must.
LEMMA AcceptedKnows ==
    ASSUME NEW r, Knows(r), r.calls # <<>>, Grows,
           Head(r.calls) = "UpdateGrade" => <<"UpdateGrade", r.id, r.grade>> \in written',
           Head(r.calls) = "FinalizeRecord" => r.id \in everFinal'
    PROVE  Knows([r EXCEPT !.calls = Tail(r.calls)])'
<1> DEFINE n == [r EXCEPT !.calls = Tail(r.calls)]
<1>1. /\ r \in RequestRecords
      /\ Tail(r.calls) \in Seq(CallNames)
  <2>1. r \in RequestRecords
    BY DEF Knows
  <2>2. r.calls \in Seq(CallNames)
    BY <2>1 DEF RequestRecords
  <2> QED
    BY <2>1, <2>2
<1>2. /\ n \in RequestRecords
      /\ n.op = r.op /\ n.id = r.id /\ n.grade = r.grade /\ n.about = r.about
      /\ n.calls = Tail(r.calls)
  BY <1>1 DEF RequestRecords
<1> HIDE DEF n
<1>3. CASE Finalizes(r) /\ r.op = "finalize" /\ r.calls \in FinalizeCalls \ {<<>>}
  <2>1. CASE Tail(r.calls) = <<>>
    <3>1. Head(r.calls) = "FinalizeRecord"
      BY <1>3, <2>1, FinalizeSteps
    <3>2. CleansUp(n)'
      BY <1>3, <2>1, <3>1, <1>2 DEF CleansUp, Finalizes, AskedFor
    <3> QED
      BY <1>2, <3>2 DEF Knows, n
  <2>2. CASE Tail(r.calls) # <<>>
    <3>1. Tail(r.calls) \in FinalizeCalls \ {<<>>}
      BY <1>3, <2>2, FinalizeSteps
    <3>2. Finalizes(n)'
      BY <3>1, <1>2, <1>3 DEF Finalizes, AskedFor, Grows
    <3> QED
      BY <1>2, <3>2 DEF Knows, n
  <2> QED
    BY <2>1, <2>2
<1>4. CASE ActsOnLedger(r) /\ Tail(r.calls) = <<>>
  <2>1. ActsOnLedger(n)'
    BY <1>4, <1>2 DEF ActsOnLedger, AskedFor
  <2> QED
    BY <1>2, <2>1 DEF Knows, n
<1>5. CASE /\ Corrects(r) /\ r.op = "update" /\ Head(r.calls) = "UpdateGrade"
           /\ Tail(r.calls) = <<>>
  <2>1. Corrects(n)'
    BY <1>5, <1>2 DEF Corrects, AskedFor, Corrected
  <2> QED
    BY <1>2, <2>1 DEF Knows, n
<1>6. CASE Corrects(r) /\ r.op = "correct" /\ r.calls \in CorrectCalls \ {<<>>}
  <2>1. Tail(r.calls) \in CorrectCalls /\ r.about \in Notes
    BY <1>6, CorrectSteps DEF Corrects
  <2>2. CASE Head(r.calls) = "ReturnGrade"
    <3>1. Tail(r.calls) \in Uncorrected
      BY <1>6, <2>2, CorrectSteps
    <3>2. Corrects(n)'
      BY <3>1, <1>6, <2>1, <1>2 DEF Corrects, AskedFor
    <3> QED
      BY <1>2, <3>2 DEF Knows, n
  <2>3. CASE Head(r.calls) # "ReturnGrade"
    <3>1. Corrected(n)'
      <4>1. CASE Head(r.calls) = "UpdateGrade"
        BY <4>1, <1>2 DEF Corrected
      <4>2. CASE Head(r.calls) # "UpdateGrade"
        BY <2>3, <4>2, <1>2, <1>6 DEF Corrects, Uncorrected, Corrected, Grows
      <4> QED
        BY <4>1, <4>2
    <3>2. Corrects(n)'
      BY <3>1, <1>6, <2>1, <1>2 DEF Corrects, AskedFor
    <3> QED
      BY <1>2, <3>2 DEF Knows, n
  <2> QED
    BY <2>2, <2>3
<1> QED
  BY <1>3, <1>4, <1>5, <1>6, Callers

-----------------------------------------------------------------------------
(* The steps.                                                              *)

\* The table changes, the ledger does not.
LEMMA TableStep ==
    ASSUME IInv, TableInv', Grows, UNCHANGED <<ledgerVars, late, faults, log>>, RequestsInv'
    PROVE  IInv'
<1>1. LedgerInv'
  BY DEF IInv, LedgerInv, ledgerVars
<1>2. LateInv'
  BY LateStays DEF IInv
<1>3. LedgerGradesWereForwarded'
  BY DEF IInv, LedgerGradesWereForwarded, Exists, ledgerVars, Grows
<1>4. LoggedCorrectionsHappened'
  BY DEF IInv, LoggedCorrectionsHappened, ledgerVars
<1> QED
  BY <1>1, <1>2, <1>3, <1>4 DEF IInv

\* Neither changes.
LEMMA RequestStep ==
    ASSUME IInv, UNCHANGED <<tableVars, ledgerVars>>, RequestsInv', LateInv',
           LoggedCorrectionsHappened', faults' \in 0..MaxFaults
    PROVE  IInv'
<1>1. LedgerInv'
  BY DEF IInv, LedgerInv, ledgerVars
<1>2. TableInv'
  BY DEF IInv, TableInv, NothingVanishes, Staged, ledgerVars, tableVars
<1>3. LedgerGradesWereForwarded'
  BY DEF IInv, LedgerGradesWereForwarded, Exists, ledgerVars, tableVars
<1> QED
  BY <1>1, <1>2, <1>3 DEF IInv

LEMMA GrowsUnchanged ==
    ASSUME UNCHANGED <<tableVars, ledgerVars>>
    PROVE  Grows
BY DEF Grows, SlotsKept, tableVars, ledgerVars

\* One request changes, nothing else but what was used of the faults.
LEMMA OneRequestStep ==
    ASSUME IInv, NEW q \in Requests, NEW r, Knows(r)', requests' = [requests EXCEPT ![q] = r],
           UNCHANGED <<tableVars, ledgerVars, late, log>>, faults' \in 0..MaxFaults
    PROVE  IInv'
<1>1. Grows
  BY GrowsUnchanged
<1>2. RequestsInv'
  BY <1>1, OneRequestChanges DEF IInv
<1>3. LateInv'
  BY <1>1, LateStays DEF IInv
<1>4. LoggedCorrectionsHappened'
  BY DEF IInv, LoggedCorrectionsHappened, ledgerVars
<1> QED
  BY <1>2, <1>3, <1>4, RequestStep

LEMMA RecordGradePreserves ==
    ASSUME IInv, NEW s \in Slots, NEW g \in Grades, RecordGrade(s, g)
    PROVE  IInv'
<1>1. PICK id \in IF staged[s] # NoRow THEN {staged[s].id} ELSE Fresh :
           /\ SetRows(Put(s, [id |-> id, grade |-> g, status |-> "Draft"]))
           /\ slotOf' = [slotOf EXCEPT ![id] = s]
  BY DEF RecordGrade
<1>2. /\ id \in RecordIds /\ slotOf[id] \in {NoSlot, s}
      /\ staged[s] # NoRow => id = staged[s].id
  BY <1>1 DEF IInv, TableInv, Rows, Row, Fresh
<1>3. UNCHANGED <<ledgerVars, late, requests, faults, log>>
  BY DEF RecordGrade
<1>4. TableInv' /\ forwarded \subseteq forwarded' /\ SlotsKept
  BY <1>1, <1>2, <1>3, PutRowPreserves DEF IInv, ledgerVars
<1>5. Grows
  BY <1>3, <1>4 DEF Grows, ledgerVars
<1>6. RequestsInv'
  BY <1>3, <1>5, NothingRequested DEF IInv
<1> QED
  BY <1>3, <1>4, <1>5, <1>6, TableStep

LEMMA StatusStep ==
    ASSUME IInv, NEW S \in SUBSET Slots, NEW status, SetStatus(S, status),
           status \in {"SubmittedToChairperson", "ChairpersonApproved", "DepartmentApproved",
                       "Returned"},
           \A s \in S : staged[s] # NoRow,
           UNCHANGED <<ledgerVars, late, requests, faults, slotOf, log>>
    PROVE  IInv'
<1>1. TableInv' /\ forwarded \subseteq forwarded'
  BY StatusPreserves DEF IInv, ledgerVars
<1>2. Grows
  BY <1>1 DEF Grows, SlotsKept, ledgerVars
<1>3. RequestsInv'
  BY <1>2, NothingRequested DEF IInv
<1> QED
  BY <1>1, <1>2, <1>3, TableStep

LEMMA SubmitSectionPreserves == IInv /\ SubmitSection => IInv'
<1> DEFINE rows == {s \in Slots : staged[s] # NoRow}
<1> SUFFICES ASSUME IInv, SubmitSection
             PROVE  IInv'
  OBVIOUS
<1>1. SetStatus(rows, "SubmittedToChairperson")
  BY DEF SubmitSection
<1>2. rows \in SUBSET Slots /\ \A s \in rows : staged[s] # NoRow
  OBVIOUS
<1>3. UNCHANGED <<ledgerVars, late, requests, faults, slotOf, log>>
  BY DEF SubmitSection
<1> HIDE DEF rows
<1> QED
  BY <1>1, <1>2, <1>3, StatusStep

LEMMA OneStatusPreserves ==
    ASSUME IInv, NEW s \in Slots, ApproveStaged(s) \/ ForwardStaged(s) \/ ReturnStaged(s)
    PROVE  IInv'
<1>1. staged[s] # NoRow
  BY EmptyRow DEF ApproveStaged, ForwardStaged, ReturnStaged
<1>2. PICK status \in {"ChairpersonApproved", "DepartmentApproved", "Returned"} :
          SetStatus({s}, status)
  BY DEF ApproveStaged, ForwardStaged, ReturnStaged
<1>3. UNCHANGED <<ledgerVars, late, requests, faults, slotOf, log>>
  BY DEF ApproveStaged, ForwardStaged, ReturnStaged
<1>4. {s} \in SUBSET Slots
  OBVIOUS
<1> QED
  BY <1>1, <1>2, <1>3, <1>4, StatusStep

\* A handler ends that wrote to the table.
LEMMA StoppedTableStep ==
    ASSUME IInv, NEW q \in Requests, Stop(q), TableInv', forwarded \subseteq forwarded', SlotsKept,
           UNCHANGED <<ledgerVars, late, faults, log>>
    PROVE  IInv'
<1>1. Grows
  BY DEF Grows, ledgerVars
<1>2. RequestsInv'
  BY <1>1, IdleKnows, OneRequestChanges DEF IInv, Stop
<1> QED
  BY <1>1, <1>2, TableStep

LEMMA RowsOf ==
    ASSUME TableInv, NEW id \in RecordIds
    PROVE  Staged(id) \in SUBSET Slots /\ \A s \in Staged(id) : staged[s] \in Row /\ staged[s].id = id
BY EmptyRow DEF Staged, TableInv, Rows

LEMMA IdleIs == Idle.op = "none" /\ Idle.calls = <<>>
BY DEF Idle, Request

\* What a request is, by the handler that made it.
LEMMA EditorsEdit ==
    ASSUME NEW r, Knows(r), r.op \in {"edit", "correct row"}
    PROVE  Edits(r)
<1>1. r # Idle
  BY IdleIs
<1>2. ~Imports(r) /\ ~Finalizes(r) /\ ~CleansUp(r) /\ ~Logs(r)
  BY DEF Imports, Finalizes, CleansUp, Logs
<1>3. ~ActsOnLedger(r) /\ ~Corrects(r)
  BY DEF ActsOnLedger, Corrects
<1> QED
  BY <1>1, <1>2, <1>3 DEF Knows

LEMMA FinalizersFinish ==
    ASSUME NEW r, Knows(r), r.op \in {"finalize", "clean up"}, r.calls = <<>>
    PROVE  CleansUp(r)
<1>1. r # Idle
  BY IdleIs
<1>2. ~Imports(r) /\ ~Finalizes(r) /\ ~Edits(r) /\ ~Logs(r)
  BY DEF Imports, Finalizes, Edits, Logs
<1>3. ~ActsOnLedger(r) /\ ~Corrects(r)
  BY DEF ActsOnLedger, Corrects
<1> QED
  BY <1>1, <1>2, <1>3 DEF Knows

LEMMA SlotsUnchanged == UNCHANGED slotOf => SlotsKept
BY DEF SlotsKept

LEMMA WriteEditPreserves ==
    ASSUME IInv, NEW q \in Requests, WriteEdit(q)
    PROVE  IInv'
<1> DEFINE r == requests[q]
           rows == [s \in Staged(r.id) |-> [staged[s] EXCEPT !.grade = r.grade]]
<1>1. Knows(r) /\ r.op = "edit"
  BY DEF IInv, RequestsInv, WriteEdit, Busy
<1>2. r.id \in RecordIds /\ r.grade \in Grades
  BY <1>1, EditorsEdit DEF Edits, AskedFor
<1>3. SetRows(rows) /\ Stop(q) /\ UNCHANGED <<ledgerVars, late, faults, slotOf, log>>
  BY DEF WriteEdit
<1> HIDE DEF r
<1>4. /\ Staged(r.id) \in SUBSET Slots
      /\ \A s \in Staged(r.id) : staged[s] \in Row /\ staged[s].id = r.id
  BY <1>2, RowsOf DEF IInv
<1>5. rows \in [Staged(r.id) -> Row] /\ \A s \in Staged(r.id) : rows[s].id = staged[s].id
  BY <1>2, <1>4 DEF Row
<1> HIDE DEF rows
<1>6. TableInv' /\ forwarded \subseteq forwarded'
  BY <1>3, <1>4, <1>5, RowsKeptPreserves DEF IInv, ledgerVars
<1> QED
  BY <1>3, <1>6, SlotsUnchanged, StoppedTableStep

LEMMA WriteCorrectionPreserves ==
    ASSUME IInv, NEW q \in Requests, WriteCorrection(q)
    PROVE  IInv'
<1>1. PICK r : r = requests[q]
  OBVIOUS
<1>2. PICK op : op = IF Staged(r.id) # {} THEN "log row" ELSE "log nothing"
  OBVIOUS
<1>3. Knows(r) /\ r.op = "correct row"
  BY <1>1 DEF IInv, RequestsInv, WriteCorrection, Busy
<1>4. r.id \in RecordIds /\ r.grade \in Grades /\ r.calls = <<>> /\ slotOf[r.id] # NoSlot
  BY <1>3, EditorsEdit DEF Edits, AskedFor
<1> DEFINE rows == [s \in Staged(r.id) |->
                      [staged[s] EXCEPT !.grade = r.grade, !.status = "Corrected"]]
<1>5. /\ SetRows(rows)
      /\ requests' = [requests EXCEPT ![q].op = op]
      /\ UNCHANGED <<ledgerVars, late, faults, slotOf, log>>
  BY <1>1, <1>2 DEF WriteCorrection
<1>6. /\ Staged(r.id) \in SUBSET Slots
      /\ \A s \in Staged(r.id) : staged[s] \in Row /\ staged[s].id = r.id
  BY <1>4, RowsOf DEF IInv
<1>7. rows \in [Staged(r.id) -> Row] /\ \A s \in Staged(r.id) : rows[s].id = staged[s].id
  BY <1>4, <1>6 DEF Row
<1> HIDE DEF rows
<1>8. TableInv' /\ forwarded \subseteq forwarded'
  BY <1>5, <1>6, <1>7, RowsKeptPreserves DEF IInv, ledgerVars
<1>9. Grows
  BY <1>5, <1>8, SlotsUnchanged DEF Grows, ledgerVars
<1>10. PICK n : n = [r EXCEPT !.op = op]
  OBVIOUS
<1>11. /\ n \in RequestRecords /\ n.op = op
       /\ n.id = r.id /\ n.grade = r.grade /\ n.calls = r.calls
  BY <1>2, <1>3, <1>10 DEF Knows, RequestRecords
<1>12. requests' = [requests EXCEPT ![q] = n]
  BY <1>1, <1>5, <1>10
<1>13. Staged(r.id) = {} => r.id \in everFinal
  BY <1>4 DEF IInv, TableInv, NothingVanishes
<1>14. Knows(n)
  BY <1>2, <1>4, <1>11, <1>13 DEF Knows, Logs, AskedFor
<1>15. RequestsInv'
  BY <1>9, <1>12, <1>14, KnowsStays, OneRequestChanges DEF IInv
<1> QED
  BY <1>5, <1>8, <1>9, <1>15, TableStep

LEMMA WriteImportPreserves ==
    ASSUME IInv, NEW q \in Requests, WriteImport(q)
    PROVE  IInv'
<1> DEFINE r == requests[q]
           s == r.about
<1>1. Knows(r) /\ r.op = "import"
  BY DEF IInv, RequestsInv, WriteImport, Busy
<1>2. Imports(r)
  BY <1>1 DEF Knows, Edits, Logs, Imports, Finalizes, CleansUp, ActsOnLedger, Corrects, Idle, Request
<1>3. PICK id \in IF staged[s] # NoRow THEN {staged[s].id}
                  ELSE IF r.id # NoId THEN {r.id} ELSE Fresh :
           /\ SetRows(Put(s, [id |-> id, grade |-> r.grade, status |-> "Draft"]))
           /\ slotOf' = [slotOf EXCEPT ![id] = s]
  BY DEF WriteImport
<1>4. Stop(q) /\ UNCHANGED <<ledgerVars, late, faults, log>>
  BY DEF WriteImport
<1> HIDE DEF r
<1>5. s \in Slots /\ r.grade \in Grades
  BY <1>2 DEF Imports
<1>6. /\ id \in RecordIds /\ slotOf[id] \in {NoSlot, s}
      /\ staged[s] # NoRow => id = staged[s].id
  <2>1. CASE staged[s] # NoRow
    BY <2>1, <1>3, <1>5 DEF IInv, TableInv, Rows, Row
  <2>2. CASE staged[s] = NoRow /\ r.id # NoId
    BY <2>2, <1>2, <1>3 DEF Imports
  <2>3. CASE staged[s] = NoRow /\ r.id = NoId
    BY <2>3, <1>3 DEF Fresh
  <2> QED
    BY <2>1, <2>2, <2>3
<1>7. TableInv' /\ forwarded \subseteq forwarded' /\ SlotsKept
  BY <1>3, <1>4, <1>5, <1>6, PutRowPreserves DEF IInv, ledgerVars
<1> QED
  BY <1>4, <1>7, StoppedTableStep

\* The row goes only when the record has been final.
LEMMA DeleteStagedPreserves ==
    ASSUME IInv, NEW q \in Requests, DeleteStaged(q)
    PROVE  IInv'
<1> DEFINE r == requests[q]
           S == Staged(r.id)
           rows == [s \in S |-> NoRow]
<1>1. Knows(r) /\ r.op \in {"finalize", "clean up"} /\ r.calls = <<>>
  BY DEF IInv, RequestsInv, DeleteStaged, Busy, Calling
<1>2. r.id \in RecordIds /\ r.id \in everFinal
  BY <1>1, FinalizersFinish DEF CleansUp, AskedFor
<1>3. SetRows(rows) /\ Stop(q) /\ UNCHANGED <<ledgerVars, late, faults, slotOf, log>>
  BY DEF DeleteStaged
<1> HIDE DEF r
<1>4. S \in SUBSET Slots /\ \A s \in S : staged[s].id = r.id
  BY <1>2, RowsOf DEF IInv
<1>5. rows \in [S -> Rows] /\ \A s \in S : rows[s] = NoRow
  BY DEF Rows
<1> HIDE DEF S, rows
<1>6. /\ slotOf' \in [RecordIds -> Slots \cup {NoSlot}] /\ SlotsKept
      /\ \A id \in RecordIds : slotOf'[id] = slotOf[id]
      /\ everFinal' = everFinal
  BY <1>3 DEF IInv, TableInv, SlotsKept, ledgerVars
<1>7. TableInv' /\ forwarded \subseteq forwarded'
  BY <1>2, <1>3, <1>4, <1>5, <1>6, SetRowsPreserves DEF IInv
<1> QED
  BY <1>3, <1>6, <1>7, StoppedTableStep

\* A handler begins, and with it what it knows.
LEMMA StartStep ==
    ASSUME IInv, NEW q \in Requests, NEW r, Knows(r), Start(q, r),
           UNCHANGED <<tableVars, ledgerVars, late, log>>, faults' \in 0..MaxFaults
    PROVE  IInv'
<1>1. Knows(r)'
  BY GrowsUnchanged, KnowsStays
<1> QED
  BY <1>1, OneRequestStep DEF Start

LEMMA NoCalls == <<>> \in Seq(CallNames)
OBVIOUS

\* A request made of an operation, an id, a grade, a slot or reason, and calls to make.
LEMMA Made ==
    ASSUME NEW op, NEW id, NEW g, NEW about, NEW calls,
           Request(op, id, g, about, calls) \in RequestRecords
    PROVE  \E r : /\ r = Request(op, id, g, about, calls) /\ r \in RequestRecords
                  /\ r.op = op /\ r.id = id /\ r.grade = g /\ r.about = about /\ r.calls = calls
BY DEF Request

LEMMA RowIs ==
    ASSUME IInv, NEW s \in Slots, staged[s] # NoRow
    PROVE  /\ staged[s].id \in RecordIds /\ staged[s].grade \in Grades
           /\ slotOf[staged[s].id] # NoSlot
BY StagingAssumption DEF IInv, TableInv, Rows, Row

LEMMA RecordIs ==
    ASSUME IInv, NEW id \in RecordIds, Exists(world, id)
    PROVE  world[id] \in Record /\ world[id].grade \in Grades
BY DEF IInv, LedgerInv, Exists, Absent, Record

LEMMA FaultsStay == IInv /\ UNCHANGED faults => faults' \in 0..MaxFaults
BY DEF IInv

LEMMA FaultsGrow == IInv /\ faults < MaxFaults /\ faults' = faults + 1 => faults' \in 0..MaxFaults
BY StagingAssumption DEF IInv

LEMMA StartEditPreserves ==
    ASSUME IInv, NEW q \in Requests, NEW s \in Slots, NEW g \in Grades,
           StartEdit(q, s) \/ StartCorrection(q, s, g)
    PROVE  IInv'
<1>1. staged[s] # NoRow /\ UNCHANGED <<tableVars, ledgerVars, late, faults, log>>
  BY DEF StartEdit, StartCorrection
<1>2. PICK op \in {"edit", "correct row"}, id \in RecordIds, h \in Grades :
          Start(q, Request(op, id, h, NoNote, <<>>)) /\ slotOf[id] # NoSlot
  BY <1>1, RowIs DEF StartEdit, StartCorrection
<1>3. <<>> \in Seq(CallNames)
  BY NoCalls
<1>4. Request(op, id, h, NoNote, <<>>) \in RequestRecords
  BY <1>3 DEF Request, RequestRecords
<1>5. PICK r : r = Request(op, id, h, NoNote, <<>>)
  OBVIOUS
<1>6. r.op = op /\ r.id = id /\ r.grade = h /\ r.calls = <<>>
  BY <1>5 DEF Request
<1>7. Knows(r)
  BY <1>2, <1>4, <1>5, <1>6 DEF Knows, Edits, AskedFor
<1> QED
  BY <1>1, <1>2, <1>5, <1>7, FaultsStay, StartStep

LEMMA StartImportPreserves ==
    ASSUME IInv, NEW q \in Requests, NEW s \in Slots, NEW g \in Grades, StartImport(q, s, g)
    PROVE  IInv'
<1> DEFINE found == {id \in RecordIds : slotOf[id] = s /\ Exists(world, id)}
<1>1. PICK id \in found \cup {NoId} : Start(q, Request("import", id, g, s, <<>>))
  BY DEF StartImport
<1>2. /\ UNCHANGED <<tableVars, ledgerVars, late, log>>
      /\ UNCHANGED faults \/ (faults < MaxFaults /\ faults' = faults + 1)
  BY DEF StartImport
<1>3. id = NoId \/ (id \in RecordIds /\ slotOf[id] = s)
  BY <1>1
<1>4. Request("import", id, g, s, <<>>) \in RequestRecords
  BY <1>3 DEF Request, RequestRecords
<1>5. PICK r : /\ r = Request("import", id, g, s, <<>>) /\ r \in RequestRecords
               /\ r.op = "import" /\ r.id = id /\ r.grade = g /\ r.about = s /\ r.calls = <<>>
  BY <1>4, Made
<1>6. Knows(r)
  BY <1>3, <1>5 DEF Knows, Imports
<1>7. Start(q, r)
  BY <1>1, <1>5
<1>8. faults' \in 0..MaxFaults
  BY <1>2, FaultsStay, FaultsGrow
<1> QED
  BY <1>2, <1>6, <1>7, <1>8, StartStep

\* Only a forwarded row is finalized.
LEMMA StartFinalizePreserves ==
    ASSUME IInv, NEW q \in Requests, NEW s \in Slots, StartFinalize(q, s)
    PROVE  IInv'
<1>1. staged[s] # NoRow
  BY EmptyRow DEF StartFinalize
<1>2. <<staged[s].id, staged[s].grade>> \in forwarded
  BY DEF IInv, TableInv, StartFinalize
<1>3. PICK id \in RecordIds, g \in Grades :
          /\ <<id, g>> \in forwarded
          /\ Start(q, Request("read ledger", id, g, NoNote, <<>>))
  BY <1>1, <1>2, RowIs DEF StartFinalize
<1>4. Request("read ledger", id, g, NoNote, <<>>) \in RequestRecords
  BY DEF Request, RequestRecords
<1>5. PICK r : r = Request("read ledger", id, g, NoNote, <<>>)
  OBVIOUS
<1>6. r.op = "read ledger" /\ r.id = id /\ r.grade = g /\ r.calls = <<>>
  BY <1>5 DEF Request
<1>7. Knows(r)
  BY <1>3, <1>4, <1>5, <1>6 DEF Knows, Finalizes, AskedFor
<1>8. UNCHANGED <<tableVars, ledgerVars, late, faults, log>>
  BY DEF StartFinalize
<1> QED
  BY <1>3, <1>5, <1>7, <1>8, FaultsStay, StartStep

LEMMA OneCall ==
    ASSUME NEW f \in CallNames
    PROVE  <<f>> \in Seq(CallNames)
OBVIOUS

LEMMA StartOnLedgerPreserves ==
    ASSUME IInv, NEW q \in Requests, NEW id \in RecordIds,
           StartFinalizeOnLedger(q, id) \/ StartApproveOnLedger(q, id) \/ StartFlagOnLedger(q, id)
    PROVE  IInv'
<1>1. PICK op, g, f : /\ Start(q, Request(op, id, g, NoNote, <<f>>))
                      /\ \/ op = "ledger only" /\ g = NoGrade /\ f = "FinalizeRecord"
                         \/ op = "approve" /\ g = NoGrade /\ f = "ApproveGrade"
                         \/ op = "flag" /\ g = world[id].grade /\ f = "UpdateGrade"
  BY DEF StartFinalizeOnLedger, StartApproveOnLedger, StartFlagOnLedger
<1>2. Exists(world, id) /\ UNCHANGED <<tableVars, ledgerVars, late, faults, log>>
  BY DEF StartFinalizeOnLedger, StartApproveOnLedger, StartFlagOnLedger
<1>3. op = "flag" => g \in Grades
  BY <1>1, <1>2, RecordIs
<1>4. Request(op, id, g, NoNote, <<f>>) \in RequestRecords
  BY <1>1, <1>3, OneCall DEF Request, RequestRecords, CallNames
<1>5. PICK r : /\ r = Request(op, id, g, NoNote, <<f>>) /\ r \in RequestRecords
               /\ r.op = op /\ r.id = id /\ r.grade = g /\ r.calls = <<f>>
  BY <1>4, Made
<1>6. Knows(r)
  BY <1>1, <1>3, <1>5 DEF Knows, ActsOnLedger, AskedFor
<1> QED
  BY <1>1, <1>2, <1>5, <1>6, FaultsStay, StartStep

LEMMA StartUpdatePreserves ==
    ASSUME IInv, NEW q \in Requests, NEW id \in RecordIds, NEW g \in Grades,
           StartUpdateOnLedger(q, id, g)
    PROVE  IInv'
<1>1. /\ Start(q, Request("update", id, g, NoNote, <<"UpdateGrade">>))
      /\ UNCHANGED <<tableVars, ledgerVars, late, faults, log>>
  BY DEF StartUpdateOnLedger
<1>2. Request("update", id, g, NoNote, <<"UpdateGrade">>) \in RequestRecords
  BY OneCall DEF Request, RequestRecords, CallNames
<1>3. PICK r : /\ r = Request("update", id, g, NoNote, <<"UpdateGrade">>)
               /\ r \in RequestRecords
               /\ r.op = "update" /\ r.id = id /\ r.grade = g /\ r.calls = <<"UpdateGrade">>
  BY <1>2, Made
<1>4. Knows(r)
  BY <1>3 DEF Knows, Corrects, AskedFor
<1> QED
  BY <1>1, <1>3, <1>4, FaultsStay, StartStep

LEMMA StartRegistrarCorrectionPreserves ==
    ASSUME IInv, NEW q \in Requests, NEW id \in RecordIds, NEW g \in Grades, NEW n \in Reasons,
           StartRegistrarCorrection(q, id, g, n)
    PROVE  IInv'
<1> DEFINE calls == <<"ReturnGrade", "UpdateGrade", "ApproveGrade", "FinalizeRecord">>
<1>1. /\ Start(q, Request("correct", id, g, n, calls))
      /\ UNCHANGED <<tableVars, ledgerVars, late, faults, log>>
  BY DEF StartRegistrarCorrection
<1>2. calls \in Seq(CallNames) /\ calls \in CorrectCalls
  BY DEF CallNames, CorrectCalls
<1>3. calls # <<>> /\ Head(calls) = "ReturnGrade"
  OBVIOUS
<1>4. n \in Notes
  BY StagingAssumption
<1> HIDE DEF calls
<1>5. Request("correct", id, g, n, calls) \in RequestRecords
  BY <1>2, <1>4 DEF Request, RequestRecords
<1>6. PICK r : /\ r = Request("correct", id, g, n, calls) /\ r \in RequestRecords
               /\ r.op = "correct" /\ r.id = id /\ r.grade = g /\ r.about = n
               /\ r.calls = calls
  BY <1>5, Made
<1>7. Knows(r)
  BY <1>2, <1>3, <1>4, <1>6 DEF Knows, Corrects, AskedFor, Uncorrected
<1> QED
  BY <1>1, <1>6, <1>7, FaultsStay, StartStep

LEMMA Joined ==
    ASSUME NEW S, NEW s \in Seq(S), NEW t \in Seq(S), NEW u \in Seq(S),
           Len(u) = Len(s) + Len(t),
           \A i \in 1..Len(u) : u[i] = IF i <= Len(s) THEN s[i] ELSE t[i - Len(s)]
    PROVE  s \o t = u
<1> DEFINE v == s \o t
<1>1. /\ v \in Seq(S) /\ Len(v) = Len(s) + Len(t)
      /\ \A i \in 1..(Len(s) + Len(t)) : v[i] = IF i <= Len(s) THEN s[i] ELSE t[i - Len(s)]
  BY ConcatProperties
<1> HIDE DEF v
<1>2. v = u
  BY <1>1, SeqEqual
<1> QED
  BY <1>2 DEF v

LEMMA TwoJoined ==
    ASSUME NEW a \in CallNames, NEW b \in CallNames
    PROVE  <<a>> \o <<b>> = <<a, b>>
<1> DEFINE s == <<a>>
           t == <<b>>
           u == <<a, b>>
<1>1. s \in Seq(CallNames) /\ Len(s) = 1 /\ s[1] = a
  OBVIOUS
<1>2. t \in Seq(CallNames) /\ Len(t) = 1 /\ t[1] = b
  OBVIOUS
<1>3. u \in Seq(CallNames) /\ Len(u) = 2 /\ u[1] = a /\ u[2] = b
  OBVIOUS
<1> HIDE DEF s, t, u
<1>4. \A i \in 1..Len(u) : u[i] = IF i <= Len(s) THEN s[i] ELSE t[i - Len(s)]
  BY <1>1, <1>2, <1>3
<1>5. s \in Seq(CallNames) /\ t \in Seq(CallNames) /\ u \in Seq(CallNames)
  BY <1>1, <1>2, <1>3
<1>6. Len(u) = Len(s) + Len(t)
  BY <1>1, <1>2, <1>3
<1>7. s \o t = u
  BY <1>4, <1>5, <1>6, Joined
<1> QED
  BY <1>7 DEF s, t, u

LEMMA ThreeJoined ==
    ASSUME NEW a \in CallNames, NEW b \in CallNames, NEW c \in CallNames
    PROVE  <<a, b>> \o <<c>> = <<a, b, c>>
<1> DEFINE s == <<a, b>>
           t == <<c>>
           u == <<a, b, c>>
<1>1. s \in Seq(CallNames) /\ Len(s) = 2 /\ s[1] = a /\ s[2] = b
  OBVIOUS
<1>2. t \in Seq(CallNames) /\ Len(t) = 1 /\ t[1] = c
  OBVIOUS
<1>3. u \in Seq(CallNames) /\ Len(u) = 3 /\ u[1] = a /\ u[2] = b /\ u[3] = c
  OBVIOUS
<1> HIDE DEF s, t, u
<1>4. \A i \in 1..Len(u) : u[i] = IF i <= Len(s) THEN s[i] ELSE t[i - Len(s)]
  BY <1>1, <1>2, <1>3
<1>5. s \in Seq(CallNames) /\ t \in Seq(CallNames) /\ u \in Seq(CallNames)
  BY <1>1, <1>2, <1>3
<1>6. Len(u) = Len(s) + Len(t)
  BY <1>1, <1>2, <1>3
<1>7. s \o t = u
  BY <1>4, <1>5, <1>6, Joined
<1> QED
  BY <1>7 DEF s, t, u

\* The calls still to be made end with the record's finalization.
LEMMA CallsPlanned ==
    ASSUME NEW status
    PROVE  CallsToFinalize(status) \in FinalizeCalls \ {<<>>}
<1>1. CASE status = "Absent"
  <2>1. CallsToFinalize(status) = <<"IssueGrade", "ApproveGrade", "FinalizeRecord">>
    BY <1>1, TwoJoined, ThreeJoined DEF CallsToFinalize, CallNames
  <2> QED
    BY <2>1 DEF FinalizeCalls
<1>2. CASE status = "DepartmentApproved"
  <2>1. CallsToFinalize(status) = <<"FinalizeRecord">>
    BY <1>2 DEF CallsToFinalize
  <2> QED
    BY <2>1 DEF FinalizeCalls
<1>3. CASE status \notin {"Absent", "DepartmentApproved"}
  <2>1. CallsToFinalize(status) = <<"ApproveGrade", "FinalizeRecord">>
    <3>1. <<>> \o <<"ApproveGrade">> = <<"ApproveGrade">>
      OBVIOUS
    <3> QED
      BY <3>1, <1>3, TwoJoined DEF CallsToFinalize, CallNames
  <2> QED
    BY <2>1 DEF FinalizeCalls
<1> QED
  BY <1>1, <1>2, <1>3

LEMMA CallLists == FinalizeCalls \subseteq Seq(CallNames)
<1>1. <<"IssueGrade", "ApproveGrade", "FinalizeRecord">> \in Seq(CallNames)
  BY DEF CallNames
<1>2. <<"ApproveGrade", "FinalizeRecord">> \in Seq(CallNames)
  BY DEF CallNames
<1>3. <<"FinalizeRecord">> \in Seq(CallNames)
  BY DEF CallNames
<1> QED
  BY <1>1, <1>2, <1>3, NoCalls DEF FinalizeCalls

LEMMA PlanFinalizePreserves ==
    ASSUME IInv, NEW q \in Requests, PlanFinalize(q)
    PROVE  IInv'
<1>1. PICK r : r = requests[q]
  OBVIOUS
<1>2. Knows(r) /\ r.op = "read ledger"
  BY <1>1 DEF IInv, RequestsInv, PlanFinalize, Busy
<1>3. r \in RequestRecords /\ Finalizes(r) /\ r.calls = <<>>
  BY <1>2, IdleIs DEF Knows, Edits, Logs, Imports, Finalizes, CleansUp, ActsOnLedger, Corrects
<1>4. r.id \in RecordIds /\ AskedFor(r) /\ <<r.id, r.grade>> \in forwarded
  BY <1>3 DEF Finalizes, AskedFor
<1>5. PICK op, calls :
          /\ requests' = [requests EXCEPT ![q].op = op, ![q].calls = calls]
          /\ \/ op = "clean up" /\ calls = <<>> /\ world[r.id].status = "Finalized"
             \/ op = "finalize" /\ calls \in FinalizeCalls \ {<<>>}
  BY <1>1, CallsPlanned DEF PlanFinalize
<1>6. /\ UNCHANGED <<tableVars, ledgerVars, late, log>>
      /\ UNCHANGED faults \/ (faults < MaxFaults /\ faults' = faults + 1)
  BY DEF PlanFinalize
<1>7. PICK n : n = [op |-> op, id |-> r.id, grade |-> r.grade, about |-> r.about,
                    calls |-> calls]
  OBVIOUS
<1>8. /\ n.op = op /\ n.id = r.id /\ n.grade = r.grade /\ n.about = r.about
      /\ n.calls = calls
  BY <1>7
<1>9. requests' = [requests EXCEPT ![q] = n]
  <2> DEFINE Fields == {"op", "id", "grade", "about", "calls"}
  <2>1. [r EXCEPT !.op = op, !.calls = calls] = n
    <3>1. r = [x \in Fields |-> r[x]]
      BY <1>3 DEF RequestRecords
    <3>2. [r EXCEPT !.op = op, !.calls = calls]
            = [x \in Fields |-> IF x = "calls" THEN calls ELSE IF x = "op" THEN op ELSE r[x]]
      BY <3>1
    <3>3. n = [x \in Fields |-> IF x = "calls" THEN calls ELSE IF x = "op" THEN op ELSE r[x]]
      BY <1>7
    <3> QED
      BY <3>2, <3>3
  <2>2. requests' = [requests EXCEPT ![q] = [requests[q] EXCEPT !.op = op, !.calls = calls]]
    BY <1>5 DEF IInv, RequestsInv
  <2> QED
    BY <2>1, <2>2, <1>1
<1>10. n \in RequestRecords
  BY <1>3, <1>5, <1>7, NoCalls, CallLists DEF RequestRecords
<1>11. Knows(n)
  <2>1. CASE op = "clean up"
    <3>1. r.id \in everFinal
      BY <2>1, <1>4, <1>5 DEF IInv, LedgerInv
    <3> QED
      BY <2>1, <3>1, <1>4, <1>5, <1>8, <1>10 DEF Knows, CleansUp, AskedFor
  <2>2. CASE op = "finalize"
    BY <2>2, <1>4, <1>5, <1>8, <1>10 DEF Knows, Finalizes, AskedFor
  <2> QED
    BY <2>1, <2>2, <1>5
<1>12. Knows(n)'
  BY <1>6, <1>11, GrowsUnchanged, KnowsStays
<1>13. faults' \in 0..MaxFaults
  BY <1>6, FaultsStay, FaultsGrow
<1> QED
  BY <1>6, <1>9, <1>12, <1>13, OneRequestStep

\* The handler's next call is committed: the ledger has it and the handler knows.
LEMMA CallAcceptedPreserves ==
    ASSUME IInv, NEW q \in Requests, CallAccepted(q)
    PROVE  IInv'
<1>1. PICK r, i : r = requests[q] /\ i = Invocation(r)
  OBVIOUS
<1>2. Knows(r) /\ r.calls # <<>>
  BY <1>1 DEF IInv, RequestsInv, CallAccepted, Calling
<1>3. /\ Backed(i) /\ i.id = r.id /\ i.fn = Head(r.calls)
      /\ Head(r.calls) = "UpdateGrade" => i.grade = r.grade
  BY <1>1, <1>2, InvocationBacked
<1>4. /\ Outcome(i).ok /\ Commit(i)
      /\ requests' = [requests EXCEPT ![q].calls = Tail(@)]
      /\ UNCHANGED <<tableVars, late, faults, log>>
  BY <1>1 DEF CallAccepted
<1>5. /\ LedgerInv' /\ LedgerGradesWereForwarded'
      /\ written \subseteq written' /\ everFinal \subseteq everFinal'
      /\ i.fn = "UpdateGrade" => <<"UpdateGrade", i.id, i.grade>> \in written'
      /\ i.fn = "FinalizeRecord" => i.id \in everFinal'
  BY <1>3, <1>4, CommitPreserves DEF IInv, tableVars
<1>6. Grows
  BY <1>4, <1>5 DEF Grows, SlotsKept, tableVars
<1>7. Knows([r EXCEPT !.calls = Tail(r.calls)])'
  BY <1>2, <1>3, <1>5, <1>6, AcceptedKnows
<1>8. requests' = [requests EXCEPT ![q] = [r EXCEPT !.calls = Tail(r.calls)]]
  BY <1>1, <1>4 DEF IInv, RequestsInv
<1>9. RequestsInv'
  BY <1>6, <1>7, <1>8, OneRequestChanges DEF IInv
<1>10. TableInv'
  <2>1. staged' = staged /\ slotOf' = slotOf /\ forwarded' = forwarded
    BY <1>4 DEF tableVars
  <2>2. NothingVanishes'
    BY <2>1, <1>5 DEF IInv, TableInv, NothingVanishes, Staged
  <2> QED
    BY <2>1, <2>2 DEF IInv, TableInv
<1>11. LateInv'
  BY <1>4, <1>6, LateStays DEF IInv
<1>12. LoggedCorrectionsHappened'
  BY <1>4, <1>5 DEF IInv, LoggedCorrectionsHappened
<1>13. faults' \in 0..MaxFaults
  BY <1>4 DEF IInv
<1> QED
  BY <1>5, <1>9, <1>10, <1>11, <1>12, <1>13 DEF IInv

\* A handler ends without a trace.
LEMMA StopPreserves ==
    ASSUME IInv, NEW q \in Requests, CallRejected(q) \/ Crash(q) \/ Respond(q)
    PROVE  IInv'
<1>1. /\ requests' = [requests EXCEPT ![q] = Idle]
      /\ UNCHANGED <<tableVars, ledgerVars, late, log>>
  BY DEF CallRejected, Crash, Respond, Stop
<1>2. UNCHANGED faults \/ (faults < MaxFaults /\ faults' = faults + 1)
  BY DEF CallRejected, Crash, Respond
<1>3. faults' \in 0..MaxFaults
  BY <1>2, FaultsStay, FaultsGrow
<1> QED
  BY <1>1, <1>3, IdleKnows, OneRequestStep

\* Nobody waits for the call any more; it is as backed as it was.
LEMMA CallTimesOutPreserves ==
    ASSUME IInv, NEW q \in Requests, CallTimesOut(q)
    PROVE  IInv'
<1>1. PICK r, i : r = requests[q] /\ i = Invocation(r)
  OBVIOUS
<1>2. Knows(r) /\ r.calls # <<>>
  BY <1>1 DEF IInv, RequestsInv, CallTimesOut, Calling
<1>3. Backed(i)
  BY <1>1, <1>2, InvocationBacked
<1>4. PICK v : late' = late \cup {[inv |-> i, read |-> v]}
  BY <1>1 DEF CallTimesOut
<1>5. /\ requests' = [requests EXCEPT ![q] = Idle]
      /\ UNCHANGED <<tableVars, ledgerVars, log>>
      /\ faults < MaxFaults /\ faults' = faults + 1
  BY DEF CallTimesOut, Stop
<1>6. Grows
  BY <1>5, GrowsUnchanged
<1>7. RequestsInv'
  BY <1>5, <1>6, IdleKnows, OneRequestChanges DEF IInv
<1>8. Backed(i)'
  BY <1>3, <1>6 DEF Backed, Grows
<1>9. LateInv'
  <2>1. ASSUME NEW m \in late'
        PROVE  \E x : x = m.inv /\ Backed(x)'
    <3>1. CASE m \in late
      BY <3>1, <1>6 DEF IInv, LateInv, Backed, Grows
    <3>2. CASE m = [inv |-> i, read |-> v]
      BY <3>2, <1>8
    <3> QED
      BY <3>1, <3>2, <1>4
  <2> QED
    BY <2>1 DEF LateInv
<1>10. LoggedCorrectionsHappened'
  BY <1>5 DEF IInv, LoggedCorrectionsHappened, ledgerVars
<1> QED
  BY <1>5, <1>7, <1>9, <1>10, FaultsGrow, RequestStep

\* A late transaction takes effect if what it read is current, and is dropped if not.
LEMMA CommitLatePreserves ==
    ASSUME IInv, NEW m \in late, CommitLate(m)
    PROVE  IInv'
<1>1. PICK i : i = m.inv
  OBVIOUS
<1>2. Backed(i)
  BY <1>1 DEF IInv, LateInv
<1>3. /\ late' = late \ {m}
      /\ UNCHANGED <<tableVars, requests, faults, log>>
      /\ Commit(i) \/ UNCHANGED ledgerVars
  BY <1>1 DEF CommitLate
<1>4. CASE UNCHANGED ledgerVars
  <2>1. Grows
    BY <1>3, <1>4, GrowsUnchanged
  <2>2. RequestsInv' /\ LateInv'
    BY <1>3, <2>1, NothingRequested, LateStays DEF IInv
  <2>3. LoggedCorrectionsHappened'
    BY <1>3, <1>4 DEF IInv, LoggedCorrectionsHappened, ledgerVars
  <2> QED
    BY <1>3, <1>4, <2>2, <2>3, FaultsStay, RequestStep
<1>5. CASE Commit(i)
  <2>1. /\ LedgerInv' /\ LedgerGradesWereForwarded'
        /\ written \subseteq written' /\ everFinal \subseteq everFinal'
    BY <1>2, <1>3, <1>5, CommitPreserves DEF IInv, tableVars
  <2>2. Grows
    BY <1>3, <2>1 DEF Grows, SlotsKept, tableVars
  <2>3. RequestsInv' /\ LateInv'
    BY <1>3, <2>2, NothingRequested, LateStays DEF IInv
  <2>4. TableInv'
    <3>1. staged' = staged /\ slotOf' = slotOf /\ forwarded' = forwarded
      BY <1>3 DEF tableVars
    <3>2. NothingVanishes'
      BY <3>1, <2>1 DEF IInv, TableInv, NothingVanishes, Staged
    <3> QED
      BY <3>1, <3>2 DEF IInv, TableInv
  <2>5. LoggedCorrectionsHappened' /\ faults' \in 0..MaxFaults
    BY <1>3, <2>1 DEF IInv, LoggedCorrectionsHappened
  <2> QED
    BY <2>1, <2>3, <2>4, <2>5 DEF IInv
<1> QED
  BY <1>3, <1>4, <1>5

\* A correction is logged when its handler knows that it is on the ledger.
LEMMA CorrectorsCorrected ==
    ASSUME NEW r, Knows(r), r.op \in {"correct", "update"}, r.calls = <<>>
    PROVE  Corrected(r)
<1>1. r # Idle
  BY IdleIs
<1>2. ~Edits(r) /\ ~Logs(r) /\ ~Imports(r) /\ ~Finalizes(r)
  BY DEF Edits, Logs, Imports, Finalizes
<1>3. ~CleansUp(r) /\ ~ActsOnLedger(r)
  BY DEF CleansUp, ActsOnLedger
<1>4. Corrects(r)
  BY <1>1, <1>2, <1>3 DEF Knows
<1>5. r.calls \notin Uncorrected
  BY DEF Uncorrected
<1> QED
  BY <1>4, <1>5 DEF Corrects

\* So is the correction of a row when it changed the row, or the record has been final.
LEMMA LoggersLog ==
    ASSUME NEW r, Knows(r), r.op = "log nothing"
    PROVE  r.id \in everFinal
<1>1. r # Idle
  BY IdleIs
<1>2. ~Edits(r) /\ ~Imports(r) /\ ~Finalizes(r)
  BY DEF Edits, Imports, Finalizes
<1>3. ~CleansUp(r) /\ ~ActsOnLedger(r) /\ ~Corrects(r)
  BY DEF CleansUp, ActsOnLedger, Corrects
<1> QED
  BY <1>1, <1>2, <1>3 DEF Knows, Logs

LEMMA LogCorrectionPreserves ==
    ASSUME IInv, NEW q \in Requests, LogCorrection(q)
    PROVE  IInv'
<1>1. PICK r : r = requests[q]
  OBVIOUS
<1>2. Knows(r) /\ r.op \in Logging /\ r.calls = <<>>
  BY <1>1 DEF IInv, RequestsInv, LogCorrection, Calling
<1>3. \/ r.op = "log row"
      \/ r.op = "log nothing" /\ r.id \in everFinal
      \/ Corrected(r)
  BY <1>2, CorrectorsCorrected, LoggersLog DEF Logging
<1>4. log' = log \cup {<<r.id, r.grade, r.op>>}
  BY <1>1 DEF LogCorrection
<1>5. /\ requests' = [requests EXCEPT ![q] = Idle]
      /\ UNCHANGED <<tableVars, ledgerVars, late, faults>>
  BY DEF LogCorrection, Stop
<1>6. Grows
  BY <1>5, GrowsUnchanged
<1>7. RequestsInv' /\ LateInv'
  BY <1>5, <1>6, IdleKnows, OneRequestChanges, LateStays DEF IInv
<1>8. LoggedCorrectionsHappened'
  <2>1. written' = written /\ everFinal' = everFinal
    BY <1>5 DEF ledgerVars
  <2>2. SUFFICES ASSUME NEW e \in log'
                 PROVE  \/ e[3] = "log row"
                        \/ e[3] = "log nothing" /\ e[1] \in everFinal
                        \/ <<"UpdateGrade", e[1], e[2]>> \in written
    BY <2>1 DEF LoggedCorrectionsHappened
  <2>3. CASE e \in log
    BY <2>3 DEF IInv, LoggedCorrectionsHappened
  <2>4. CASE e = <<r.id, r.grade, r.op>>
    <3>1. e[1] = r.id /\ e[2] = r.grade /\ e[3] = r.op
      BY <2>4
    <3> QED
      BY <3>1, <1>3 DEF Corrected
  <2> QED
    BY <1>4, <2>2, <2>3, <2>4
<1> QED
  BY <1>5, <1>7, <1>8, FaultsStay, RequestStep

-----------------------------------------------------------------------------
(* The invariant.                                                          *)

LEMMA InitIInv == Init => IInv
<1> SUFFICES ASSUME Init PROVE IInv
  OBVIOUS
<1>1. LedgerInv
  BY DEF Init, LedgerInv, World, Value, Keys, Absent
<1>2. TableInv
  BY EmptyRow DEF Init, TableInv, Rows, NothingVanishes
<1>3. RequestsInv
  <2>1. Knows(Idle)
    <3>1. Idle \in RequestRecords
      BY NoCalls DEF Idle, Request, RequestRecords
    <3> QED
      BY <3>1 DEF Knows
  <2> QED
    BY <2>1 DEF Init, RequestsInv
<1>4. LateInv /\ LedgerGradesWereForwarded /\ LoggedCorrectionsHappened
  BY DEF Init, LateInv, LedgerGradesWereForwarded, LoggedCorrectionsHappened, Exists, Absent,
         Keys
<1> QED
  BY <1>1, <1>2, <1>3, <1>4 DEF Init, IInv

LEMMA BeginPreserves ==
    ASSUME IInv, NEW q \in Requests, Begin(q)
    PROVE  IInv'
<1>1. CASE \E s \in Slots : StartEdit(q, s)
  <2>1. PICK s \in Slots : StartEdit(q, s)
    BY <1>1
  <2>2. staged[s] # NoRow
    BY <2>1 DEF StartEdit
  <2>3. staged[s].grade \in Grades
    BY <2>2, RowIs
  <2> QED
    BY <2>1, <2>3, StartEditPreserves
<1>2. CASE \E s \in Slots : StartFinalize(q, s)
  BY <1>2, StartFinalizePreserves
<1>3. CASE \E s \in Slots, g \in Grades : StartCorrection(q, s, g)
  BY <1>3, StartEditPreserves
<1>4. CASE \E s \in Slots, g \in Grades : StartImport(q, s, g)
  BY <1>4, StartImportPreserves
<1>5. CASE \E id \in RecordIds : \/ StartFinalizeOnLedger(q, id)
                                 \/ StartApproveOnLedger(q, id)
                                 \/ StartFlagOnLedger(q, id)
  BY <1>5, StartOnLedgerPreserves
<1>6. CASE \E id \in RecordIds, g \in Grades : StartUpdateOnLedger(q, id, g)
  BY <1>6, StartUpdatePreserves
<1>7. CASE \E id \in RecordIds, g \in Grades, n \in Reasons :
               StartRegistrarCorrection(q, id, g, n)
  BY <1>7, StartRegistrarCorrectionPreserves
<1> QED
  BY <1>1, <1>2, <1>3, <1>4, <1>5, <1>6, <1>7 DEF Begin

LEMMA ProceedPreserves ==
    ASSUME IInv, NEW q \in Requests, Proceed(q)
    PROVE  IInv'
BY WriteEditPreserves, WriteCorrectionPreserves, WriteImportPreserves, PlanFinalizePreserves,
   CallAcceptedPreserves, StopPreserves, DeleteStagedPreserves, LogCorrectionPreserves
   DEF Proceed

LEMMA NextIInv == IInv /\ [Next]_vars => IInv'
<1> SUFFICES ASSUME IInv, [Next]_vars PROVE IInv'
  OBVIOUS
<1>1. CASE \E s \in Slots, g \in Grades : RecordGrade(s, g)
  BY <1>1, RecordGradePreserves
<1>2. CASE SubmitSection
  BY <1>2, SubmitSectionPreserves
<1>3. CASE \E s \in Slots : ApproveStaged(s) \/ ForwardStaged(s) \/ ReturnStaged(s)
  BY <1>3, OneStatusPreserves
<1>4. CASE \E q \in Requests : Begin(q)
  BY <1>4, BeginPreserves
<1>5. CASE \E q \in Requests : Proceed(q)
  BY <1>5, ProceedPreserves
<1>6. CASE \E q \in Requests : CallTimesOut(q)
  BY <1>6, CallTimesOutPreserves
<1>7. CASE \E q \in Requests : Crash(q)
  BY <1>7, StopPreserves
<1>8. CASE \E m \in late : CommitLate(m)
  BY <1>8, CommitLatePreserves
<1>9. CASE UNCHANGED vars
  <2>1. UNCHANGED <<tableVars, ledgerVars, late, requests, faults, log>>
    BY <1>9 DEF vars
  <2>2. Grows
    BY <2>1, GrowsUnchanged
  <2>3. RequestsInv' /\ LateInv'
    BY <2>1, <2>2, NothingRequested, LateStays DEF IInv
  <2>4. LoggedCorrectionsHappened'
    BY <2>1 DEF IInv, LoggedCorrectionsHappened, ledgerVars
  <2> QED
    BY <2>1, <2>3, <2>4, FaultsStay, RequestStep
<1> QED
  BY <1>1, <1>2, <1>3, <1>4, <1>5, <1>6, <1>7, <1>8, <1>9 DEF Next

LEMMA Invariant == Spec => []IInv
BY InitIInv, NextIInv, PTL DEF Spec

-----------------------------------------------------------------------------
(* The theorems.                                                           *)

\* Rows, requests and ledger values have their shape, a row sits in the slot of its id,
\* and every call a handler sends is one the contract knows.
THEOREM TypeCorrect == Spec => []TypeOK
<1>1. IInv => TypeOK
  <2> SUFFICES ASSUME IInv PROVE TypeOK
    OBVIOUS
  <2>1. ASSUME NEW q \in Requests, requests[q].calls # <<>>
        PROVE  Invocation(requests[q]) \in Invocations
    <3>1. Backed(Invocation(requests[q]))
      BY <2>1, InvocationBacked DEF IInv, RequestsInv
    <3> QED
      BY <3>1 DEF Backed, Calls, Invocations
  <2> QED
    BY <2>1 DEF IInv, TypeOK, LedgerInv, TableInv, Rows
<1> QED
  BY <1>1, Invariant, PTL

\* Whatever fails, times out, crashes or interleaves, an id that was staged is still
\* staged or has been final on the ledger.
THEOREM NoRecordVanishes == Spec => []NothingVanishes
<1>1. IInv => NothingVanishes
  BY DEF IInv, TableInv
<1> QED
  BY <1>1, Invariant, PTL

\* No grade gets onto the ledger but through the chairperson's forwarding or a
\* correction of that record.
THEOREM LedgerIsForwarded == Spec => []LedgerGradesWereForwarded
<1>1. IInv => LedgerGradesWereForwarded
  BY DEF IInv
<1> QED
  BY <1>1, Invariant, PTL

\* What the log of corrections says was committed, though its calls may fail one by one,
\* or changed a row, unless the record was finalized while the handler was at work.
THEOREM LogIsTrue == Spec => []LoggedCorrectionsHappened
<1>1. IInv => LoggedCorrectionsHappened
  BY DEF IInv
<1> QED
  BY <1>1, Invariant, PTL
=============================================================================
