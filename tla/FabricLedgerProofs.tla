------------------------- MODULE FabricLedgerProofs -------------------------
(***************************************************************************)
(* FabricLedger implements GradeLedger, for every set of records,          *)
(* certificates, batches and transactions: simulating a call early and     *)
(* writing late is running it alone, because of the versions it read.      *)
(*                                                                         *)
(* What an endorsed transaction carries was computed on some world, which  *)
(* agrees with the present one on every key whose version is still the     *)
(* one read.  A function of the contract looks at no other keys, so when   *)
(* all versions are unchanged it would give the same outcome now.          *)
(***************************************************************************)
EXTENDS FabricLedger, GradeLedgerProofs

\* e was endorsed for the transaction t on the world w, and where the version of a key
\* is still the one read, so is the value.
SimulatedOn(w, t, e) ==
    /\ e.stage = "endorsed"
    /\ e.inv \in Invocations
    /\ Execute(w, t, e.inv).ok
    /\ e.writes = Execute(w, t, e.inv).writes
    /\ e.reads = [k \in ReadSet(e.inv) |-> e.reads[k]]
    /\ \A k \in ReadSet(e.inv) :
        /\ e.reads[k] \in 0..Len(history[k])
        /\ e.reads[k] = 0 => w[k] = Absent
        /\ e.reads[k] = Version(k) => w[k] = world[k]

Outstanding ==
    /\ inflight = [t \in TxIds |-> inflight[t]]
    /\ \A t \in TxIds :
        \/ inflight[t] \in {Idle, Dropped}
        \/ t \notin used /\ \E w, e : e = inflight[t] /\ SimulatedOn(w, t, e)

\* A key that exists was written, and one that does not exist holds nothing.
Written ==
    \A k \in Keys :
        /\ \E S : history[k] \in Seq(S)
        /\ Exists(world, k) => Len(history[k]) > 0
        /\ ~Exists(world, k) => world[k] = Absent

FabricIInv == Written /\ Outstanding

-----------------------------------------------------------------------------
(* The contract.                                                           *)

\* The keys read are keys of the ledger.
LEMMA ReadsKeys ==
    ASSUME NEW i \in Invocations
    PROVE  ReadSet(i) \subseteq Keys
<1>1. CASE i \in BatchInvocations
  <2>1. i.fn = "IssueBatchGrades" /\ i.batch \in Seq(BatchItem)
    BY <1>1, ChaincodeAssumption DEF BatchInvocations
  <2>2. ASSUME NEW n \in DOMAIN i.batch
        PROVE  i.batch[n].id \in RecordIds \cup {NoId}
    <3> DEFINE b == i.batch
    <3> HIDE DEF b
    <3>1. b \in Seq(BatchItem) /\ n \in DOMAIN b
      BY <2>1 DEF b
    <3>2. b[n] \in BatchItem
      BY <3>1
    <3> QED
      BY <3>2 DEF BatchItem, b
  <2> QED
    BY <2>1, <2>2 DEF ReadSet, Keys
<1>2. CASE i \in InitInvocations \cup AuditInvocations
  BY <1>2 DEF ReadSet, InitInvocations, AuditInvocations
<1>3. CASE i \in ResetInvocations
  BY <1>3 DEF ReadSet, ResetInvocations
<1>4. CASE i \in IssueInvocations \cup ReturnInvocations \cup UpdateInvocations
                  \cup ApproveInvocations \cup FinalizeInvocations
  BY <1>4 DEF ReadSet, Keys, IssueInvocations, ReturnInvocations, UpdateInvocations,
              ApproveInvocations, FinalizeInvocations
<1> QED
  BY <1>1, <1>2, <1>3, <1>4 DEF Invocations

\* A function of the contract looks at no other keys than those of ReadSet.
LEMMA ReadsOnlyReadSet ==
    ASSUME NEW w, NEW v, NEW t, NEW i \in Invocations, \A k \in ReadSet(i) : w[k] = v[k]
    PROVE  Execute(w, t, i) = Execute(v, t, i)
<1>1. CASE i \in BatchInvocations
  <2> DEFINE b == i.batch
             named == {n \in DOMAIN b : b[n].id # NoId}
  <2>1. i.fn = "IssueBatchGrades"
    BY <1>1 DEF BatchInvocations
  <2>2. \A n \in named : b[n].id \in ReadSet(i)
    BY <2>1 DEF ReadSet
  <2>3. \A n \in named : Exists(w, b[n].id) <=> Exists(v, b[n].id)
    BY <2>2 DEF Exists
  <2>4. IssueBatchGrades(w, t, i) = IssueBatchGrades(v, t, i)
    BY <2>3 DEF IssueBatchGrades, When
  <2> QED
    BY <2>1, <2>4 DEF Execute
<1>2. CASE i \in InitInvocations
  BY <1>2 DEF Execute, InitInvocations, InitLedger
<1>3. CASE i \in AuditInvocations
  BY <1>3 DEF Execute, AuditInvocations, CreateAuditEvent
<1>4. CASE i \in ResetInvocations
  <2>1. i.fn = "ResetLedgerToGenesis"
    BY <1>4 DEF ResetInvocations
  <2>2. \A k \in Keys : Exists(w, k) <=> Exists(v, k)
    BY <2>1 DEF ReadSet, Exists
  <2>3. /\ GenesisId \in Keys
        /\ {k \in Keys \ {GenesisId} : Exists(w, k)} = {k \in Keys \ {GenesisId} : Exists(v, k)}
    BY <2>2, ChaincodeAssumption DEF Keys
  <2>4. ResetLedgerToGenesis(w, t, i) = ResetLedgerToGenesis(v, t, i)
    BY <2>2, <2>3 DEF ResetLedgerToGenesis
  <2> QED
    BY <2>1, <2>4 DEF Execute
<1>5. CASE i \in IssueInvocations
  BY <1>5 DEF Execute, ReadSet, IssueInvocations, IssueGrade, Exists
<1>6. CASE i \in ReturnInvocations
  BY <1>6 DEF Execute, ReadSet, ReturnInvocations, ReturnGrade, Exists
<1>7. CASE i \in UpdateInvocations
  BY <1>7 DEF Execute, ReadSet, UpdateInvocations, UpdateGrade, Exists
<1>8. CASE i \in ApproveInvocations
  BY <1>8 DEF Execute, ReadSet, ApproveInvocations, ApproveGrade, Exists
<1>9. CASE i \in FinalizeInvocations
  BY <1>9 DEF Execute, ReadSet, FinalizeInvocations, FinalizeRecord, Exists
<1> QED
  BY <1>1, <1>2, <1>3, <1>4, <1>5, <1>6, <1>7, <1>8, <1>9 DEF Invocations

\* What the contract writes exists, unless it is a deletion.
LEMMA WritesOrDeletes ==
    ASSUME NEW w, NEW t, NEW i \in Invocations, NEW k \in DOMAIN Execute(w, t, i).writes,
           Execute(w, t, i).ok
    PROVE  LET v == Execute(w, t, i).writes[k] IN v.status = "Absent" => v = Absent
<1> USE DEF When, Accept, Reject, Put, Unwritten
<1>1. CASE i \in BatchInvocations
  <2>1. Execute(w, t, i) = IssueBatchGrades(w, t, i)
    BY <1>1 DEF Execute, BatchInvocations
  <2> DEFINE used_ == {n \in DOMAIN i.batch : i.batch[n].id # NoId}
             item(id) == i.batch[CHOOSE n \in used_ : i.batch[n].id = id]
             wr == [id \in {i.batch[n].id : n \in used_} |->
                       Issued(i.cert, item(id).student, item(id).grade, BatchVersion(item(id)))]
  <2>2. Execute(w, t, i).writes = wr
    BY <2>1 DEF IssueBatchGrades
  <2>3. \A id \in DOMAIN wr : wr[id].status = "Issued"
    BY DEF Issued
  <2> HIDE DEF wr
  <2> QED
    BY <2>2, <2>3
<1>2. CASE i \in InitInvocations
  BY <1>2 DEF Execute, InitInvocations, InitLedger, Genesis
<1>3. CASE i \in AuditInvocations
  BY <1>3 DEF Execute, AuditInvocations, CreateAuditEvent, AuditEvent
<1>4. CASE i \in ResetInvocations
  BY <1>4 DEF Execute, ResetInvocations, ResetLedgerToGenesis
<1>5. CASE i \in IssueInvocations
  BY <1>5 DEF Execute, IssueInvocations, IssueGrade, Issued
<1>6. CASE i \in ReturnInvocations
  BY <1>6 DEF Execute, ReturnInvocations, ReturnGrade, Advance
<1>7. CASE i \in UpdateInvocations
  BY <1>7 DEF Execute, UpdateInvocations, UpdateGrade, Advance
<1>8. CASE i \in ApproveInvocations
  BY <1>8 DEF Execute, ApproveInvocations, ApproveGrade, Advance
<1>9. CASE i \in FinalizeInvocations
  BY <1>9 DEF Execute, FinalizeInvocations, FinalizeRecord, Advance
<1> QED
  BY <1>1, <1>2, <1>3, <1>4, <1>5, <1>6, <1>7, <1>8, <1>9 DEF Invocations

-----------------------------------------------------------------------------
(* Commits.                                                                *)

\* An accepted call whose writes are committed is a transaction of the ledger.
LEMMA CommitIsTransaction ==
    ASSUME NEW t \in TxIds, NEW i \in Invocations, t \notin used,
           Execute(world, t, i).ok,
           Commit(t, i.cert, Execute(world, t, i).writes)
    PROVE  Transaction(t)
<1> DEFINE o == Execute(world, t, i)
<1>0. o.ok /\ Commit(t, i.cert, o.writes)
  OBVIOUS
<1> HIDE DEF o
<1> USE DEF Submit, Transaction
<1>1. CASE i \in IssueInvocations
  <2>1. o = IssueGrade(world, t, i)
    BY <1>1 DEF o, Execute, IssueInvocations
  <2> QED
    BY <1>0, <1>1, <2>1 DEF DoIssueGrade
<1>2. CASE i \in BatchInvocations
  <2>1. o = IssueBatchGrades(world, t, i)
    BY <1>2 DEF o, Execute, BatchInvocations
  <2> QED
    BY <1>0, <1>2, <2>1 DEF DoIssueBatchGrades
<1>3. CASE i \in ReturnInvocations
  <2>1. o = ReturnGrade(world, t, i)
    BY <1>3 DEF o, Execute, ReturnInvocations
  <2> QED
    BY <1>0, <1>3, <2>1 DEF DoReturnGrade
<1>4. CASE i \in UpdateInvocations
  <2>1. o = UpdateGrade(world, t, i)
    BY <1>4 DEF o, Execute, UpdateInvocations
  <2> QED
    BY <1>0, <1>4, <2>1 DEF DoUpdateGrade
<1>5. CASE i \in ApproveInvocations
  <2>1. o = ApproveGrade(world, t, i)
    BY <1>5 DEF o, Execute, ApproveInvocations
  <2> QED
    BY <1>0, <1>5, <2>1 DEF DoApproveGrade
<1>6. CASE i \in FinalizeInvocations
  <2>1. o = FinalizeRecord(world, t, i)
    BY <1>6 DEF o, Execute, FinalizeInvocations
  <2> QED
    BY <1>0, <1>6, <2>1 DEF DoFinalizeRecord
<1>7. CASE i \in InitInvocations
  <2>1. o = InitLedger(world, t, i)
    BY <1>7 DEF o, Execute, InitInvocations
  <2> QED
    BY <1>0, <1>7, <2>1 DEF DoInitLedger
<1>8. CASE i \in ResetInvocations
  <2>1. o = ResetLedgerToGenesis(world, t, i)
    BY <1>8 DEF o, Execute, ResetInvocations
  <2> QED
    BY <1>0, <1>8, <2>1 DEF DoResetLedgerToGenesis
<1>9. CASE i \in AuditInvocations
  <2>1. o = CreateAuditEvent(world, t, i)
    BY <1>9 DEF o, Execute, AuditInvocations
  <2> QED
    BY <1>0, <1>9, <2>1 DEF DoCreateAuditEvent
<1> QED
  BY <1>1, <1>2, <1>3, <1>4, <1>5, <1>6, <1>7, <1>8, <1>9 DEF Invocations

-----------------------------------------------------------------------------
(* The invariant.                                                          *)

\* A sequence with one more element is one longer.
LEMMA LongerByOne ==
    ASSUME NEW h, NEW e, \E S : h \in Seq(S)
    PROVE  /\ \E S : Append(h, e) \in Seq(S)
           /\ Len(h) \in Nat
           /\ Len(Append(h, e)) = Len(h) + 1
<1>1. PICK S : h \in Seq(S)
  OBVIOUS
<1> DEFINE T == S \cup {e}
<1>2. h \in Seq(T)
  BY <1>1
<1>3. e \in T
  OBVIOUS
<1> HIDE DEF T
<1>4. Append(h, e) \in Seq(T) /\ Len(h) \in Nat /\ Len(Append(h, e)) = Len(h) + 1
  BY <1>2, <1>3
<1> QED
  BY <1>4

\* What an endorsed transaction was simulated on, it was still simulated on after
\* another one has committed: that one changed the versions of what it wrote.
LEMMA CommitKeepsSimulation ==
    ASSUME Written, NEW t, NEW c, NEW wr, Commit(t, c, wr),
           \A k \in DOMAIN wr : wr[k].status = "Absent" => wr[k] = Absent
    PROVE  /\ Written'
           /\ \A w, u, e : SimulatedOn(w, u, e) => SimulatedOn(w, u, e)'
<1> DEFINE entry(k) == [tx |-> t, cert |-> c, value |-> wr[k]]
<1>1. ASSUME NEW k \in Keys
      PROVE  /\ \E S : history[k] \in Seq(S)
             /\ Exists(world, k) => Len(history[k]) > 0
             /\ ~Exists(world, k) => world[k] = Absent
             /\ k \in DOMAIN wr => /\ world'[k] = wr[k]
                                   /\ history'[k] = Append(history[k], entry(k))
             /\ k \notin DOMAIN wr => world'[k] = world[k] /\ history'[k] = history[k]
  BY DEF Written, Commit, Keys
<1> HIDE DEF entry
<1>2. ASSUME NEW k \in Keys
      PROVE  /\ \E S : history'[k] \in Seq(S)
             /\ Len(history[k]) \in Nat
             /\ Len(history'[k]) = IF k \in DOMAIN wr THEN Len(history[k]) + 1
                                                      ELSE Len(history[k])
             /\ ~Exists(world', k) => world'[k] = Absent
             /\ Exists(world', k) => Len(history'[k]) > 0
  <2>1. CASE k \in DOMAIN wr
    <3>1. /\ \E S : history[k] \in Seq(S)
          /\ world'[k] = wr[k]
          /\ history'[k] = Append(history[k], entry(k))
      BY <1>1, <2>1
    <3>2. /\ \E S : history'[k] \in Seq(S)
          /\ Len(history[k]) \in Nat
          /\ Len(history'[k]) = Len(history[k]) + 1
      BY <3>1, LongerByOne
    <3>3. ~Exists(world', k) => world'[k] = Absent
      BY <2>1, <3>1 DEF Exists
    <3> QED
      BY <2>1, <3>2, <3>3
  <2>2. CASE k \notin DOMAIN wr
    BY <1>1, <2>2, LongerByOne DEF Exists
  <2> QED
    BY <2>1, <2>2
<1>3. Written'
  BY <1>2 DEF Written
<1>4. ASSUME NEW w, NEW u, NEW e, SimulatedOn(w, u, e)
      PROVE  SimulatedOn(w, u, e)'
  <2>1. ASSUME NEW k \in ReadSet(e.inv)
        PROVE  /\ e.reads[k] \in 0..Len(history'[k])
               /\ e.reads[k] = 0 => w[k] = Absent
               /\ e.reads[k] = Version(k)' => w[k] = world'[k]
    <3>1. k \in Keys
      BY <1>4, ReadsKeys DEF SimulatedOn
    <3>2. /\ e.reads[k] \in 0..Len(history[k])
          /\ e.reads[k] = 0 => w[k] = Absent
          /\ e.reads[k] = Version(k) => w[k] = world[k]
      BY <1>4 DEF SimulatedOn
    <3>3. Version(k)' = IF Exists(world', k) THEN Len(history'[k]) ELSE 0
      BY DEF Version
    <3>4. CASE ~Exists(world', k)
      BY <1>2, <3>1, <3>2, <3>3, <3>4
    <3>5. CASE Exists(world', k) /\ k \in DOMAIN wr
      BY <1>2, <3>1, <3>2, <3>3, <3>5
    <3>6. CASE Exists(world', k) /\ k \notin DOMAIN wr
      BY <1>1, <1>2, <3>1, <3>2, <3>3, <3>6 DEF Version, Exists
    <3> QED
      BY <3>4, <3>5, <3>6
  <2> QED
    BY <1>4, <2>1 DEF SimulatedOn
<1> QED
  BY <1>3, <1>4

\* The empty ledger, with nothing endorsed, satisfies the invariant.
LEMMA FabricInitEstablishes == FabricInit => FabricIInv
<1> SUFFICES ASSUME FabricInit PROVE FabricIInv
  OBVIOUS
<1>1. Written
  <2>1. ASSUME NEW k \in Keys
        PROVE  world[k] = Absent /\ ~Exists(world, k) /\ \E S : history[k] \in Seq(S)
    <3>1. world[k] = Absent /\ history[k] = <<>>
      BY DEF FabricInit, Init, Keys, Absent
    <3>2. history[k] \in Seq({})
      BY <3>1
    <3> QED
      BY <3>1, <3>2 DEF Exists, Absent
  <2> QED
    BY <2>1 DEF Written
<1>2. Outstanding
  BY DEF FabricInit, Outstanding
<1> QED
  BY <1>1, <1>2 DEF FabricIInv

\* An endorsed transaction whose reads are current carries what the contract would now do.
LEMMA ValidIsCurrent ==
    ASSUME FabricIInv, NEW t \in TxIds, InFlight(t), Valid(t)
    PROVE  /\ t \notin used
           /\ inflight[t].inv \in Invocations
           /\ Execute(world, t, inflight[t].inv).ok
           /\ inflight[t].writes = Execute(world, t, inflight[t].inv).writes
<1> DEFINE e == inflight[t]
<1>1. t \notin used /\ \E w : SimulatedOn(w, t, e)
  BY DEF FabricIInv, Outstanding, InFlight, Idle, Dropped
<1>2. PICK w : SimulatedOn(w, t, e)
  BY <1>1
<1>3. \A k \in ReadSet(e.inv) : w[k] = world[k]
  BY <1>2 DEF SimulatedOn, Valid
<1>4. Execute(w, t, e.inv) = Execute(world, t, e.inv)
  BY <1>2, <1>3, ReadsOnlyReadSet DEF SimulatedOn
<1> QED
  BY <1>1, <1>2, <1>4 DEF SimulatedOn

\* A transaction that commits is a transaction of the ledger.
LEMMA ValidImplements ==
    ASSUME FabricIInv, NEW t \in TxIds, CommitValid(t)
    PROVE  Next
<1>1. Transaction(t)
  BY ValidIsCurrent, CommitIsTransaction DEF CommitValid
<1> QED
  BY <1>1 DEF Next

\* What an endorsement carries was simulated on the world of its endorsement.
LEMMA EndorsedIsSimulated ==
    ASSUME Written, NEW t \in TxIds, NEW i \in Invocations, Execute(world, t, i).ok
    PROVE  SimulatedOn(world, t, Endorsed(i, [k \in ReadSet(i) |-> Version(k)],
                                          Execute(world, t, i).writes))
<1> DEFINE reads == [k \in ReadSet(i) |-> Version(k)]
           o == Execute(world, t, i)
           e == Endorsed(i, reads, o.writes)
<1>1. e.stage = "endorsed" /\ e.inv = i /\ e.reads = reads /\ e.writes = o.writes
  BY DEF Endorsed
<1>2. ASSUME NEW k \in ReadSet(i)
      PROVE  /\ reads[k] \in 0..Len(history[k])
             /\ reads[k] = 0 => world[k] = Absent
  <2>1. k \in Keys
    BY ReadsKeys
  <2>2. /\ Len(history[k]) \in Nat
        /\ Exists(world, k) => Len(history[k]) > 0
        /\ ~Exists(world, k) => world[k] = Absent
    BY <2>1, LongerByOne DEF Written
  <2> QED
    BY <2>2 DEF Version
<1> HIDE DEF e, reads
<1>3. reads = [k \in ReadSet(i) |-> reads[k]]
  BY DEF reads
<1>4. SimulatedOn(world, t, e)
  BY <1>1, <1>2, <1>3 DEF SimulatedOn
<1> QED
  BY <1>4 DEF e, reads

\* Every step preserves the invariant.
LEMMA FabricNextPreserves ==
    ASSUME FabricIInv, [FabricNext]_fabricVars
    PROVE  FabricIInv'
<1>1. CASE UNCHANGED fabricVars
  <2>1. /\ world' = world /\ history' = history
        /\ used' = used /\ inflight' = inflight
    BY <1>1 DEF fabricVars, vars
  <2>2. Written'
    BY <2>1 DEF FabricIInv, Written, Exists
  <2>3. ASSUME NEW w, NEW u, NEW e, SimulatedOn(w, u, e)
        PROVE  SimulatedOn(w, u, e)'
    BY <2>1, <2>3 DEF SimulatedOn, Version, Exists
  <2>4. ASSUME NEW u \in TxIds
        PROVE  \/ inflight'[u] \in {Idle, Dropped}
               \/ u \notin used' /\ \E w, e : e = inflight'[u] /\ SimulatedOn(w, u, e)'
    BY <2>1, <2>3 DEF FabricIInv, Outstanding
  <2>5. inflight' = [u \in TxIds |-> inflight'[u]]
    BY <2>1 DEF FabricIInv, Outstanding
  <2>6. Outstanding'
    BY <2>4, <2>5 DEF Outstanding
  <2> QED
    BY <2>2, <2>6 DEF FabricIInv
<1>2. ASSUME NEW t \in TxIds, Peers(t)
      PROVE  FabricIInv'
  <2>0. /\ Written
        /\ inflight = [u \in TxIds |-> inflight[u]]
        /\ \A u \in TxIds :
              \/ inflight[u] \in {Idle, Dropped}
              \/ u \notin used /\ \E w, e : e = inflight[u] /\ SimulatedOn(w, u, e)
    BY DEF FabricIInv, Outstanding
  <2>1. CASE \E i \in Invocations : Endorse(t, i)
    <3>1. PICK i \in Invocations : Endorse(t, i)
      BY <2>1
    <3> DEFINE e == Endorsed(i, [k \in ReadSet(i) |-> Version(k)], Execute(world, t, i).writes)
    <3>2. /\ t \notin used
          /\ Execute(world, t, i).ok
          /\ inflight' = [inflight EXCEPT ![t] = e]
          /\ world' = world /\ history' = history /\ used' = used
      BY <3>1 DEF Endorse, vars
    <3>3. SimulatedOn(world, t, e)
      BY <2>0, <3>2, EndorsedIsSimulated
    <3> HIDE DEF e
    <3>4. \A w, u, f : SimulatedOn(w, u, f) => SimulatedOn(w, u, f)'
      BY <3>2 DEF SimulatedOn, Version
    <3>5. Written'
      BY <2>0, <3>2 DEF Written
    <3>6. \A u \in TxIds : inflight'[u] = IF u = t THEN e ELSE inflight[u]
      BY <2>0, <3>2
    <3>7. inflight' = [u \in TxIds |-> inflight'[u]]
      BY <2>0, <3>2
    <3>8. ASSUME NEW u \in TxIds
          PROVE  \/ inflight'[u] \in {Idle, Dropped}
                 \/ u \notin used' /\ \E w, g : g = inflight'[u] /\ SimulatedOn(w, u, g)'
      <4>1. CASE u = t
        BY <3>2, <3>3, <3>4, <3>6, <4>1
      <4>2. CASE u # t
        BY <2>0, <3>2, <3>4, <3>6, <4>2
      <4> QED
        BY <4>1, <4>2
    <3> QED
      BY <3>5, <3>7, <3>8 DEF FabricIInv, Outstanding
  <2>2. CASE CommitValid(t)
    <3> DEFINE i == inflight[t].inv
               wr == inflight[t].writes
    <3>1. /\ Commit(t, i.cert, wr)
          /\ inflight' = [inflight EXCEPT ![t] = Idle]
          /\ \A k \in DOMAIN wr : wr[k].status = "Absent" => wr[k] = Absent
      BY <2>2, ValidIsCurrent, WritesOrDeletes DEF CommitValid
    <3>2. used' = used \cup {t}
      BY <3>1 DEF Commit
    <3> HIDE DEF i, wr
    <3>3. Written' /\ \A w, u, e : SimulatedOn(w, u, e) => SimulatedOn(w, u, e)'
      BY <2>0, <3>1, CommitKeepsSimulation
    <3>4. \A u \in TxIds : inflight'[u] = IF u = t THEN Idle ELSE inflight[u]
      BY <2>0, <3>1
    <3>5. inflight' = [u \in TxIds |-> inflight'[u]]
      BY <2>0, <3>1
    <3>6. ASSUME NEW u \in TxIds
          PROVE  \/ inflight'[u] \in {Idle, Dropped}
                 \/ u \notin used' /\ \E w, g : g = inflight'[u] /\ SimulatedOn(w, u, g)'
      BY <2>0, <3>2, <3>3, <3>4
    <3> QED
      BY <3>3, <3>5, <3>6 DEF FabricIInv, Outstanding
  <2>3. CASE CommitInvalid(t) \/ Lose(t)
    <3>1. /\ inflight' = [inflight EXCEPT ![t] = Dropped]
          /\ world' = world /\ history' = history /\ used' = used
      BY <2>3 DEF CommitInvalid, Lose, vars
    <3>2. Written' /\ \A w, u, e : SimulatedOn(w, u, e) => SimulatedOn(w, u, e)'
      BY <2>0, <3>1 DEF Written, SimulatedOn, Version
    <3>3. \A u \in TxIds : inflight'[u] = IF u = t THEN Dropped ELSE inflight[u]
      BY <2>0, <3>1
    <3>4. inflight' = [u \in TxIds |-> inflight'[u]]
      BY <2>0, <3>1
    <3>5. ASSUME NEW u \in TxIds
          PROVE  \/ inflight'[u] \in {Idle, Dropped}
                 \/ u \notin used' /\ \E w, g : g = inflight'[u] /\ SimulatedOn(w, u, g)'
      BY <2>0, <3>1, <3>2, <3>3
    <3> QED
      BY <3>2, <3>4, <3>5 DEF FabricIInv, Outstanding
  <2> QED
    BY <1>2, <2>1, <2>2, <2>3 DEF Peers
<1> QED
  BY <1>1, <1>2 DEF FabricNext

\* The invariant holds in every reachable state.
LEMMA FabricInvariant == FabricSpec => []FabricIInv
BY FabricInitEstablishes, FabricNextPreserves, PTL DEF FabricSpec

\* Only a transaction that commits joins the chain, and then nothing else does.
LEMMA OnlyCommitsJoin ==
    ASSUME FabricIInv, [FabricNext]_fabricVars, NEW t \in TxIds
    PROVE  /\ t \in used' \ used => CommitValid(t)
           /\ (t \notin used' /\ inflight'[t] # inflight[t]) => world' = world
<1>1. inflight = [u \in TxIds |-> inflight[u]]
  BY DEF FabricIInv, Outstanding
<1>2. CASE UNCHANGED fabricVars
  BY <1>2 DEF fabricVars, vars
<1>3. ASSUME NEW u \in TxIds, NEW i \in Invocations, Endorse(u, i)
      PROVE  used' = used /\ world' = world
  BY <1>3 DEF Endorse, vars
<1>4. ASSUME NEW u \in TxIds, CommitInvalid(u) \/ Lose(u)
      PROVE  used' = used /\ world' = world
  BY <1>4 DEF CommitInvalid, Lose, vars
<1>5. ASSUME NEW u \in TxIds, CommitValid(u)
      PROVE  used' = used \cup {u} /\ (u # t => inflight'[t] = inflight[t])
  BY <1>1, <1>5 DEF CommitValid, Commit
<1> QED
  BY <1>2, <1>3, <1>4, <1>5 DEF FabricNext, Peers

-----------------------------------------------------------------------------
(* The theorems.                                                           *)

\* Simulated early, ordered late and validated by versions, a transaction cannot be
\* told from one that runs alone against what its predecessor in the chain left.
THEOREM FabricIsAtomic == FabricSpec => ImplementsGradeLedger
<1>1. FabricInit => Init
  BY DEF FabricInit
<1>2. ASSUME FabricIInv, [FabricNext]_fabricVars
      PROVE  [Next]_(vars)
  <2>1. CASE UNCHANGED fabricVars
    BY <2>1 DEF fabricVars, vars
  <2>2. ASSUME NEW t \in TxIds, NEW i \in Invocations, Endorse(t, i)
        PROVE  UNCHANGED vars
    BY <2>2 DEF Endorse, vars
  <2>3. ASSUME NEW t \in TxIds, CommitInvalid(t) \/ Lose(t)
        PROVE  UNCHANGED vars
    BY <2>3 DEF CommitInvalid, Lose, vars
  <2> QED
    BY <1>2, <2>1, <2>2, <2>3, ValidImplements DEF FabricNext, Peers
<1>3. FabricSpec => Spec
  BY <1>1, <1>2, FabricInvariant, PTL DEF FabricSpec, Spec
<1> QED
  BY <1>3 DEF ImplementsGradeLedger

\* After ResetLedgerToGenesis commits, the genesis record is alone, whatever was stored
\* between its simulation and its commit.
THEOREM ResetsLeaveGenesis == FabricSpec => ResetIsComplete
<1>1. ASSUME FabricIInv, [FabricNext]_fabricVars, NEW t \in TxIds, InFlight(t),
             inflight[t].inv.fn = "ResetLedgerToGenesis", t \in used' \ used
      PROVE  {k \in Keys : world'[k] # Absent} = {GenesisId}
  <2> DEFINE i == inflight[t].inv
             o == Execute(world, t, i)
  <2>1. CommitValid(t)
    BY <1>1, OnlyCommitsJoin
  <2>2. /\ Commit(t, i.cert, inflight[t].writes)
        /\ i \in Invocations /\ o.ok /\ inflight[t].writes = o.writes
    BY <1>1, <2>1, ValidIsCurrent DEF CommitValid
  <2>3. o = ResetLedgerToGenesis(world, t, i)
    BY <1>1 DEF Execute
  <2>4. /\ Exists(world, GenesisId)
        /\ o.writes = [k \in {k \in Keys \ {GenesisId} : Exists(world, k)} |-> Absent]
    BY <2>2, <2>3 DEF ResetLedgerToGenesis, When, Accept, Reject
  <2> HIDE DEF o, i
  <2>5. ASSUME NEW k \in Keys
        PROVE  world'[k] = IF k # GenesisId /\ Exists(world, k) THEN Absent ELSE world[k]
    BY <2>2, <2>4 DEF Commit, Keys
  <2>6. \A k \in Keys : ~Exists(world, k) => world[k] = Absent
    BY <1>1 DEF FabricIInv, Written
  <2>7. GenesisId \in Keys /\ world[GenesisId] # Absent
    BY <2>4, ChaincodeAssumption DEF Keys, Exists, Absent
  <2> QED
    BY <2>5, <2>6, <2>7
<1>2. ASSUME FabricIInv, [FabricNext]_fabricVars
      PROVE  \A t \in TxIds :
                 (/\ InFlight(t)
                  /\ inflight[t].inv.fn = "ResetLedgerToGenesis"
                  /\ t \in used' \ used)
                     => {k \in Keys : world'[k] # Absent} = {GenesisId}
  BY <1>1, <1>2
<1> QED
  BY <1>2, FabricInvariant, PTL DEF FabricSpec, ResetIsComplete

\* A batch of new grades lands whole on free ids or not at all.
THEOREM BatchesAreWhole == FabricSpec => BatchIsAllOrNothing
<1>1. ASSUME FabricIInv, [FabricNext]_fabricVars, NEW t \in TxIds, InFlight(t),
             inflight[t].inv.fn = "IssueBatchGrades", t \in used' \ used,
             NEW id \in DOMAIN inflight[t].writes
      PROVE  ~Exists(world, id) /\ world'[id].status = "Issued"
  <2> DEFINE i == inflight[t].inv
             o == Execute(world, t, i)
             b == i.batch
             named == {n \in DOMAIN b : b[n].id # NoId}
  <2>1. CommitValid(t)
    BY <1>1, OnlyCommitsJoin
  <2>2. /\ Commit(t, i.cert, inflight[t].writes)
        /\ i \in Invocations /\ o.ok /\ inflight[t].writes = o.writes
    BY <1>1, <2>1, ValidIsCurrent DEF CommitValid
  <2>3. o = IssueBatchGrades(world, t, i)
    BY <1>1 DEF Execute
  <2>4. /\ \A n \in named : ~Exists(world, b[n].id)
        /\ DOMAIN o.writes = {b[n].id : n \in named}
        /\ \A x \in DOMAIN o.writes : o.writes[x].status = "Issued"
    <3> DEFINE item(x) == b[CHOOSE n \in named : b[n].id = x]
               version(x) == BatchVersion(item(x))
               wr == [x \in {b[n].id : n \in named} |->
                         Issued(i.cert, item(x).student, item(x).grade, version(x))]
    <3>0. IssueBatchGrades(world, t, i).ok
      BY <2>2, <2>3
    <3>1. /\ IssueBatchGrades(world, t, i) = Accept(wr)
          /\ \A n \in named : ~Exists(world, b[n].id)
      BY <3>0 DEF IssueBatchGrades, When, Accept, Reject
    <3>2. \A x \in {b[n].id : n \in named} : wr[x].status = "Issued"
      BY DEF Issued
    <3>3. DOMAIN wr = {b[n].id : n \in named}
      OBVIOUS
    <3> HIDE DEF wr
    <3> QED
      BY <2>3, <3>1, <3>2, <3>3 DEF Accept
  <2>5. \A n \in named : b[n].id \in Keys
    <3>1. ReadSet(i) \subseteq Keys
      BY <2>2, ReadsKeys
    <3>2. \A n \in named : b[n].id \in ReadSet(i)
      BY <1>1 DEF ReadSet
    <3> QED
      BY <3>1, <3>2
  <2> HIDE DEF o, i, b
  <2>6. id \in Keys /\ ~Exists(world, id) /\ o.writes[id].status = "Issued"
    BY <1>1, <2>2, <2>4, <2>5
  <2>7. world'[id] = o.writes[id]
    BY <1>1, <2>2, <2>6 DEF Commit, Keys
  <2> QED
    BY <2>6, <2>7
<1>2. ASSUME FabricIInv, [FabricNext]_fabricVars
      PROVE  \A t \in TxIds :
                 (InFlight(t) /\ inflight[t].inv.fn = "IssueBatchGrades") =>
                     LET ids == DOMAIN inflight[t].writes
                     IN  /\ t \in used' \ used => \A id \in ids : /\ ~Exists(world, id)
                                                               /\ world'[id].status = "Issued"
                         /\ (t \notin used' /\ inflight'[t] # inflight[t]) => world' = world
  BY <1>1, <1>2, OnlyCommitsJoin
<1> QED
  BY <1>2, FabricInvariant, PTL DEF FabricSpec, BatchIsAllOrNothing

\* Along each key's history every value follows from the one before it by one legal
\* step, although transactions that read the same versions are in flight together.
THEOREM NothingLost == FabricSpec => []NoLostUpdate
BY FabricIsAtomic, LegalHistory, PTL DEF ImplementsGradeLedger, NoLostUpdate

\* Every final grade was approved in the step before it, whatever else was in flight.
THEOREM FinalGradesApprovedInFlight == FabricSpec => []FinalGradesWereApproved
BY FabricIsAtomic, FinalGradesApproved, PTL DEF ImplementsGradeLedger

\* A call writes only keys of the ledger.
LEMMA WritesKeys ==
    ASSUME NEW w, NEW t \in TxIds, NEW i \in Invocations, Execute(w, t, i).ok
    PROVE  DOMAIN Execute(w, t, i).writes \subseteq Keys
<1> USE DEF When, Accept, Reject, Put, Unwritten, Keys
<1>1. CASE i \in BatchInvocations
  <2> DEFINE b == i.batch
             ids == {b[n].id : n \in {n \in DOMAIN b : b[n].id # NoId}}
  <2>1. Execute(w, t, i) = IssueBatchGrades(w, t, i) /\ ReadSet(i) = {b[n].id : n \in DOMAIN b} \ {NoId}
    BY <1>1 DEF Execute, BatchInvocations, ReadSet
  <2>2. DOMAIN IssueBatchGrades(w, t, i).writes = ids
    BY <2>1 DEF IssueBatchGrades
  <2>3. ids \subseteq ReadSet(i)
    BY <2>1
  <2> QED
    BY <2>1, <2>2, <2>3, ReadsKeys
<1>2. CASE i \in InitInvocations
  BY <1>2, ChaincodeAssumption DEF Execute, InitInvocations, InitLedger
<1>3. CASE i \in AuditInvocations
  BY <1>3 DEF Execute, AuditInvocations, CreateAuditEvent
<1>4. CASE i \in ResetInvocations
  BY <1>4 DEF Execute, ResetInvocations, ResetLedgerToGenesis
<1>5. CASE i \in IssueInvocations
  BY <1>5 DEF Execute, IssueInvocations, IssueGrade
<1>6. CASE i \in ReturnInvocations
  BY <1>6 DEF Execute, ReturnInvocations, ReturnGrade
<1>7. CASE i \in UpdateInvocations
  BY <1>7 DEF Execute, UpdateInvocations, UpdateGrade
<1>8. CASE i \in ApproveInvocations
  BY <1>8 DEF Execute, ApproveInvocations, ApproveGrade
<1>9. CASE i \in FinalizeInvocations
  BY <1>9 DEF Execute, FinalizeInvocations, FinalizeRecord
<1> QED
  BY <1>1, <1>2, <1>3, <1>4, <1>5, <1>6, <1>7, <1>8, <1>9 DEF Invocations

\* Endorsed transactions carry an invocation, versions and writes of the right kind.
THEOREM FabricTypeCorrect == FabricSpec => []FabricTypeOK
<1>1. ASSUME TypeOK, FabricIInv
      PROVE  FabricTypeOK
  <2>1. DOMAIN inflight = TxIds
    BY <1>1 DEF FabricIInv, Outstanding
  <2>2. ASSUME NEW t \in TxIds, inflight[t] \notin {Idle, Dropped}
        PROVE  /\ InFlight(t)
               /\ inflight[t].inv \in Invocations
               /\ inflight[t].reads \in [ReadSet(inflight[t].inv) -> Nat]
               /\ DOMAIN inflight[t].writes \subseteq Keys
    <3>1. PICK w, e : e = inflight[t] /\ SimulatedOn(w, t, e)
      BY <1>1, <2>2 DEF FabricIInv, Outstanding
    <3>2. /\ InFlight(t) /\ e.inv \in Invocations
          /\ DOMAIN e.writes \subseteq Keys
      BY <3>1, WritesKeys DEF SimulatedOn, InFlight
    <3>3. ASSUME NEW k \in ReadSet(e.inv)
          PROVE  e.reads[k] \in Nat
      <4>1. k \in Keys
        BY <3>2, ReadsKeys
      <4>2. history[k] \in Seq(Entry)
        BY <1>1, <4>1 DEF TypeOK
      <4> QED
        BY <3>1, <4>2 DEF SimulatedOn
    <3>4. e.reads \in [ReadSet(e.inv) -> Nat]
      BY <3>1, <3>3 DEF SimulatedOn
    <3> QED
      BY <3>1, <3>2, <3>4
  <2> QED
    BY <1>1, <2>1, <2>2 DEF FabricTypeOK
<1>2. FabricSpec => []TypeOK
  BY FabricIsAtomic, TypeCorrect, PTL DEF ImplementsGradeLedger
<1> QED
  BY <1>1, <1>2, FabricInvariant, PTL
=============================================================================
