-------------------------- MODULE EnrollmentProofs --------------------------
(***************************************************************************)
(* The enrollment service and the registrars' pages over it.               *)
(*                                                                         *)
(* First the service, for any students, sections and number of competing   *)
(* requests: locks exclude each other, what a transaction checked stays    *)
(* true, a circle of waits needs a promotion, and the transactions         *)
(* implement the whole-or-nothing requests of Enrollments.                 *)
(*                                                                         *)
(* Then the pages, for any number of browsers, edits and messages: what a  *)
(* roster calls saved was saved, a finished section left nobody out, and   *)
(* who rises with a promoted roster is promoted.                           *)
(***************************************************************************)
EXTENDS EnrollmentTransactions, Sectioning, SetInduction, TLAPS

-----------------------------------------------------------------------------
(* EnrollmentTransactions.                                                 *)

\* The inductive invariant: types, exclusive locks, checks that still hold, and locks
\* taken in order.
TxInv == TxTypeOK /\ LocksExclusive /\ ChecksHold /\ LocksAscend

-----------------------------------------------------------------------------
(* The requests.                                                           *)

\* A request names students it has expectations of.
LEMMA RequestShape ==
    ASSUME NEW req \in Requests
    PROVE  /\ req.kind = "assign" => /\ req.to \in Sections
                                     /\ req.expects \in [Named(req) -> Sections \cup {Unassigned}]
           /\ req.kind = "assign ahead" => /\ req.to \in Sections
                                           /\ req.expects \in [Named(req) -> Sections \cup {Unassigned}]
           /\ req.kind = "promote" => req.expects \in [Named(req) -> Sections]
           /\ req.kind \in {"assign", "assign ahead", "promote"}
           /\ Named(req) \subseteq Ids
<1>1. PICK ids \in (SUBSET Ids) \ {{}} :
        req \in [kind : {"assign", "assign ahead"}, to : Sections,
                 expects : [ids -> Sections \cup {Unassigned}]]
                  \cup [kind : {"promote"}, to : {NotEnrolled}, expects : [ids -> Sections]]
    BY DEF Requests
<1>2. Named(req) = ids
    BY <1>1 DEF Named
<1> QED
    BY <1>1, <1>2

\* Serving some students keeps every enrollment a place.
LEMMA ServedPlaces ==
    ASSUME NEW req \in Requests,
           NEW here \in [Students -> Places], NEW there \in [Students -> Places],
           NEW who, who \subseteq Named(req)
    PROVE  /\ Placed(here, req, who) \in [Students -> Places]
           /\ Advanced(there, req, who) \in [Students -> Places]
    BY RequestShape DEF Placed, Advanced, Places

-----------------------------------------------------------------------------
(* Every step keeps the invariant.                                         *)

LEMMA InitInv == TxInit => TxInv
    BY DEF TxInit, Init, TxInv, TxTypeOK, TypeOK, LocksExclusive, ChecksHold, LocksAscend,
           Open, Idle, Places

\* Nothing changes: neither do its enrollments' checks.
LEMMA BeginInv ==
    ASSUME TxInv, NEW t \in Txs, NEW req \in Requests, Begin(t, req)
    PROVE  TxInv'
<1> USE DEF TxInv
<1>1. TxTypeOK'
    BY RequestShape DEF Begin, TxTypeOK, TypeOK, Idle, Working, vars
<1>2. \A u \in Open' : u = t \/ (u \in Open /\ tx'[u] = tx[u])
    BY DEF Begin, Open, TxTypeOK
<1>3. tx'[t].done = {} /\ tx'[t].rows = {}
    BY DEF Begin, Working, TxTypeOK
<1>4. LocksExclusive'
  <2>1. \A u, v \in Open' : u # v => tx'[u].done \cap tx'[v].done = {}
    BY <1>2, <1>3 DEF LocksExclusive
  <2>2. \A u, v \in Open' :
            u # v /\ tx'[u].req.kind = "promote" => tx'[u].rows \cap tx'[v].rows = {}
    BY <1>2, <1>3 DEF LocksExclusive
  <2> QED BY <2>1, <2>2 DEF LocksExclusive
<1>5. ChecksHold'
    BY <1>2, <1>3 DEF ChecksHold, Begin, vars
<1>6. LocksAscend'
    BY <1>2, <1>3 DEF LocksAscend
<1> QED
    BY <1>1, <1>4, <1>5, <1>6

\* The student that is locked was free, passes the check, and is the lowest to come.
LEMMA RowInv ==
    ASSUME TxInv, NEW t \in Txs, NEW s \in Ids, Row(t, s)
    PROVE  TxInv'
<1> USE DEF TxInv
<1>1. /\ t \in Open
      /\ tx'[t] = Working(tx[t].req, tx[t].todo \ {s}, tx[t].done \cup {s}, tx[t].rows)
      /\ \A u \in Txs \ {t} : tx'[u] = tx[u]
      /\ DOMAIN tx' = Txs
      /\ place' = place /\ ahead' = ahead
    BY DEF Row, Open, TxTypeOK, vars
<1>2. Open' = Open
    BY <1>1 DEF Open, Working
<1>3. /\ tx'[t].done = tx[t].done \cup {s}
      /\ tx'[t].todo = tx[t].todo \ {s}
      /\ tx'[t].req = tx[t].req
      /\ tx'[t].rows = tx[t].rows
    BY <1>1 DEF Working
<1>4. s \in tx[t].todo /\ \A r \in tx[t].todo : s <= r
    BY DEF Row, IsNext
<1>5. TxTypeOK'
  <2>1. tx[t] # Idle
    BY <1>1 DEF Open, Idle
  <2>2. /\ tx[t].req \in Requests
        /\ tx[t].todo \cup tx[t].done = Named(tx[t].req)
        /\ tx[t].todo \cap tx[t].done = {}
        /\ tx[t].rows \subseteq SectionRows(tx[t].req, tx[t].done)
    BY <2>1 DEF TxTypeOK
  <2>3. /\ tx'[t].open
        /\ tx'[t] = Working(tx'[t].req, tx'[t].todo, tx'[t].done, tx'[t].rows)
    BY <1>1, <1>3 DEF Working
  <2>4. tx'[t].todo \cup tx'[t].done = Named(tx'[t].req) /\ tx'[t].todo \cap tx'[t].done = {}
    BY <1>3, <1>4, <2>2
  <2>5. TypeOK'
    BY <1>1 DEF TypeOK, TxTypeOK
  <2>6. tx'[t].rows \subseteq SectionRows(tx'[t].req, tx'[t].done)
    BY <1>3, <2>2 DEF SectionRows
  <2> QED
    BY <1>1, <1>3, <2>2, <2>3, <2>4, <2>5, <2>6 DEF TxTypeOK
<1>6. LocksExclusive'
  <2>1. \A u \in Open \ {t} : s \notin tx[u].done
    BY DEF Row, LockedByOther
  <2>2. \A u \in Open : t # u => tx[t].done \cap tx[u].done = {}
    BY <1>1 DEF LocksExclusive
  <2>3. \A u \in Open \ {t} : tx'[u] = tx[u]
    BY <1>1 DEF Open
  <2>4. \A u, v \in Open' :
            u # v /\ tx'[u].req.kind = "promote" => tx'[u].rows \cap tx'[v].rows = {}
    BY <1>2, <1>3, <2>3 DEF LocksExclusive
  <2>5. \A u, v \in Open' : u # v => tx'[u].done \cap tx'[v].done = {}
    BY <1>2, <1>3, <2>1, <2>2, <2>3 DEF LocksExclusive
  <2> QED
    BY <2>4, <2>5 DEF LocksExclusive
<1>7. ChecksHold'
  <2>1. MayServe(place, ahead, s, tx[t].req)
    BY DEF Row
  <2>2. \A r \in tx[t].done : MayServe(place, ahead, r, tx[t].req)
    BY <1>1 DEF ChecksHold
  <2>3. \A u \in Open \ {t} : tx'[u] = tx[u]
    BY <1>1 DEF Open
  <2>4. \A r \in tx'[t].done : MayServe(place', ahead', r, tx'[t].req)
    BY <1>1, <1>3, <2>1, <2>2
  <2>5. \A u \in Open \ {t} : \A r \in tx'[u].done : MayServe(place', ahead', r, tx'[u].req)
    BY <1>1, <2>3 DEF ChecksHold
  <2> QED
    BY <1>2, <2>4, <2>5 DEF ChecksHold
<1>8. LocksAscend'
  <2>1. \A u \in Open \ {t} : tx'[u] = tx[u]
    BY <1>1 DEF Open
  <2>2. \A r \in tx[t].done, q \in tx[t].todo : r <= q
    BY <1>1 DEF LocksAscend
  <2>3. \A r \in tx'[t].done, q \in tx'[t].todo : r <= q
    BY <1>3, <1>4, <2>2
  <2> QED
    BY <1>2, <2>1, <2>3 DEF LocksAscend
<1> QED
    BY <1>5, <1>6, <1>7, <1>8

\* The section's row was free, or shared: no promotion is among those that have it.
LEMMA LockSectionInv ==
    ASSUME TxInv, NEW t \in Txs, LockSection(t)
    PROVE  TxInv'
<1> USE DEF TxInv
<1>1. PICK row \in Wanted(t) :
        /\ \A u \in Txs : ~RowHeldBy(t, u, row)
        /\ tx' = [tx EXCEPT ![t] = Working(tx[t].req, tx[t].todo, tx[t].done, tx[t].rows \cup {row})]
    BY DEF LockSection
<1>2. PICK w : w = tx[t]
    OBVIOUS
<1>3. t \in Open /\ tx[t] # Idle
    BY DEF LockSection, Open, Idle
<1>4. /\ w.open /\ w.req \in Requests
      /\ w = Working(w.req, w.todo, w.done, w.rows)
      /\ w.todo \cup w.done = Named(w.req) /\ w.todo \cap w.done = {}
      /\ w.rows \subseteq SectionRows(w.req, w.done)
    BY <1>2, <1>3 DEF TxTypeOK
<1>5. PICK n : n = Working(w.req, w.todo, w.done, w.rows \cup {row})
    OBVIOUS
<1>6. /\ n.open /\ n.req = w.req /\ n.todo = w.todo /\ n.done = w.done
      /\ n.rows = w.rows \cup {row}
      /\ n = Working(n.req, n.todo, n.done, n.rows)
    BY <1>5 DEF Working
<1>8. tx' = [tx EXCEPT ![t] = n]
    BY <1>1, <1>2, <1>5
<1>9. tx'[t] = n /\ \A u \in Txs \ {t} : tx'[u] = tx[u]
    BY <1>8 DEF TxTypeOK
<1>10. Open' = Open
    BY <1>3, <1>6, <1>9 DEF Open
<1>11. place' = place /\ ahead' = ahead
    BY DEF LockSection, vars
<1>12. TxTypeOK'
  <2>1. row \in SectionRows(w.req, w.done)
    BY <1>1, <1>2 DEF Wanted
  <2>2. TypeOK'
    BY <1>11 DEF TypeOK, TxTypeOK
  <2>3. n.rows \subseteq SectionRows(n.req, n.done)
    BY <1>4, <1>6, <2>1
  <2>4. DOMAIN tx' = Txs
    BY <1>8 DEF TxTypeOK
  <2>5. n.req \in Requests /\ n.todo \cup n.done = Named(n.req) /\ n.todo \cap n.done = {}
    BY <1>4, <1>6
  <2> QED BY <1>6, <1>9, <2>2, <2>3, <2>4, <2>5 DEF TxTypeOK
<1>13. \A u \in Open : u \in Txs /\ tx'[u].req = tx[u].req /\ tx'[u].done = tx[u].done
                         /\ tx'[u].todo = tx[u].todo
    BY <1>2, <1>6, <1>9 DEF Open
<1>14. LocksExclusive'
  <2>1. \A u \in Open \ {t} :
            tx[t].req.kind = "promote" \/ tx[u].req.kind = "promote" => row \notin tx[u].rows
    BY <1>1 DEF RowHeldBy, Open
  <2>2. \A u, v \in Open :
            u # v /\ tx[u].req.kind = "promote" => tx[u].rows \cap tx[v].rows = {}
    BY DEF LocksExclusive
  <2>3. \A u \in Open : tx'[u].rows = IF u = t THEN tx[u].rows \cup {row} ELSE tx[u].rows
    BY <1>2, <1>6, <1>9 DEF Open
  <2>4. ASSUME NEW u \in Open, NEW v \in Open, u # v, tx[u].req.kind = "promote"
        PROVE  tx'[u].rows \cap tx'[v].rows = {}
    <3>4. tx[u].rows \cap tx[v].rows = {}
      BY <2>2, <2>4
    <3>1. CASE u = t
      <4>1. row \notin tx[v].rows /\ tx'[v].rows = tx[v].rows
        BY <2>1, <2>3, <2>4, <3>1
      <4> QED BY <2>3, <3>1, <3>4, <4>1
    <3>2. CASE v = t
      <4>1. row \notin tx[u].rows /\ tx'[u].rows = tx[u].rows
        BY <2>1, <2>3, <2>4, <3>2
      <4> QED BY <2>3, <3>2, <3>4, <4>1
    <3>3. CASE u # t /\ v # t
      BY <2>2, <2>3, <2>4, <3>3
    <3> QED BY <3>1, <3>2, <3>3
  <2>5. \A u, v \in Open' :
            u # v /\ tx'[u].req.kind = "promote" => tx'[u].rows \cap tx'[v].rows = {}
    BY <1>10, <1>13, <2>4
  <2>6. \A u, v \in Open' : u # v => tx'[u].done \cap tx'[v].done = {}
    BY <1>10, <1>13 DEF LocksExclusive
  <2> QED BY <2>5, <2>6 DEF LocksExclusive
<1>15. ChecksHold' /\ LocksAscend'
    BY <1>10, <1>11, <1>13 DEF ChecksHold, LocksAscend
<1> QED
    BY <1>12, <1>14, <1>15

\* A transaction that ends without a commit takes only its locks with it.
LEMMA RollbackInv ==
    ASSUME TxInv, NEW t \in Txs, tx' = [tx EXCEPT ![t] = Idle], UNCHANGED vars
    PROVE  TxInv'
<1>1. \A u \in Open' : u \in Open /\ tx'[u] = tx[u]
    BY DEF Open, Idle, TxInv, TxTypeOK
<1>2. TxTypeOK'
    BY DEF TxInv, TxTypeOK, TypeOK, vars
<1> QED
    BY <1>1, <1>2 DEF TxInv, LocksExclusive, ChecksHold, LocksAscend, vars

\* A commit changes students that no other transaction has checked.
LEMMA CommitInv ==
    ASSUME TxInv, NEW t \in Txs, Commit(t)
    PROVE  TxInv'
<1> USE DEF TxInv
<1>1. t \in Open /\ tx[t] # Idle
    BY DEF Commit, Open, Idle
<1>2. tx[t].req \in Requests /\ tx[t].done \subseteq Named(tx[t].req)
    BY <1>1 DEF TxTypeOK
<1>3. \A u \in Open' : u \in Open /\ u # t /\ tx'[u] = tx[u]
    BY DEF Commit, Open, Idle, TxTypeOK
<1>4. TxTypeOK'
  <2>1. TypeOK'
    BY <1>2, ServedPlaces DEF Commit, TxTypeOK, TypeOK
  <2> QED
    BY <2>1 DEF TxTypeOK, Commit
<1>5. ChecksHold'
  <2> SUFFICES ASSUME NEW u \in Open', NEW s \in tx'[u].done
               PROVE  MayServe(place', ahead', s, tx'[u].req)
    BY DEF ChecksHold
  <2>1. u \in Open /\ u # t /\ tx'[u] = tx[u]
    BY <1>3
  <2>2. MayServe(place, ahead, s, tx[u].req)
    BY <2>1 DEF ChecksHold
  <2>3. s \notin tx[t].done
    BY <1>1, <2>1 DEF LocksExclusive
  <2>4. s \in Students
    BY <2>2 DEF MayServe
  <2>5. place'[s] = place[s] /\ ahead'[s] = ahead[s]
    BY <2>3, <2>4 DEF Commit, Placed, Advanced
  <2> QED
    BY <2>1, <2>2, <2>5 DEF MayServe, MayAssign, MayPromote
<1>6. LocksExclusive' /\ LocksAscend'
    BY <1>3 DEF LocksExclusive, LocksAscend
<1> QED
    BY <1>4, <1>5, <1>6

\* A change of one student's enrollment waits for whoever has checked that student.
LEMMA ChangeOneInv ==
    ASSUME TxInv, NEW s \in Students, ChangeOne(s)
    PROVE  TxInv'
<1> USE DEF TxInv
<1>1. \A r \in Students : r # s => place'[r] = place[r]
    BY DEF ChangeOne, Enroll, Leave, TxTypeOK, TypeOK
<1>2. TxTypeOK'
    BY DEF ChangeOne, Enroll, Leave, TxTypeOK, TypeOK, Places
<1>3. Open' = Open /\ tx' = tx
    BY DEF ChangeOne, Open
<1>4. ChecksHold'
  <2> SUFFICES ASSUME NEW t \in Open, NEW r \in tx[t].done
               PROVE  MayServe(place', ahead', r, tx[t].req)
    BY <1>3 DEF ChecksHold
  <2>1. MayServe(place, ahead, r, tx[t].req)
    BY DEF ChecksHold
  <2>2. r \in Students /\ r # s
    BY <2>1 DEF MayServe, ChangeOne
  <2>3. ahead' = ahead
    BY DEF ChangeOne, Enroll, Leave
  <2> QED
    BY <1>1, <2>1, <2>2, <2>3 DEF MayServe, MayAssign, MayPromote
<1> QED
    BY <1>2, <1>3, <1>4 DEF LocksExclusive, LocksAscend

LEMMA StepInv == TxInv /\ [TxNext]_txVars => TxInv'
<1> SUFFICES ASSUME TxInv, [TxNext]_txVars
             PROVE  TxInv'
    OBVIOUS
<1>1. ASSUME NEW t \in Txs, NEW req \in Requests, Begin(t, req)
      PROVE  TxInv'
    BY <1>1, BeginInv
<1>2. ASSUME NEW t \in Txs, Step(t)
      PROVE  TxInv'
  <2>1. CASE LockSection(t)
    BY <2>1, LockSectionInv
  <2>2. ASSUME NEW s \in Ids, Row(t, s) PROVE TxInv'
    BY <2>2, RowInv
  <2>3. ASSUME NEW s \in Ids, Refuse(t, s) PROVE TxInv'
    BY <2>3, RollbackInv DEF Refuse
  <2> QED
    BY <1>2, <2>1, <2>2, <2>3 DEF Step
<1>3. ASSUME NEW t \in Txs, Commit(t)
      PROVE  TxInv'
    BY <1>3, CommitInv
<1>4. ASSUME NEW t \in Txs, Crash(t)
      PROVE  TxInv'
    BY <1>4, RollbackInv DEF Crash
<1>5. ASSUME NEW s \in Students, ChangeOne(s)
      PROVE  TxInv'
    BY <1>5, ChangeOneInv
<1>7. ASSUME NEW t \in Txs, DeadlockDetected(t)
      PROVE  TxInv'
    BY <1>7, RollbackInv DEF DeadlockDetected
<1>6. CASE UNCHANGED txVars
    BY <1>6 DEF TxInv, TxTypeOK, TypeOK, LocksExclusive, ChecksHold, LocksAscend, Open,
                txVars
<1> QED
    BY <1>1, <1>2, <1>3, <1>4, <1>5, <1>6, <1>7 DEF TxNext

\* At every moment: types, exclusive locks, checks that hold, locks in order.
THEOREM LockingIsSound == TxSpec => []TxInv
<1>1. TxInit => TxInv
    BY InitInv
<1>2. TxInv /\ [TxNext]_txVars => TxInv'
    BY StepInv
<1> QED
    BY <1>1, <1>2, PTL DEF TxSpec

\* Enrollments, requests under way and locks keep their types; the rows a transaction
\* has still to lock and those it has locked are the students its request names.
THEOREM TxTypeCorrect == TxSpec => []TxTypeOK
<1>1. TxInv => TxTypeOK
    BY DEF TxInv
<1> QED
    BY <1>1, LockingIsSound, PTL

\* "A stale roster cannot overwrite another registrar's intervening assignment", for
\* any number of registrars: up to its commit, a request that moves a student was
\* right about where the student is.
THEOREM StaleRostersStop == TxSpec => []StaleRosterMovesNobody
<1>1. TxInv => StaleRosterMovesNobody
    BY DEF TxInv, ChecksHold, StaleRosterMovesNobody, MayServe, MayAssign
<1> QED
    BY <1>1, LockingIsSound, PTL

\* Assignments hold no section's row that other assignments want.
LEMMA SectionsNeedPromotions ==
    ASSUME NEW t \in Open, NEW u, WaitsForSection(t, u)
    PROVE  u \in Open /\ (tx[t].req.kind = "promote" \/ tx[u].req.kind = "promote")
    BY DEF WaitsForSection, RowHeldBy

\* Who is waited for, and waits for a student too, waits for a higher number.
LEMMA WaitingGoesUp ==
    ASSUME TxInv, NEW t \in Txs, NEW u \in Txs, NEW v \in Txs, NEW s \in Ids, NEW r \in Ids,
           WaitsForStudent(t, u, s), WaitsForStudent(u, v, r)
    PROVE  s < r
<1>1. u \in Open /\ s \in tx[u].done /\ r \in tx[u].todo
    BY DEF WaitsForStudent, IsNext
<1>2. s <= r
    BY <1>1 DEF TxInv, LocksAscend
<1>3. tx[u].todo \cap tx[u].done = {}
    BY <1>1 DEF TxInv, TxTypeOK, Open, Idle
<1>4. s # r /\ s \in Nat /\ r \in Nat
    BY <1>1, <1>3, EnrollmentsAssumption
<1> QED
    BY <1>2, <1>4

\* A transaction waits for one student at a time.
LEMMA OneStudent ==
    ASSUME NEW t, NEW u, NEW v, NEW s \in Ids, NEW r \in Ids,
           WaitsForStudent(t, u, s), WaitsForStudent(t, v, r)
    PROVE  s = r
<1>1. s \in Nat /\ r \in Nat /\ s <= r /\ r <= s
    BY EnrollmentsAssumption DEF WaitsForStudent, IsNext
<1> QED
    BY <1>1

\* "Stable ordering and row locks serialize competing assignments": for any number of
\* requests, a circle of waits needs a section's row and a promotion; assignments alone
\* never wait in a circle.
THEOREM CirclesArePromotions == TxSpec => []CirclesNeedPromotions
<1>1. TxInv => CirclesNeedPromotions
  <2> SUFFICES ASSUME TxInv, NEW C \in SUBSET Open, C # {},
                      \A t \in C : \E u \in C : WaitsFor(t, u)
               PROVE  \E t, u \in C : WaitsForSection(t, u)
    BY SectionsNeedPromotions DEF CirclesNeedPromotions
  <2> SUFFICES ASSUME \A t, u \in C : ~WaitsForSection(t, u)
               PROVE  FALSE
    OBVIOUS
  <2>1. \A t \in C : \E u \in C, s \in Ids : WaitsForStudent(t, u, s)
    BY DEF WaitsFor
\* Those of C that wait for no lower a student than t does: fewer for whom t waits for.
  <2> DEFINE Above(t) == {u \in C : \E s, r \in Ids, v, w \in C :
                             WaitsForStudent(t, v, s) /\ WaitsForStudent(u, w, r) /\ s <= r}
             F == {Above(t) : t \in C}
             R == StrictSubsetOrdering(Txs)
  <2>2. C \subseteq Txs /\ IsFiniteSet(C)
    BY TransactionsAssumption, FS_Subset DEF Open
  <2>3. F \subseteq FiniteSubsetsOf(Txs)
    BY <2>2, FS_Subset DEF FiniteSubsetsOf
  <2>4. IsWellFoundedOn(R, FiniteSubsetsOf(Txs))
    BY FS_StrictSubsetOrderingWellFounded
  <2>5. F # {}
    <3>1. PICK t \in C : TRUE
      OBVIOUS
    <3>2. Above(t) \in F
      OBVIOUS
    <3> QED BY <3>2
  <2>6. ASSUME NEW t \in C PROVE \E u \in C : Above(u) \subseteq Above(t) /\ t \in Above(t) \ Above(u)
    <3>1. PICK u \in C, s \in Ids : WaitsForStudent(t, u, s)
      BY <2>1
    <3>2. PICK v \in C, r \in Ids : WaitsForStudent(u, v, r)
      BY <2>1
    <3>3. s < r /\ s \in Nat /\ r \in Nat
      BY <2>2, <3>1, <3>2, WaitingGoesUp, EnrollmentsAssumption
    <3>4. t \in Above(t)
      BY <3>1, <3>3
    <3>5. t \notin Above(u)
      <4> SUFFICES ASSUME NEW q \in Ids, NEW p \in Ids, NEW x \in C, NEW y \in C,
                          WaitsForStudent(u, x, q), WaitsForStudent(t, y, p), q <= p
                   PROVE  FALSE
        OBVIOUS
      <4>1. q = r /\ p = s
        BY <3>1, <3>2, OneStudent
      <4> QED BY <3>3, <4>1
    <3>6. Above(u) \subseteq Above(t)
      <4> SUFFICES ASSUME NEW x \in C, NEW q \in Ids, NEW p \in Ids, NEW y \in C, NEW z \in C,
                          WaitsForStudent(u, y, q), WaitsForStudent(x, z, p), q <= p
                   PROVE  x \in Above(t)
        OBVIOUS
      <4>1. q = r /\ p \in Nat
        BY <3>2, OneStudent, EnrollmentsAssumption
      <4>2. s <= p
        BY <3>3, <4>1
      <4> QED BY <3>1, <4>2
    <3> QED BY <3>4, <3>5, <3>6
  <2> HIDE DEF F, R
  <2>7. PICK m \in F : \A n \in F : ~(<<n, m>> \in R)
    BY <2>3, <2>4, <2>5, WFMin
  <2>8. PICK t \in C : m = Above(t)
    BY DEF F
  <2>9. PICK u \in C : Above(u) \subseteq Above(t) /\ t \in Above(t) \ Above(u)
    BY <2>6
  <2>10. Above(u) \in F /\ Above(u) \in SUBSET Txs /\ Above(t) \in SUBSET Txs
    BY <2>2 DEF F
  <2>11. <<Above(u), Above(t)>> \in R
    BY <2>9, <2>10 DEF R, StrictSubsetOrdering
  <2> QED BY <2>7, <2>8, <2>10, <2>11
<1> QED
    BY <1>1, LockingIsSound, PTL

-----------------------------------------------------------------------------
(* The refinement.                                                         *)

\* A commit is the whole request at once.
LEMMA CommitServes ==
    ASSUME TxInv, NEW t \in Txs, Commit(t)
    PROVE  \E req \in Requests : Serve(req)
<1>1. t \in Open /\ tx[t] # Idle
    BY DEF Commit, Open, Idle
<1>2. tx[t].req \in Requests /\ tx[t].done = Named(tx[t].req)
    BY <1>1 DEF TxInv, TxTypeOK, Commit
<1>3. Acceptable(place, ahead, tx[t].req)
    BY <1>1, <1>2 DEF TxInv, ChecksHold, Acceptable
<1>4. Serve(tx[t].req)
    BY <1>2, <1>3 DEF Serve, Commit
<1> QED
    BY <1>2, <1>4

\* "The entire request is atomic": seen from the committed enrollments, every step of
\* the transactions is one whole request, a change of one student, or nothing.
THEOREM RequestsAreAtomic == TxSpec => ImplementsEnrollments
<1>1. TxInit => Init
    BY DEF TxInit
<1>2. TxInv /\ [TxNext]_txVars => [Next]_vars
  <2> SUFFICES ASSUME TxInv, TxNext
               PROVE  [Next]_vars
    BY DEF txVars, vars
  <2>1. ASSUME NEW t \in Txs, Commit(t)
        PROVE  Next
    BY <2>1, CommitServes DEF Next
  <2>2. ASSUME NEW s \in Students, ChangeOne(s)
        PROVE  Next
    BY <2>2 DEF Next, ChangeOne
  <2>3. ASSUME NEW t \in Txs,
               \/ \E req \in Requests : Begin(t, req)
               \/ Step(t)
               \/ DeadlockDetected(t)
               \/ Crash(t)
        PROVE  UNCHANGED vars
    BY <2>3 DEF Begin, Step, LockSection, Row, Refuse, DeadlockDetected, Crash
  <2> QED
    BY <2>1, <2>2, <2>3 DEF TxNext
<1> QED
    BY <1>1, <1>2, LockingIsSound, PTL DEF TxSpec, ImplementsEnrollments, Spec

-----------------------------------------------------------------------------
(* Sectioning: the inductive invariant.                                    *)

HandlerKinds == {"none", "save", "generate", "import", "apply", "promote"}

Handlers == [kind : HandlerKinds, todo : SUBSET Sections, next : Rosters, mine : SUBSET Ids,
             touched : BOOLEAN]

\* What a roster calls saved, the server did give.
SavedIn(r) ==
    \A e \in r.here : e.saved # Unassigned => e.id \in Students /\ e.saved \in past[e.id]

\* Once a roster says promoted, those who rise and are in sections are.
PromotedIn(r) ==
    r.status = "Promoted" =>
        \A e \in Rising(r.here) :
            e.sec \in Sections => e.id \in Students /\ ahead[e.id] # NotEnrolled

Sane(r) == SavedIn(r) /\ PromotedIn(r)

\* A handler that saves sections does so for a roster that is not promoted, section by
\* section of its plans; whom it has done is marked.
MarksOK(h) ==
    /\ h.todo \subseteq h.next.plans
    /\ h.kind \notin {"none", "promote"} =>
          /\ h.next.status = "Sectioning"
          /\ \A e \in h.next.here : e.sec \in h.next.plans \ h.todo => e.saved = e.sec

PlacesOK   == TypeOK /\ past \in [Students -> SUBSET Sections]
LocalOK    == local \in [Browsers -> Rosters] /\ \A b \in Browsers : Sane(local[b])
ListOK     == list \in [Browsers -> [asked : BOOLEAN, ids : SUBSET Students]]
SharedOK   == shared \in Rosters /\ Sane(shared)
PutsOK     == puts \subseteq [by : Browsers, roster : Rosters] /\ \A m \in puts : Sane(m.roster)
AnswersOK  == /\ answers \subseteq [to : Browsers, roster : Rosters]
              /\ \A m \in answers : Sane(m.roster)
StaleOK    == stale \subseteq Browsers

\* The roster a promotion is about to keep says so already and is not yet true.
HandlersOK ==
    /\ handler \in [Browsers -> Handlers]
    /\ \A b \in Browsers : SavedIn(handler[b].next) /\ MarksOK(handler[b])

SecInv ==
    /\ PlacesOK
    /\ LocalOK /\ ListOK /\ HandlersOK
    /\ SharedOK /\ PutsOK /\ AnswersOK /\ StaleOK

-----------------------------------------------------------------------------
(* Edits.                                                                  *)

\* q is r edited: what it calls saved r does.
From(r, q) ==
    /\ q \in Rosters
    /\ q.status = r.status
    /\ \A f \in q.here : f.saved # Unassigned => \E e \in r.here : e.id = f.id /\ e.saved = f.saved

LEMMA NewEntry ==
    ASSUME NEW id \in Ids, NEW c \in Sections \cup {Unassigned, Off}
    PROVE  New(id, c) \in Entry /\ New(id, c).saved = Unassigned /\ New(id, c).sec = c
    BY DEF New, Entry

LEMMA RosterFields ==
    ASSUME NEW r \in Rosters
    PROVE  /\ r.status \in {"none", "Sectioning", "Promoted"}
           /\ r.plans \subseteq Sections
           /\ r.here \subseteq Entry
           /\ r.gone \subseteq [id : Ids, from : Sections \cup {Unassigned, Off}]
    BY DEF Rosters

\* A roster of which the entries change.
LEMMA HereChanges ==
    ASSUME NEW r \in Rosters, NEW h \in SUBSET Entry
    PROVE  /\ [r EXCEPT !.here = h] \in Rosters
           /\ [r EXCEPT !.here = h].here = h
           /\ [r EXCEPT !.here = h].status = r.status
           /\ [r EXCEPT !.here = h].plans = r.plans
    BY DEF Rosters

LEMMA MoveFrom ==
    ASSUME NEW r \in Rosters, NEW id, NEW c \in Sections \cup {Off}
    PROVE  From(r, Move(r, id, c))
<1> DEFINE h == {IF e.id = id THEN [e EXCEPT !.sec = c] ELSE e : e \in r.here}
<1>1. \A f \in h : f \in Entry /\ \E e \in r.here : e.id = f.id /\ e.saved = f.saved
  <2> SUFFICES ASSUME NEW e \in r.here, NEW f, f = IF e.id = id THEN [e EXCEPT !.sec = c] ELSE e
               PROVE  f \in Entry /\ e.id = f.id /\ e.saved = f.saved
    OBVIOUS
  <2> QED BY RosterFields DEF Entry
<1>2. Move(r, id, c) = [r EXCEPT !.here = h]
    BY DEF Move
<1> HIDE DEF h
<1>3. h \in SUBSET Entry
    BY <1>1
<1> QED BY <1>1, <1>2, <1>3, HereChanges DEF From

LEMMA DealtFrom ==
    ASSUME NEW r \in Rosters, NEW f, \A i \in DOMAIN f : f[i] \in Sections
    PROVE  From(r, Dealt(r, f)) /\ Dealt(r, f).plans = r.plans
<1> DEFINE h == {IF e.id \in DOMAIN f THEN [e EXCEPT !.sec = f[e.id]] ELSE e : e \in r.here}
<1>1. \A g \in h : g \in Entry /\ \E e \in r.here : e.id = g.id /\ e.saved = g.saved
  <2> SUFFICES ASSUME NEW e \in r.here, NEW g,
                      g = IF e.id \in DOMAIN f THEN [e EXCEPT !.sec = f[e.id]] ELSE e
               PROVE  g \in Entry /\ e.id = g.id /\ e.saved = g.saved
    OBVIOUS
  <2> QED BY RosterFields DEF Entry
<1>2. Dealt(r, f) = [r EXCEPT !.here = h]
    BY DEF Dealt
<1> HIDE DEF h
<1>3. h \in SUBSET Entry
    BY <1>1
<1> QED BY <1>1, <1>2, <1>3, HereChanges DEF From

LEMMA RemoveFrom ==
    ASSUME NEW r \in Rosters, NEW e \in r.here
    PROVE  From(r, RemoveStudent(r, e))
<1> DEFINE h == {f \in r.here : f.id # e.id}
           g == r.gone \cup {[id |-> e.id, from |-> e.sec]}
<1>1. h \in SUBSET Entry /\ h \subseteq r.here
    BY RosterFields
<1>2. g \in SUBSET [id : Ids, from : Sections \cup {Unassigned, Off}]
    BY RosterFields DEF Entry
<1>3. RemoveStudent(r, e) = [r EXCEPT !.here = h, !.gone = g]
    BY DEF RemoveStudent
<1> HIDE DEF h, g
<1>4. PICK q : q = RemoveStudent(r, e)
    OBVIOUS
<1>5. q \in Rosters /\ q.here = h /\ q.status = r.status
    BY <1>1, <1>2, <1>3, <1>4 DEF Rosters
<1> QED BY <1>1, <1>4, <1>5 DEF From

LEMMA DeleteFrom ==
    ASSUME NEW r \in Rosters, NEW c
    PROVE  From(r, DeleteSection(r, c))
    BY RosterFields DEF From, DeleteSection, Rosters, Entry

LEMMA AddFrom ==
    ASSUME NEW r \in Rosters, NEW c \in Sections, NextId(r) \in Ids
    PROVE  From(r, Add(r, c))
<1> HIDE DEF NextId
<1>1. PICK e : e = New(NextId(r), c)
    OBVIOUS
<1>2. e \in Entry /\ e.saved = Unassigned
    BY <1>1, NewEntry
<1>3. Add(r, c) = [r EXCEPT !.here = @ \cup {e}]
    BY <1>1 DEF Add
<1> QED BY <1>2, <1>3, RosterFields, HereChanges DEF From

LEMMA BackFrom ==
    ASSUME NEW r \in Rosters, NEW g \in r.gone, NEW c \in Sections \cup {Off}
    PROVE  From(r, Back(r, g, c))
<1>1. PICK e : e = New(g.id, IF g.from \in r.plans THEN g.from ELSE c)
    OBVIOUS
<1>2. e \in Entry /\ e.saved = Unassigned
    BY <1>1, NewEntry, RosterFields
<1> DEFINE h == r.here \cup {e}
           rest == {k \in r.gone : k.id # g.id}
<1>3. Back(r, g, c) = [r EXCEPT !.here = h, !.gone = rest]
    BY <1>1 DEF Back
<1>4. /\ h \in SUBSET Entry /\ \A f \in h : f = e \/ f \in r.here
      /\ rest \in SUBSET [id : Ids, from : Sections \cup {Unassigned, Off}]
    BY <1>2, RosterFields
<1> HIDE DEF h, rest
<1>5. PICK q : q = Back(r, g, c)
    OBVIOUS
<1>6. q \in Rosters /\ q.here = h /\ q.status = r.status
    BY <1>3, <1>4, <1>5 DEF Rosters
<1> QED BY <1>2, <1>4, <1>5, <1>6 DEF From

LEMMA ImportFrom ==
    ASSUME NEW r \in Rosters, NEW c \in Sections, NEW ids \in SUBSET Ids
    PROVE  From(r, ImportSection(r, c, ids)) /\ ImportSection(r, c, ids).plans = r.plans
<1> DEFINE kept == {e \in r.here : e.sec # c /\ e.id \notin ids}
           fresh == {New(id, c) : id \in ids}
<1>1. kept \subseteq r.here /\ kept \subseteq Entry
    BY RosterFields
<1>2. \A e \in fresh : e \in Entry /\ e.saved = Unassigned
    BY NewEntry
<1>3. ImportSection(r, c, ids) = [r EXCEPT !.here = kept \cup fresh]
    BY DEF ImportSection
<1> HIDE DEF kept, fresh
<1> QED BY <1>1, <1>2, <1>3, HereChanges DEF From

\* Restoring into the roster, on either page.
LEMMA RestoreFrom ==
    ASSUME NEW r \in Rosters, NEW g \in r.gone
    PROVE  From(r, Restore(r, g))
<1>1. From(r, r)
    BY DEF From
<1> QED BY <1>1, BackFrom DEF Restore

LEMMA RestoreShownFrom ==
    ASSUME NEW r \in Rosters, NEW g \in r.gone, NEW c \in Sections
    PROVE  From(r, RestoreShown(r, g, c))
    BY BackFrom DEF RestoreShown

\* Making sections changes the status and the plans.
LEMMA WithSectionsFields ==
    ASSUME NEW r \in Rosters, NEW n
    PROVE  /\ WithSections(r, n) \in Rosters
           /\ WithSections(r, n).status = "Sectioning"
           /\ WithSections(r, n).here = r.here
    BY DEF WithSections, Rosters

\* The students without a section join: they are in none.
LEMMA MergeKeeps ==
    ASSUME NEW r \in Rosters, NEW ids \in SUBSET Students
    PROVE  /\ Merge(r, ids) \in Rosters
           /\ Merge(r, ids).status = "Promoted" => r.status = "Promoted"
           /\ \A f \in Merge(r, ids).here :
                 \/ f \in r.here
                 \/ f.sec = Unassigned /\ f.saved = Unassigned
<1> DEFINE kept == {e \in r.here : e.sec # Unassigned}
           fresh == {New(id, Unassigned) : id \in ids \ IdsOf(kept)}
           st == IF r.status = "none" THEN "Sectioning" ELSE r.status
<1>1. kept \subseteq r.here /\ kept \subseteq Entry
    BY RosterFields
<1>2. \A e \in fresh : e \in Entry /\ e.sec = Unassigned /\ e.saved = Unassigned
  <2> SUFFICES ASSUME NEW id \in ids, NEW e, e = New(id, Unassigned)
               PROVE  e \in Entry /\ e.sec = Unassigned /\ e.saved = Unassigned
    OBVIOUS
  <2>1. id \in Ids
    BY EnrollmentsAssumption
  <2> QED BY <2>1, NewEntry
<1>3. PICK q : q = Merge(r, ids)
    OBVIOUS
<1>4. q = r \/ q = [r EXCEPT !.status = st, !.here = kept \cup fresh]
    BY <1>3 DEF Merge
<1>5. st \in {"none", "Sectioning", "Promoted"} /\ (st = "Promoted" => r.status = "Promoted")
    BY RosterFields
<1> HIDE DEF kept, fresh, st
<1>6. CASE q = r
    BY <1>3, <1>6
<1>7. CASE q = [r EXCEPT !.status = st, !.here = kept \cup fresh]
  <2>1. q \in Rosters /\ q.status = st /\ q.here = kept \cup fresh
    BY <1>1, <1>2, <1>5, <1>7 DEF Rosters
  <2> QED BY <2>1, <1>1, <1>2, <1>3, <1>5
<1> QED BY <1>4, <1>6, <1>7

LEMMA MarkedFields ==
    ASSUME NEW entries \in SUBSET Entry, NEW ids, NEW c \in Sections
    PROVE  /\ Marked(entries, ids, c) \subseteq Entry
           /\ \A f \in Marked(entries, ids, c) : \E e \in entries :
                 /\ f.id = e.id /\ f.sec = e.sec
                 /\ f.saved = IF e.id \in ids /\ e.sec = c THEN c ELSE e.saved
<1> SUFFICES ASSUME NEW f \in Marked(entries, ids, c)
             PROVE  f \in Entry /\ \E e \in entries :
                       /\ f.id = e.id /\ f.sec = e.sec
                       /\ f.saved = IF e.id \in ids /\ e.sec = c THEN c ELSE e.saved
    OBVIOUS
<1>1. PICK e \in entries : f = IF e.id \in ids /\ e.sec = c THEN [e EXCEPT !.saved = c] ELSE e
    BY DEF Marked
<1>2. e \in Entry
    OBVIOUS
<1>3. /\ f \in Entry /\ f.id = e.id /\ f.sec = e.sec
      /\ f.saved = IF e.id \in ids /\ e.sec = c THEN c ELSE e.saved
    BY <1>1, <1>2 DEF Entry
<1> QED BY <1>3

-----------------------------------------------------------------------------
(* What was true stays true.                                               *)

\* Students keep the sections they were in and the level they reached.
Grows ==
    /\ PlacesOK'
    /\ \A s \in Students : /\ past[s] \subseteq past'[s]
                           /\ ahead'[s] = NotEnrolled => ahead[s] = NotEnrolled

LEMMA NoMove ==
    ASSUME PlacesOK, UNCHANGED <<place, ahead, past>>
    PROVE  Grows
    BY DEF PlacesOK, TypeOK, Grows

LEMMA StillSane ==
    ASSUME Grows, NEW r
    PROVE  /\ SavedIn(r) => SavedIn(r)'
           /\ Sane(r) => Sane(r)'
    BY DEF Grows, SavedIn, PromotedIn, Sane, Rising

LEMMA FromSane ==
    ASSUME NEW r, SavedIn(r), r.status # "Promoted", NEW q, From(r, q)
    PROVE  Sane(q)
    BY DEF SavedIn, PromotedIn, Sane, From, Rising

LEMMA MergeSane ==
    ASSUME NEW r \in Rosters, Sane(r), NEW ids \in SUBSET Students
    PROVE  Sane(Merge(r, ids))
    BY MergeKeeps, EnrollmentsAssumption DEF Sane, SavedIn, PromotedIn, Rising

\* Rosters that stay where they are.
LEMMA Stays ==
    ASSUME SecInv, Grows
    PROVE  /\ UNCHANGED local => LocalOK'
           /\ UNCHANGED list => ListOK'
           /\ UNCHANGED handler => HandlersOK'
           /\ UNCHANGED shared => SharedOK'
           /\ puts' \subseteq puts => PutsOK'
           /\ answers' \subseteq answers => AnswersOK'
           /\ stale' \subseteq Browsers => StaleOK'
<1> USE DEF SecInv
<1>1. ASSUME UNCHANGED local PROVE LocalOK'
  <2>1. ASSUME NEW b \in Browsers PROVE Sane(local[b])'
    BY <1>1, StillSane DEF LocalOK
  <2> QED BY <1>1, <2>1 DEF LocalOK
<1>2. ASSUME UNCHANGED handler PROVE HandlersOK'
  <2>1. ASSUME NEW b \in Browsers PROVE SavedIn(handler[b].next)'
    BY <1>2, StillSane DEF HandlersOK
  <2> QED BY <1>2, <2>1 DEF HandlersOK
<1>3. ASSUME UNCHANGED shared PROVE SharedOK'
    BY <1>3, StillSane DEF SharedOK
<1>4. ASSUME puts' \subseteq puts PROVE PutsOK'
    BY <1>4, StillSane DEF PutsOK
<1>5. ASSUME answers' \subseteq answers PROVE AnswersOK'
    BY <1>5, StillSane DEF AnswersOK
<1> QED BY <1>1, <1>2, <1>3, <1>4, <1>5 DEF ListOK, StaleOK

\* One browser has another roster.
LEMMA LocalChanges ==
    ASSUME SecInv, Grows, NEW b \in Browsers, NEW q \in Rosters, Sane(q)',
           local' = [local EXCEPT ![b] = q]
    PROVE  LocalOK'
<1>1. local \in [Browsers -> Rosters] /\ \A d \in Browsers : Sane(local[d])
    BY DEF SecInv, LocalOK
<1>2. ASSUME NEW d \in Browsers PROVE Sane(local[d])'
  <2>1. CASE d = b
    BY <2>1, <1>1
  <2>2. CASE d # b
    BY <2>2, <1>1, StillSane
  <2> QED BY <2>1, <2>2
<1> QED BY <1>1, <1>2 DEF LocalOK

\* One roster more is on its way to the server.
LEMMA PutSane ==
    ASSUME SecInv, Grows, NEW b \in Browsers, NEW q \in Rosters, Sane(q)', puts' = Put(b, q)
    PROVE  PutsOK'
<1>1. puts \subseteq [by : Browsers, roster : Rosters] /\ \A m \in puts : Sane(m.roster)
    BY DEF SecInv, PutsOK
<1>2. ASSUME NEW m \in puts' PROVE Sane(m.roster)' /\ m \in [by : Browsers, roster : Rosters]
  <2>1. m \in puts \/ m = [by |-> b, roster |-> q]
    BY DEF Put
  <2> QED BY <2>1, <1>1, StillSane
<1> QED BY <1>2 DEF PutsOK

\* One browser's handler changes.
LEMMA HandlerChanges ==
    ASSUME SecInv, Grows, NEW b \in Browsers, NEW h \in Handlers, SavedIn(h.next)', MarksOK(h),
           handler' = [handler EXCEPT ![b] = h]
    PROVE  HandlersOK'
<1>1. handler \in [Browsers -> Handlers]
      /\ \A d \in Browsers : SavedIn(handler[d].next) /\ MarksOK(handler[d])
    BY DEF SecInv, HandlersOK
<1>2. ASSUME NEW d \in Browsers PROVE SavedIn(handler[d].next)' /\ MarksOK(handler[d])'
  <2>1. CASE d = b
    BY <2>1, <1>1 DEF MarksOK
  <2>2. CASE d # b
    BY <2>2, <1>1, StillSane DEF MarksOK
  <2> QED BY <2>1, <2>2
<1> QED BY <1>1, <1>2 DEF HandlersOK

-----------------------------------------------------------------------------
(* What a granted request does.                                            *)

LEMMA AssignGrows ==
    ASSUME PlacesOK, NEW es \in SUBSET Entry, NEW c \in Sections, Grant(Assignment(es, c))
    PROVE  /\ Grows /\ stale' = Browsers
           /\ \A e \in es : e.id \in Students /\ c \in past'[e.id]
<1>1. PICK req : req = Assignment(es, c)
    OBVIOUS
<1>2. req.kind = "assign" /\ req.to = c /\ Named(req) = IdsOf(es)
    BY <1>1 DEF Assignment, Named
<1>3. /\ \A s \in Named(req) : s \in Students
      /\ place' = Placed(place, req, Named(req))
      /\ ahead' = Advanced(ahead, req, Named(req))
      /\ past' = [s \in Students |-> past[s] \cup ({place'[s]} \cap Sections)]
      /\ stale' = Browsers
    BY <1>1 DEF Grant, Serve, Acceptable, MayServe, Announce
<1>4. \A s \in Students : place'[s] = (IF s \in IdsOf(es) THEN c ELSE place[s])
    BY <1>2, <1>3 DEF Placed
<1>5. place' \in [Students -> Places]
    BY <1>2, <1>3 DEF Placed, PlacesOK, TypeOK, Places
<1>6. ahead' = ahead
    BY <1>2, <1>3 DEF Advanced, PlacesOK, TypeOK
<1>7. PlacesOK'
    BY <1>3, <1>5, <1>6 DEF PlacesOK, TypeOK
<1>8. \A e \in es : e.id \in Students /\ e.id \in IdsOf(es)
    BY <1>2, <1>3 DEF IdsOf
<1>9. \A e \in es : c \in past'[e.id]
    BY <1>3, <1>4, <1>8
<1> QED BY <1>3, <1>6, <1>7, <1>8, <1>9 DEF Grows

LEMMA PromoteGrows ==
    ASSUME PlacesOK, NEW es \in SUBSET Entry, Promotable(es), Grant(Promotion(es))
    PROVE  /\ Grows /\ stale' = Browsers
           /\ \A e \in es : e.id \in Students /\ ahead'[e.id] # NotEnrolled
<1>1. PICK req : req = Promotion(es)
    OBVIOUS
<1>2. /\ req.kind = "promote" /\ Named(req) = IdsOf(es)
      /\ \A id \in IdsOf(es) : req.expects[id] = (CHOOSE e \in es : e.id = id).sec
    BY <1>1 DEF Promotion, Named
<1>3. \A id \in IdsOf(es) : req.expects[id] \in Sections
    BY <1>2 DEF Promotable, IdsOf
<1>4. /\ \A s \in Named(req) : s \in Students
      /\ place' = Placed(place, req, Named(req))
      /\ ahead' = Advanced(ahead, req, Named(req))
      /\ past' = [s \in Students |-> past[s] \cup ({place'[s]} \cap Sections)]
      /\ stale' = Browsers
    BY <1>1 DEF Grant, Serve, Acceptable, MayServe, Announce
<1>5. place' = place
    BY <1>2, <1>4 DEF Placed, PlacesOK, TypeOK
<1>6. \A s \in Students : ahead'[s] = (IF s \in IdsOf(es) THEN req.expects[s] ELSE ahead[s])
    BY <1>2, <1>4 DEF Advanced
<1>7. ahead' \in [Students -> Places]
    BY <1>2, <1>3, <1>4 DEF Advanced, PlacesOK, TypeOK, Places
<1>8. PlacesOK'
    BY <1>4, <1>5, <1>7 DEF PlacesOK, TypeOK
<1>9. \A e \in es : e.id \in Students /\ e.id \in IdsOf(es)
    BY <1>2, <1>4 DEF IdsOf
<1>10. \A s \in IdsOf(es) \cap Students : ahead'[s] # NotEnrolled
    BY <1>3, <1>6, EnrollmentsAssumption
<1>11. \A s \in Students : ahead'[s] = NotEnrolled => ahead[s] = NotEnrolled
    BY <1>6, <1>10
<1> QED BY <1>4, <1>8, <1>9, <1>10, <1>11 DEF Grows

-----------------------------------------------------------------------------
(* Messages.                                                               *)

LEMMA PutArrivesInv ==
    ASSUME SecInv, NEW m \in puts, PutArrives(m)
    PROVE  SecInv'
<1>1. Grows
    BY NoMove DEF PutArrives, SecInv
<1>2. m.roster \in Rosters /\ Sane(m.roster)
    BY DEF SecInv, PutsOK
<1>3. SharedOK'
    BY <1>1, <1>2, StillSane DEF SharedOK, PutArrives
<1>4. LocalOK' /\ ListOK' /\ HandlersOK' /\ PutsOK' /\ AnswersOK' /\ StaleOK'
    BY <1>1, Stays DEF PutArrives, Announce
<1> QED BY <1>1, <1>3, <1>4 DEF SecInv, Grows

LEMMA PutFailsInv ==
    ASSUME SecInv, NEW m \in puts, PutFails(m)
    PROVE  SecInv'
<1>1. Grows
    BY NoMove DEF PutFails, SecInv
<1>2. LocalOK' /\ ListOK' /\ HandlersOK' /\ SharedOK' /\ PutsOK' /\ AnswersOK' /\ StaleOK'
    BY <1>1, Stays DEF PutFails, SecInv, StaleOK
<1> QED BY <1>1, <1>2 DEF SecInv, Grows

LEMMA PullReadInv ==
    ASSUME SecInv, NEW b \in Browsers, PullRead(b)
    PROVE  SecInv'
<1>1. Grows
    BY NoMove DEF PullRead, SecInv
<1>2. LocalOK' /\ ListOK' /\ HandlersOK' /\ SharedOK' /\ PutsOK' /\ StaleOK'
    BY <1>1, Stays DEF PullRead, SecInv, StaleOK
<1>3. AnswersOK'
  <2>1. ASSUME NEW m \in answers'
        PROVE  Sane(m.roster)' /\ m \in [to : Browsers, roster : Rosters]
    <3>1. m \in answers \/ m = [to |-> b, roster |-> shared]
      BY DEF PullRead
    <3>2. shared \in Rosters /\ Sane(shared)
      BY DEF SecInv, SharedOK
    <3>3. CASE m \in answers
      BY <3>3, <1>1, StillSane DEF SecInv, AnswersOK
    <3>4. CASE m = [to |-> b, roster |-> shared]
      BY <3>2, <3>4, <1>1, StillSane
    <3> QED BY <3>1, <3>3, <3>4
  <2> QED BY <2>1 DEF AnswersOK
<1> QED BY <1>1, <1>2, <1>3 DEF SecInv, Grows

\* The page's handler shares no student with the roster that was pulled.
LEMMA PullAnsweredInv ==
    ASSUME SecInv, NEW m \in answers, PullAnswered(m)
    PROVE  SecInv'
<1>1. Grows
    BY NoMove DEF PullAnswered, SecInv
<1>2. m.to \in Browsers /\ m.roster \in Rosters /\ Sane(m.roster)'
    BY <1>1, StillSane DEF SecInv, AnswersOK
<1>3. ListOK' /\ SharedOK' /\ AnswersOK' /\ StaleOK'
    BY <1>1, Stays DEF PullAnswered, SecInv, StaleOK
<1>4. CASE m.roster # NoRoster
  <2>1. PICK h : h = [handler[m.to] EXCEPT !.mine = {}]
    OBVIOUS
  <2>2. handler[m.to] \in Handlers /\ SavedIn(handler[m.to].next) /\ MarksOK(handler[m.to])
    BY <1>2 DEF SecInv, HandlersOK
  <2>3. /\ h \in Handlers /\ h.next = handler[m.to].next /\ h.kind = handler[m.to].kind
        /\ h.todo = handler[m.to].todo
    BY <2>1, <2>2 DEF Handlers
  <2>4. handler' = [handler EXCEPT ![m.to] = h]
    BY <1>4, <2>1 DEF PullAnswered
  <2>5. SavedIn(h.next)' /\ MarksOK(h)
    BY <1>1, <2>2, <2>3, StillSane DEF MarksOK
  <2>6. HandlersOK'
    BY <1>1, <1>2, <2>3, <2>4, <2>5, HandlerChanges
  <2>7. LocalOK'
    BY <1>1, <1>2, <1>4, LocalChanges DEF PullAnswered
  <2>8. PutsOK'
    BY <1>1, <1>4, Stays DEF PullAnswered
  <2> QED BY <1>1, <1>3, <2>6, <2>7, <2>8 DEF SecInv, Grows
<1>5. CASE m.roster = NoRoster
  <2>1. LocalOK' /\ HandlersOK'
    BY <1>1, <1>5, Stays DEF PullAnswered
  <2>2. PICK q : q = local[m.to]
    OBVIOUS
  <2>3. q \in Rosters /\ Sane(q)'
    BY <1>1, <1>2, <2>2, StillSane DEF SecInv, LocalOK
  <2>4. PutsOK'
    <3>1. puts' = Put(m.to, q) \/ puts' = puts
      BY <1>5, <2>2 DEF PullAnswered
    <3> QED BY <1>1, <1>2, <2>3, <3>1, PutSane, Stays
  <2> QED BY <1>1, <1>3, <2>1, <2>4 DEF SecInv, Grows
<1> QED BY <1>4, <1>5

-----------------------------------------------------------------------------
(* The pages.                                                              *)

LEMMA ListReadInv ==
    ASSUME SecInv, NEW b \in Browsers, ListRead(b)
    PROVE  SecInv'
<1>1. Grows
    BY NoMove DEF ListRead, SecInv
<1>2. LocalOK' /\ HandlersOK' /\ SharedOK' /\ PutsOK' /\ AnswersOK' /\ StaleOK'
    BY <1>1, Stays DEF ListRead, SecInv, StaleOK
<1>3. ListOK'
    BY DEF ListRead, SecInv, ListOK
<1> QED BY <1>1, <1>2, <1>3 DEF SecInv, Grows

LEMMA ListAnsweredInv ==
    ASSUME SecInv, NEW b \in Browsers, ListAnswered(b)
    PROVE  SecInv'
<1>1. Grows
    BY NoMove DEF ListAnswered, SecInv
<1>2. HandlersOK' /\ SharedOK' /\ PutsOK' /\ AnswersOK' /\ StaleOK'
    BY <1>1, Stays DEF ListAnswered, SecInv, StaleOK
<1>3. ListOK'
    BY DEF ListAnswered, SecInv, ListOK, None
<1>4. PICK q : q = Merge(local[b], list[b].ids)
    OBVIOUS
<1>5. local[b] \in Rosters /\ Sane(local[b]) /\ list[b].ids \in SUBSET Students
    BY DEF SecInv, LocalOK, ListOK
<1>6. q \in Rosters /\ Sane(q)
    BY <1>4, <1>5, MergeKeeps, MergeSane
<1>7. local' = [local EXCEPT ![b] = q]
    BY <1>4 DEF ListAnswered
<1>8. LocalOK'
    BY <1>1, <1>6, <1>7, LocalChanges, StillSane
<1> QED BY <1>1, <1>2, <1>3, <1>8 DEF SecInv, Grows

\* Whatever the registrar makes of a shown roster.
LEMMA EditInv ==
    ASSUME SecInv, NEW b \in Browsers, NEW q, From(local[b], q), NEW ids, Edit(b, q, ids),
           Shown(local[b]), UNCHANGED puts \/ puts' = Put(b, local'[b])
    PROVE  SecInv'
<1>1. Grows
    BY NoMove DEF Edit, SecInv
<1>2. ListOK' /\ SharedOK' /\ AnswersOK' /\ StaleOK'
    BY <1>1, Stays DEF Edit, SecInv, StaleOK
<1>3. local[b] \in Rosters /\ SavedIn(local[b]) /\ local[b].status # "Promoted"
    BY DEF SecInv, LocalOK, Sane, Shown
<1>4. q \in Rosters /\ Sane(q)
    BY <1>3, FromSane DEF From
<1>5. Sane(q)' /\ local' = [local EXCEPT ![b] = q]
    BY <1>1, <1>4, StillSane DEF Edit
<1>6. LocalOK'
    BY <1>1, <1>4, <1>5, LocalChanges
<1>7. local'[b] = q
    BY <1>5 DEF SecInv, LocalOK
<1>8. PutsOK'
    BY <1>1, <1>4, <1>5, <1>7, PutSane, Stays
<1>9. PICK k : k = handler[b]
    OBVIOUS
<1>10. PICK h : h = [k EXCEPT !.mine = @ \ ids, !.touched = k.kind # "none"]
    OBVIOUS
<1>11. k \in Handlers /\ SavedIn(k.next) /\ MarksOK(k)
    BY <1>9 DEF SecInv, HandlersOK
<1>12. h \in Handlers /\ h.next = k.next /\ h.kind = k.kind /\ h.todo = k.todo
    BY <1>10, <1>11 DEF Handlers
<1>13. SavedIn(h.next)' /\ MarksOK(h)
    BY <1>1, <1>11, <1>12, StillSane DEF MarksOK
<1>14. handler' = [handler EXCEPT ![b] = h]
    BY <1>9, <1>10 DEF Edit
<1>15. HandlersOK'
    BY <1>1, <1>12, <1>13, <1>14, HandlerChanges
<1> QED BY <1>1, <1>2, <1>6, <1>8, <1>15 DEF SecInv, Grows

LEMMA CommonEditInv ==
    ASSUME SecInv, NEW b \in Browsers, CommonEdit(b), Shown(local[b]),
           UNCHANGED puts \/ puts' = Put(b, local'[b])
    PROVE  SecInv'
<1>1. PICK r : r = local[b]
    OBVIOUS
<1>2. r \in Rosters
    BY <1>1 DEF SecInv, LocalOK
<1>3. r.plans \subseteq Sections
    BY <1>2, RosterFields
<1>4. \/ \E e \in r.here, c \in r.plans : Edit(b, Move(r, e.id, c), {e.id})
      \/ \E e \in r.here : Edit(b, RemoveStudent(r, e), {e.id})
      \/ \E c \in r.plans : Edit(b, DeleteSection(r, c), {})
      \/ \E c \in r.plans : NextId(r) \in Ids /\ Edit(b, Add(r, c), {NextId(r)})
    BY <1>1 DEF CommonEdit
<1>5. \E q, ids : From(r, q) /\ Edit(b, q, ids)
    BY <1>2, <1>3, <1>4, MoveFrom, RemoveFrom, DeleteFrom, AddFrom
<1> QED BY <1>1, <1>5, EditInv

LEMMA EditSectioningInv ==
    ASSUME SecInv, NEW b \in Browsers, EditSectioning(b)
    PROVE  SecInv'
<1>1. PICK r : r = local[b]
    OBVIOUS
<1>2. r \in Rosters /\ r.plans \subseteq Sections
    BY <1>1, RosterFields DEF SecInv, LocalOK
<1>3. Shown(local[b]) /\ UNCHANGED puts
    BY DEF EditSectioning
<1>4. CASE CommonEdit(b)
    BY <1>3, <1>4, CommonEditInv
<1>5. CASE \E e \in r.here : Edit(b, Move(r, e.id, Off), {e.id})
    BY <1>1, <1>2, <1>3, <1>5, MoveFrom, EditInv
<1>6. CASE \E g \in r.gone : Edit(b, Restore(r, g), {g.id})
    BY <1>1, <1>2, <1>3, <1>6, RestoreFrom, EditInv
<1>7. CASE \E f \in Deals(IdsOf(r.here), r.plans) : Edit(b, Dealt(r, f), IdsOf(r.here))
  <2>1. PICK f \in Deals(IdsOf(r.here), r.plans) : Edit(b, Dealt(r, f), IdsOf(r.here))
    BY <1>7
  <2>2. \A i \in DOMAIN f : f[i] \in Sections
    BY <1>2, <2>1 DEF Deals
  <2> QED BY <1>1, <1>2, <1>3, <2>1, <2>2, DealtFrom, EditInv
<1> QED BY <1>1, <1>4, <1>5, <1>6, <1>7 DEF EditSectioning

LEMMA EditCreatedInv ==
    ASSUME SecInv, NEW b \in Browsers, EditCreated(b)
    PROVE  SecInv'
<1>1. PICK r : r = local[b]
    OBVIOUS
<1>2. r \in Rosters /\ r.plans \subseteq Sections
    BY <1>1, RosterFields DEF SecInv, LocalOK
<1>3. Shown(local[b]) /\ puts' = Put(b, local'[b])
    BY DEF EditCreated
<1>4. CASE CommonEdit(b)
    BY <1>3, <1>4, CommonEditInv
<1>5. CASE \E g \in r.gone, c \in r.plans : Edit(b, RestoreShown(r, g, c), {g.id})
    BY <1>1, <1>2, <1>3, <1>5, RestoreShownFrom, EditInv
<1>6. CASE \E c \in r.plans, ids \in Files : Edit(b, ImportSection(r, c, ids), Ids)
    BY <1>1, <1>2, <1>3, <1>6, ImportFrom, EditInv, SectioningAssumption
<1> QED BY <1>1, <1>4, <1>5, <1>6 DEF EditCreated

-----------------------------------------------------------------------------
(* Handlers.                                                               *)

\* A handler that starts has all sections of its roster to do.
LEMMA StartHandler ==
    ASSUME SecInv, NEW b \in Browsers, NEW kind \in HandlerKinds, NEW next \in Rosters,
           SavedIn(next), NEW mine \in SUBSET Ids, Start(b, kind, next, mine),
           kind \notin {"none", "promote"} => next.status = "Sectioning"
    PROVE  /\ Grows /\ HandlersOK'
           /\ ListOK' /\ SharedOK' /\ AnswersOK' /\ StaleOK'
<1>1. Grows
    BY NoMove DEF Start, SecInv
<1>2. ListOK' /\ SharedOK' /\ AnswersOK' /\ StaleOK'
    BY <1>1, Stays DEF Start, SecInv, StaleOK
<1>3. PICK h : h = [kind |-> kind, todo |-> next.plans, next |-> next, mine |-> mine,
                     touched |-> FALSE]
    OBVIOUS
<1>4. h \in Handlers
    BY <1>3, RosterFields DEF Handlers
<1>5. MarksOK(h) /\ SavedIn(h.next)'
    BY <1>1, <1>3, StillSane DEF MarksOK
<1>6. handler' = [handler EXCEPT ![b] = h]
    BY <1>3 DEF Start
<1> QED BY <1>1, <1>2, <1>4, <1>5, <1>6, HandlerChanges

LEMMA StudentsOfRoster ==
    ASSUME NEW r \in Rosters
    PROVE  IdsOf(r.here) \in SUBSET Ids
    BY RosterFields DEF IdsOf, Entry

LEMMA StartsInv ==
    ASSUME SecInv, NEW b \in Browsers,
           StartSave(b) \/ StartGenerate(b) \/ StartImport(b) \/ StartApply(b) \/ StartPromote(b)
    PROVE  SecInv'
<1>1. PICK r : r = local[b]
    OBVIOUS
<1>2. r \in Rosters /\ Sane(r) /\ SavedIn(r) /\ IdsOf(r.here) \in SUBSET Ids
    BY <1>1, StudentsOfRoster DEF SecInv, LocalOK, Sane
<1> DEFINE Rest == Grows /\ HandlersOK' /\ ListOK' /\ SharedOK' /\ AnswersOK' /\ StaleOK'
<1>3. ASSUME Rest, UNCHANGED local, UNCHANGED puts \/ puts' = Put(b, r) PROVE SecInv'
  <2>1. LocalOK'
    BY <1>3, Stays
  <2>2. Sane(r)'
    BY <1>2, <1>3, StillSane
  <2>3. PutsOK'
    BY <1>2, <1>3, <2>2, PutSane, Stays
  <2> QED BY <1>3, <2>1, <2>3 DEF SecInv, Grows
<1>4. CASE StartSave(b)
  <2>1. Start(b, "save", r, IdsOf(r.here)) /\ r.status = "Sectioning"
    BY <1>1, <1>4 DEF StartSave, Shown
  <2>2. Rest
    BY <1>2, <2>1, StartHandler DEF HandlerKinds
  <2> QED BY <1>3, <1>4, <2>2 DEF StartSave
<1>5. CASE StartApply(b)
  <2>1. Start(b, "apply", r, IdsOf(r.here)) /\ r.status = "Sectioning"
    BY <1>1, <1>5 DEF StartApply, Shown
  <2>2. Rest
    BY <1>2, <2>1, StartHandler DEF HandlerKinds
  <2> QED BY <1>1, <1>3, <1>5, <2>2 DEF StartApply
<1>6. CASE StartPromote(b)
  <2>1. PICK q : q = [r EXCEPT !.status = "Promoted"]
    OBVIOUS
  <2>2. q \in Rosters /\ q.here = r.here
    BY <1>2, <2>1 DEF Rosters
  <2>3. SavedIn(q)
    BY <1>2, <2>2 DEF SavedIn
  <2>4. Start(b, "promote", q, {})
    BY <1>1, <1>6, <2>1 DEF StartPromote
  <2>5. Rest
    BY <2>2, <2>3, <2>4, StartHandler DEF HandlerKinds
  <2> QED BY <1>3, <1>6, <2>5 DEF StartPromote
<1>7. CASE StartGenerate(b)
  <2> DEFINE Dealing(w, f) ==
        /\ f \in Deals(Needing(w), w.plans)
        /\ Start(b, "generate", Dealt(w, f), IdsOf(w.here) \ Needing(w))
  <2>0. PICK n \in Sections : \E w, f : w = WithSections(r, n) /\ Dealing(w, f)
    BY <1>1, <1>7 DEF StartGenerate
  <2>1. PICK w, f : w = WithSections(r, n) /\ Dealing(w, f)
    BY <2>0
  <2>2. w \in Rosters /\ w.status = "Sectioning" /\ w.here = r.here
    BY <1>2, <2>1, WithSectionsFields
  <2>3. SavedIn(w)
    BY <1>2, <2>2 DEF SavedIn
  <2>4. \A i \in DOMAIN f : f[i] \in Sections
    BY <2>1, <2>2, RosterFields DEF Deals
  <2>5. PICK q : q = Dealt(w, f)
    OBVIOUS
  <2>6. From(w, q)
    BY <2>2, <2>4, <2>5, DealtFrom
  <2>7. q \in Rosters /\ q.status = "Sectioning" /\ SavedIn(q)
    BY <2>2, <2>3, <2>6, FromSane DEF From, Sane
  <2>8. IdsOf(w.here) \ Needing(w) \in SUBSET Ids
    BY <2>2, StudentsOfRoster
  <2>9. Rest
    BY <2>1, <2>5, <2>7, <2>8, StartHandler DEF HandlerKinds
  <2> QED BY <1>3, <1>7, <2>9 DEF StartGenerate
<1>8. CASE StartImport(b)
  <2> DEFINE Importing(q) ==
        /\ Start(b, "import", q, IdsOf(q.here))
        /\ local' = [local EXCEPT ![b] = q]
        /\ puts' = Put(b, q)
  <2>0. PICK c \in r.plans, ids \in Files : \E q : q = ImportSection(r, c, ids) /\ Importing(q)
    BY <1>1, <1>8 DEF StartImport
  <2>1. PICK q : q = ImportSection(r, c, ids) /\ Importing(q)
    BY <2>0
  <2>2. From(r, q)
    BY <1>2, <2>1, ImportFrom, RosterFields, SectioningAssumption
  <2>3. r.status = "Sectioning"
    BY <1>1, <1>8 DEF StartImport, Shown
  <2>4. q \in Rosters /\ q.status = "Sectioning" /\ Sane(q) /\ SavedIn(q)
    BY <1>2, <2>2, <2>3, FromSane DEF From, Sane
  <2>5. Rest
    BY <2>1, <2>4, StudentsOfRoster, StartHandler DEF HandlerKinds
  <2>6. Sane(q)'
    BY <2>4, <2>5, StillSane
  <2>7. LocalOK' /\ PutsOK'
    BY <2>1, <2>4, <2>5, <2>6, LocalChanges, PutSane
  <2> QED BY <2>5, <2>7 DEF SecInv, Grows
<1> QED BY <1>4, <1>5, <1>6, <1>7, <1>8

\* The section whose turn it is is one of those to do.
LEMMA TurnToDo ==
    ASSUME SecInv, NEW b \in Browsers, Syncing(b)
    PROVE  Turn(b) \in handler[b].todo /\ Turn(b) \in Sections
<1>1. handler[b].todo \subseteq Sections /\ handler[b].todo # {}
    BY DEF SecInv, HandlersOK, Handlers, Syncing
<1>2. handler[b].todo \in SUBSET Nat
    BY <1>1, SectioningAssumption
<1>3. \E x \in handler[b].todo : \A y \in handler[b].todo : x =< y
    BY <1>1, <1>2, LeastExists
<1> QED BY <1>1, <1>3 DEF Turn, Min

\* The section has no students, so all of them are marked.
LEMMA SyncEmptyInv ==
    ASSUME SecInv, NEW b \in Browsers, SyncEmpty(b)
    PROVE  SecInv'
<1>1. Grows
    BY NoMove DEF SyncEmpty, SecInv
<1>2. LocalOK' /\ ListOK' /\ SharedOK' /\ PutsOK' /\ AnswersOK' /\ StaleOK'
    BY <1>1, Stays DEF SyncEmpty, SecInv, StaleOK
<1>3. PICK k : k = handler[b]
    OBVIOUS
<1>4. PICK c : c = Turn(b)
    OBVIOUS
<1>5. PICK h : h = [k EXCEPT !.todo = @ \ {c}]
    OBVIOUS
<1>6. k \in Handlers /\ SavedIn(k.next) /\ MarksOK(k)
    BY <1>3 DEF SecInv, HandlersOK
<1>7. h \in Handlers /\ h.next = k.next /\ h.kind = k.kind /\ h.todo = k.todo \ {c}
    BY <1>5, <1>6 DEF Handlers
<1>8. \A e \in k.next.here : e.sec # c
    BY <1>3, <1>4 DEF SyncEmpty, Group
<1>9. MarksOK(h)
    BY <1>6, <1>7, <1>8 DEF MarksOK
<1>10. SavedIn(h.next)'
    BY <1>1, <1>6, <1>7, StillSane
<1>11. handler' = [handler EXCEPT ![b] = h]
    BY <1>3, <1>4, <1>5 DEF SyncEmpty
<1>12. HandlersOK'
    BY <1>1, <1>7, <1>9, <1>10, <1>11, HandlerChanges
<1> QED BY <1>1, <1>2, <1>12 DEF SecInv, Grows

\* The server has placed the section's students when they are marked.
LEMMA SyncGrantedInv ==
    ASSUME SecInv, NEW b \in Browsers, SyncGranted(b)
    PROVE  SecInv'
<1>1. PICK k : k = handler[b]
    OBVIOUS
<1>2. PICK c : c = Turn(b)
    OBVIOUS
<1>3. PICK es : es = Group(b)
    OBVIOUS
<1>4. PICK r : r = local[b]
    OBVIOUS
<1>5. Syncing(b)
    BY DEF SyncGranted
<1>6. c \in k.todo /\ c \in Sections
    BY <1>1, <1>2, <1>5, TurnToDo
<1>7. k \in Handlers /\ k.next \in Rosters /\ SavedIn(k.next) /\ MarksOK(k)
    BY <1>1 DEF SecInv, HandlersOK, Handlers
<1>8. r \in Rosters /\ Sane(r)
    BY <1>4 DEF SecInv, LocalOK
<1>9. es = {e \in k.next.here : e.sec = c} /\ es \in SUBSET Entry
    BY <1>1, <1>2, <1>3, <1>7, RosterFields DEF Group
<1>10. /\ Grant(Assignment(es, c))
       /\ handler' = [handler EXCEPT ![b].todo = @ \ {c},
                                     ![b].next.here = Marked(@, IdsOf(es), c)]
       /\ local' = [local EXCEPT ![b].here = Marked(@, IdsOf(es) \cap k.mine, c)]
       /\ UNCHANGED <<list, shared, puts, answers, acts>>
    BY <1>1, <1>2, <1>3 DEF SyncGranted
<1>11. Grows /\ stale' = Browsers
    BY <1>6, <1>9, <1>10, AssignGrows DEF SecInv
<1>12. \A e \in es : e.id \in Students /\ c \in past'[e.id]
    BY <1>6, <1>9, <1>10, AssignGrows DEF SecInv
<1>13. \A id \in IdsOf(es) : id \in Students /\ c \in past'[id]
    BY <1>12 DEF IdsOf
<1>14. ListOK' /\ SharedOK' /\ PutsOK' /\ AnswersOK' /\ StaleOK'
    BY <1>10, <1>11, Stays
\* Marking keeps a roster sane.
<1>15. ASSUME NEW q \in Rosters, NEW ids, ids \subseteq IdsOf(es),
              NEW p, p = [q EXCEPT !.here = Marked(@, ids, c)]
       PROVE  /\ p \in Rosters /\ p.status = q.status /\ p.plans = q.plans
              /\ p.here = Marked(q.here, ids, c)
              /\ SavedIn(q) => SavedIn(p)'
              /\ Sane(q) => Sane(p)'
  <2>1. q.here \in SUBSET Entry
    BY RosterFields
  <2>2. PICK m : m = Marked(q.here, ids, c)
    OBVIOUS
  <2>3. m \in SUBSET Entry /\ \A f \in m : \E e \in q.here :
                 /\ f.id = e.id /\ f.sec = e.sec
                 /\ f.saved = IF e.id \in ids /\ e.sec = c THEN c ELSE e.saved
    BY <1>6, <2>1, <2>2, MarkedFields
  <2>4. p \in Rosters /\ p.here = m /\ p.status = q.status /\ p.plans = q.plans
    BY <1>15, <2>2, <2>3 DEF Rosters
  <2>5. SavedIn(q) => SavedIn(p)'
    <3> SUFFICES ASSUME SavedIn(q)', NEW f \in m, f.saved # Unassigned
                 PROVE  f.id \in Students /\ f.saved \in past'[f.id]
      BY <1>11, <2>4, StillSane DEF SavedIn
    <3>1. PICK e \in q.here : /\ f.id = e.id
                              /\ f.saved = IF e.id \in ids /\ e.sec = c THEN c ELSE e.saved
      BY <2>3
    <3>2. CASE e.id \in ids /\ e.sec = c
      BY <1>13, <1>15, <3>1, <3>2
    <3>3. CASE ~(e.id \in ids /\ e.sec = c)
      BY <3>1, <3>3 DEF SavedIn
    <3> QED BY <3>2, <3>3
  <2>6. Sane(q) => Sane(p)'
    <3> SUFFICES ASSUME Sane(q) PROVE Sane(p)'
      OBVIOUS
    <3>1. SavedIn(p)' /\ PromotedIn(q)'
      BY <1>11, <2>5, StillSane DEF Sane
    <3>2. PromotedIn(p)'
      BY <2>3, <2>4, <3>1 DEF PromotedIn, Rising
    <3> QED BY <3>1, <3>2 DEF Sane
  <2> QED BY <2>2, <2>4, <2>5, <2>6
<1>16. LocalOK'
  <2>1. PICK p : p = [r EXCEPT !.here = Marked(@, IdsOf(es) \cap k.mine, c)]
    OBVIOUS
  <2>2. p \in Rosters /\ Sane(p)'
    BY <1>8, <1>15, <2>1
  <2>3. local' = [local EXCEPT ![b] = p]
    BY <1>4, <1>10, <2>1
  <2> QED BY <1>11, <2>2, <2>3, LocalChanges
<1>17. HandlersOK'
  <2>1. PICK p : p = [k.next EXCEPT !.here = Marked(@, IdsOf(es), c)]
    OBVIOUS
  <2>2. /\ p \in Rosters /\ p.status = k.next.status /\ p.plans = k.next.plans
        /\ p.here = Marked(k.next.here, IdsOf(es), c) /\ SavedIn(p)'
    BY <1>7, <1>15, <2>1
  <2>3. PICK h : h = [k EXCEPT !.todo = @ \ {c}, !.next = p]
    OBVIOUS
  <2>4. h \in Handlers /\ h.next = p /\ h.kind = k.kind /\ h.todo = k.todo \ {c}
    BY <1>7, <2>2, <2>3 DEF Handlers
  <2>5. handler' = [handler EXCEPT ![b] = h]
    BY <1>1, <1>10, <2>1, <2>3
  <2>6. \A f \in p.here : f.sec \in p.plans \ h.todo => f.saved = f.sec
    <3> SUFFICES ASSUME NEW f \in p.here, f.sec \in p.plans \ h.todo PROVE f.saved = f.sec
      OBVIOUS
    <3>1. PICK e \in k.next.here :
             /\ f.id = e.id /\ f.sec = e.sec
             /\ f.saved = IF e.id \in IdsOf(es) /\ e.sec = c THEN c ELSE e.saved
      BY <1>6, <1>7, <2>2, MarkedFields, RosterFields
    <3>2. CASE e.sec = c
      <4>1. e \in es /\ e.id \in IdsOf(es)
        BY <1>9, <3>2 DEF IdsOf
      <4> QED BY <3>1, <3>2, <4>1
    <3>3. CASE e.sec # c
      <4>1. e.sec \in k.next.plans \ k.todo
        BY <2>2, <2>4, <3>1, <3>3
      <4>2. k.kind \notin {"none", "promote"}
        BY <1>1, <1>5 DEF Syncing
      <4> QED BY <1>7, <3>1, <3>3, <4>1, <4>2 DEF MarksOK
    <3> QED BY <3>2, <3>3
  <2>7. MarksOK(h)
    BY <1>7, <2>2, <2>4, <2>6 DEF MarksOK
  <2>8. SavedIn(h.next)'
    BY <2>2, <2>4
  <2> QED BY <1>11, <2>4, <2>5, <2>7, <2>8, HandlerChanges
<1> QED BY <1>11, <1>14, <1>16, <1>17 DEF SecInv, Grows

LEMMA NoHandlerSane == NoHandler \in Handlers /\ MarksOK(NoHandler) /\ NoRoster \in Rosters
    BY DEF NoHandler, NoRoster, Handlers, HandlerKinds, Rosters, MarksOK

\* The handler is given up: what was granted stays.
LEMMA GiveUpInv ==
    ASSUME SecInv, Grows, NEW b \in Browsers, GiveUp(b), stale' \subseteq Browsers
    PROVE  SecInv'
<1>1. SavedIn(NoHandler.next)'
    BY DEF SavedIn, NoHandler, NoRoster
<1>2. HandlersOK'
    BY <1>1, NoHandlerSane, HandlerChanges DEF GiveUp
<1>3. LocalOK' /\ ListOK' /\ SharedOK' /\ PutsOK' /\ AnswersOK' /\ StaleOK'
    BY Stays DEF GiveUp
<1> QED BY <1>2, <1>3 DEF SecInv, Grows

\* The roster the handler has made becomes the browser's, and is shared.
LEMMA KeepNextInv ==
    ASSUME SecInv, Grows, NEW b \in Browsers, KeepNext(b), stale' \subseteq Browsers,
           \A q : q = handler[b].next => Sane(q)',
           UNCHANGED <<list, shared, answers>>
    PROVE  SecInv'
<1>1. PICK q : q = handler[b].next
    OBVIOUS
<1>2. q \in Rosters /\ Sane(q)'
    BY <1>1 DEF SecInv, HandlersOK, Handlers
<1>3. LocalOK'
    BY <1>1, <1>2, LocalChanges DEF KeepNext
<1>4. PutsOK'
    BY <1>1, <1>2, PutSane DEF KeepNext
<1>5. SavedIn(NoHandler.next)'
    BY DEF SavedIn, NoHandler, NoRoster
<1>6. HandlersOK'
    BY <1>5, NoHandlerSane, HandlerChanges DEF KeepNext
<1>7. ListOK' /\ SharedOK' /\ AnswersOK' /\ StaleOK'
    BY Stays
<1> QED BY <1>3, <1>4, <1>6, <1>7 DEF SecInv, Grows

LEMMA SyncRefusedInv ==
    ASSUME SecInv, NEW b \in Browsers, SyncRefused(b)
    PROVE  SecInv'
<1>1. Grows /\ stale' \subseteq Browsers
    BY NoMove DEF SyncRefused, SecInv, StaleOK
<1> QED BY <1>1, GiveUpInv DEF SyncRefused

LEMMA GroupEntries ==
    ASSUME SecInv, NEW b \in Browsers
    PROVE  handler[b].next.here \in SUBSET Entry /\ Group(b) \in SUBSET Entry
    BY RosterFields DEF SecInv, HandlersOK, Handlers, Group

LEMMA SyncLostInv ==
    ASSUME SecInv, NEW b \in Browsers, SyncLost(b)
    PROVE  SecInv'
<1>1. Grows /\ stale' \subseteq Browsers
  <2>1. CASE UNCHANGED <<place, ahead, past, stale>>
    BY <2>1, NoMove DEF SecInv, StaleOK
  <2>2. CASE Grant(Assignment(Group(b), Turn(b)))
    <3>1. Turn(b) \in Sections
      BY TurnToDo DEF SyncLost
    <3> QED BY <2>2, <3>1, GroupEntries, AssignGrows DEF SecInv
  <2> QED BY <2>1, <2>2 DEF SyncLost
<1> QED BY <1>1, GiveUpInv DEF SyncLost

LEMMA FinishInv ==
    ASSUME SecInv, NEW b \in Browsers, Finish(b)
    PROVE  SecInv'
<1>1. Grows /\ stale' \subseteq Browsers
    BY NoMove DEF Finish, SecInv, StaleOK
<1>2. PICK q : q = handler[b].next
    OBVIOUS
<1>3. Sane(q)
    BY <1>2 DEF Finish, SecInv, HandlersOK, MarksOK, Sane, PromotedIn, Rising
<1>4. Sane(q)'
    BY <1>1, <1>3, StillSane
<1>5. CASE handler[b].kind \in {"save", "generate"}
  <2>1. KeepNext(b) /\ UNCHANGED <<list, shared, answers>>
    BY <1>5 DEF Finish
  <2> QED BY <1>1, <1>2, <1>4, <2>1, KeepNextInv
<1>6. CASE handler[b].kind \notin {"save", "generate"}
    BY <1>1, <1>6, GiveUpInv DEF Finish
<1> QED BY <1>5, <1>6

\* When the roster is kept as promoted, the server has just promoted all that rise.
LEMMA PromoteGrantedInv ==
    ASSUME SecInv, NEW b \in Browsers, PromoteGranted(b)
    PROVE  SecInv'
<1>1. PICK q : q = handler[b].next
    OBVIOUS
<1>2. q.here \in SUBSET Entry /\ SavedIn(q) /\ Rising(q.here) \in SUBSET Entry
    BY <1>1, GroupEntries DEF SecInv, HandlersOK, Rising
<1>3. KeepNext(b) /\ UNCHANGED <<list, shared, answers>>
    BY DEF PromoteGranted
<1>4. /\ Grows /\ stale' \subseteq Browsers
      /\ \A e \in Rising(q.here) : e.id \in Students /\ ahead'[e.id] # NotEnrolled
  <2>1. CASE Rising(q.here) = {} /\ UNCHANGED <<place, ahead, past, stale>>
    BY <2>1, NoMove DEF SecInv, StaleOK
  <2>2. CASE Promotable(Rising(q.here)) /\ Grant(Promotion(Rising(q.here)))
    BY <1>2, <2>2, PromoteGrows DEF SecInv
  <2> QED BY <1>1, <2>1, <2>2 DEF PromoteGranted
<1>5. Sane(q)'
    BY <1>2, <1>4, StillSane DEF Sane, PromotedIn, Rising
<1> QED BY <1>1, <1>3, <1>4, <1>5, KeepNextInv

LEMMA PromoteFailsInv ==
    ASSUME SecInv, NEW b \in Browsers, PromoteFails(b)
    PROVE  SecInv'
<1>1. Rising(handler[b].next.here) \in SUBSET Entry
    BY GroupEntries DEF Rising
<1>2. Grows /\ stale' \subseteq Browsers
  <2>1. CASE UNCHANGED <<place, ahead, past, stale>>
    BY <2>1, NoMove DEF SecInv, StaleOK
  <2>2. CASE /\ Promotable(Rising(handler[b].next.here))
             /\ Grant(Promotion(Rising(handler[b].next.here)))
    BY <1>1, <2>2, PromoteGrows DEF SecInv
  <2> QED BY <2>1, <2>2 DEF PromoteFails
<1> QED BY <1>2, GiveUpInv DEF PromoteFails

\* A student who leaves keeps the sections of before and the level reached.
LEMMA RegistryInv ==
    ASSUME SecInv, NEW s \in Students, Registry(s)
    PROVE  SecInv'
<1>1. place \in [Students -> Places] /\ ahead \in [Students -> Places]
      /\ past \in [Students -> SUBSET Sections]
    BY DEF SecInv, PlacesOK, TypeOK
<1>2. place' \in [Students -> Places] /\ ahead' = ahead /\ past' = past
    BY <1>1 DEF Registry, Enroll, Leave, Places
<1>3. Grows
    BY <1>1, <1>2 DEF Grows, PlacesOK, TypeOK
<1>4. LocalOK' /\ ListOK' /\ HandlersOK' /\ SharedOK' /\ PutsOK' /\ AnswersOK' /\ StaleOK'
    BY <1>3, Stays DEF Registry, SecInv, StaleOK
<1> QED BY <1>3, <1>4 DEF SecInv, Grows

-----------------------------------------------------------------------------
LEMMA ClientInitInv == ClientInit => SecInv
<1> SUFFICES ASSUME ClientInit PROVE SecInv
    OBVIOUS
<1>1. PlacesOK
    BY DEF ClientInit, Init, PlacesOK, TypeOK, Places
<1>2. Sane(NoRoster) /\ SavedIn(NoHandler.next)
    BY DEF Sane, SavedIn, PromotedIn, Rising, NoRoster, NoHandler
<1>3. LocalOK /\ SharedOK /\ PutsOK /\ AnswersOK /\ StaleOK
    BY <1>2, NoHandlerSane DEF ClientInit, LocalOK, SharedOK, PutsOK, AnswersOK, StaleOK
<1>4. ListOK
    BY DEF ClientInit, ListOK, None
<1>5. HandlersOK
    BY <1>2, NoHandlerSane DEF ClientInit, HandlersOK
<1> QED BY <1>1, <1>3, <1>4, <1>5 DEF SecInv

LEMMA PageInv ==
    ASSUME SecInv, NEW b \in Browsers, Page(b)
    PROVE  SecInv'
    BY ListReadInv, ListAnsweredInv, EditSectioningInv, EditCreatedInv, StartsInv, SyncEmptyInv,
       SyncGrantedInv, SyncRefusedInv, SyncLostInv, FinishInv, PromoteGrantedInv,
       PromoteFailsInv, PullReadInv
       DEF Page

LEMMA ClientStepInv == SecInv /\ [ClientNext]_allVars => SecInv'
<1> SUFFICES ASSUME SecInv, [ClientNext]_allVars PROVE SecInv'
    OBVIOUS
<1>1. ASSUME NEW b \in Browsers, Page(b) PROVE SecInv'
    BY <1>1, PageInv
<1>2. ASSUME NEW m \in puts, PutArrives(m) \/ PutFails(m) PROVE SecInv'
    BY <1>2, PutArrivesInv, PutFailsInv
<1>3. ASSUME NEW m \in answers, PullAnswered(m) PROVE SecInv'
    BY <1>3, PullAnsweredInv
<1>4. ASSUME NEW s \in Students, Registry(s) PROVE SecInv'
    BY <1>4, RegistryInv
<1>5. CASE UNCHANGED allVars
  <2>1. Grows
    BY <1>5, NoMove DEF allVars, clientVars, SecInv
  <2>2. LocalOK' /\ ListOK' /\ HandlersOK' /\ SharedOK' /\ PutsOK' /\ AnswersOK' /\ StaleOK'
    BY <1>5, <2>1, Stays DEF allVars, clientVars, SecInv, StaleOK
  <2> QED BY <2>1, <2>2 DEF SecInv, Grows
<1> QED BY <1>1, <1>2, <1>3, <1>4, <1>5 DEF ClientNext

\* At every moment every roster is sane, wherever it is, and every handler has marked
\* whom it has saved.
THEOREM RostersStaySane == ClientSpec => []SecInv
<1> QED BY ClientInitInv, ClientStepInv, PTL DEF ClientSpec

\* Enrollments, rosters, handlers and messages keep their types.
THEOREM ClientTypeCorrect == ClientSpec => []ClientTypeOK
<1>1. SecInv => ClientTypeOK
  <2> SUFFICES ASSUME SecInv PROVE ClientTypeOK
    OBVIOUS
  <2>1. AllRosters \subseteq Rosters
    <3>1. /\ \A b \in Browsers : local[b] \in Rosters /\ handler[b].next \in Rosters
          /\ shared \in Rosters
      BY DEF SecInv, LocalOK, HandlersOK, SharedOK, Handlers
    <3>2. \A m \in puts \cup answers : m.roster \in Rosters
      BY DEF SecInv, PutsOK, AnswersOK
    <3> QED BY <3>1, <3>2 DEF AllRosters
  <2>2. \A b \in Browsers :
          /\ list[b] \in [asked : BOOLEAN, ids : SUBSET Students]
          /\ handler[b].todo \subseteq handler[b].next.plans
          /\ handler[b].mine \subseteq Ids
    BY DEF SecInv, ListOK, HandlersOK, Handlers, MarksOK
  <2> QED BY <2>1, <2>2 DEF SecInv, PlacesOK, StaleOK, ClientTypeOK
<1> QED BY <1>1, RostersStaySane, PTL

\* "Saved" is never only believed: whichever way a roster came to a page, the server or
\* a message, and whichever requests failed on the way, each section it marks as saved
\* for a student was given to that student by the server.
THEOREM MarksAreTrue == ClientSpec => []SavedWasTrue
<1>1. SecInv => SavedWasTrue
  <2> SUFFICES ASSUME SecInv, NEW r \in AllRosters PROVE SavedIn(r)
    BY DEF SavedWasTrue, SavedIn
  <2>1. \A b \in Browsers : SavedIn(local[b]) /\ SavedIn(handler[b].next)
    BY DEF SecInv, LocalOK, HandlersOK, Sane
  <2>2. SavedIn(shared) /\ \A m \in puts \cup answers : SavedIn(m.roster)
    BY DEF SecInv, SharedOK, PutsOK, AnswersOK, Sane
  <2> QED BY <2>1, <2>2 DEF AllRosters
<1> QED BY <1>1, RostersStaySane, PTL

\* A save, import or generation that has come past a section has every student of that
\* section saved, so "saved and synced successfully" leaves nobody out.
THEOREM NobodyLeftOut == ClientSpec => []SuccessPlacesEveryone
<1>1. SecInv => SuccessPlacesEveryone
    BY DEF SecInv, HandlersOK, MarksOK, SuccessPlacesEveryone
<1> QED BY <1>1, RostersStaySane, PTL

\* A roster that says "Promoted", on any page or on its way, is right about each student
\* it has in a section, but for those of the final year, who go on the list for
\* graduation: whatever was lost, retried or overwritten before.
THEOREM PromotedAreAhead == ClientSpec => []PromotedTogether
<1>1. SecInv => PromotedTogether
  <2> SUFFICES ASSUME SecInv, NEW r \in AllRosters \ {handler[b].next : b \in Browsers}
               PROVE  PromotedIn(r)
    BY DEF PromotedTogether, PromotedIn
  <2>1. \A b \in Browsers : PromotedIn(local[b])
    BY DEF SecInv, LocalOK, Sane
  <2>2. PromotedIn(shared) /\ \A m \in puts \cup answers : PromotedIn(m.roster)
    BY DEF SecInv, SharedOK, PutsOK, AnswersOK, Sane
  <2> QED BY <2>1, <2>2 DEF AllRosters
<1> QED BY <1>1, RostersStaySane, PTL
=============================================================================
