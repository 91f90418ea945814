----------------------- MODULE EnrollmentTransactions -----------------------
(***************************************************************************)
(* AssignAsync and PromoteStudentEnrollments as PostgreSQL runs them: a    *)
(* request is a transaction that takes its students in the order of their  *)
(* numbers, locks each one's rows, checks them and writes them.  An        *)
(* assignment first shares the row of its section; a promotion takes the   *)
(* row of each section it fills one level up for itself, as it comes to    *)
(* it.  What a transaction wrote shows when it commits; the locks keep     *)
(* others off until then.  A transaction that fails a check, loses its     *)
(* connection or its process, or is stopped by the database's deadlock     *)
(* detector, leaves nothing behind.                                        *)
(***************************************************************************)
EXTENDS Enrollments, FiniteSets

CONSTANT Txs    \* requests at one time

ASSUME TransactionsAssumption == IsFiniteSet(Txs)

VARIABLE tx     \* what each is doing

txVars == <<place, ahead, tx>>

\* Between requests.
Idle == [open |-> FALSE]

\* Its students still to come, those it has locked and checked, and the sections whose
\* rows it has locked.
Working(req, todo, done, rows) ==
    [open |-> TRUE, req |-> req, todo |-> todo, done |-> done, rows |-> rows]

Open == {t \in Txs : tx[t].open}

\* Mutant of LockedByOther: rows are not locked.
LockedByOther_None(t, s) == FALSE

\* Another transaction has locked the rows of s (FOR UPDATE, or its own UPDATE).
LockedByOther(t, s) == \E u \in Open \ {t} : s \in tx[u].done

\* Mutant of IsNext: students are taken as the request lists them.
IsNextAny(todo, s) == s \in todo

\* Students are taken in the order of their numbers.
IsNext(todo, s) == s \in todo /\ \A r \in todo : s <= r

\* The sections, of this period or of the next one, whose rows req locks for the
\* students in who: AssignAsync its target, before any student (FOR SHARE); a promotion
\* the one each student goes to (INSERT ... ON CONFLICT DO UPDATE).
SectionRows(req, who) ==
    CASE req.kind = "assign"       -> {<<"now", req.to>>}
      [] req.kind = "assign ahead" -> {<<"ahead", req.to>>}
      [] OTHER                     -> {<<"ahead", req.expects[s]>> : s \in who}

\* Those t must lock before it goes on.
Wanted(t) == SectionRows(tx[t].req, tx[t].done) \ tx[t].rows

\* The row is shared by assignments; a promotion holds it alone.
RowHeldBy(t, u, row) ==
    /\ u \in Open \ {t}
    /\ row \in tx[u].rows
    /\ "promote" \in {tx[t].req.kind, tx[u].req.kind}

Begin(t, req) ==
    /\ ~tx[t].open
    /\ tx' = [tx EXCEPT ![t] = Working(req, Named(req), {}, {})]
    /\ UNCHANGED vars

\* A section's row is free, or shared.
LockSection(t) ==
    /\ tx[t].open
    /\ \E row \in Wanted(t) :
          /\ \A u \in Txs : ~RowHeldBy(t, u, row)
          /\ tx' = [tx EXCEPT ![t] = Working(@.req, @.todo, @.done, @.rows \cup {row})]
    /\ UNCHANGED vars

\* Mutant of Row: a student that is done stays on the list.
RowAgain(t, s) ==
    /\ tx[t].open
    /\ Wanted(t) = {}
    /\ IsNext(tx[t].todo, s)
    /\ ~LockedByOther(t, s)
    /\ MayServe(place, ahead, s, tx[t].req)
    /\ tx' = [tx EXCEPT ![t] = Working(@.req, @.todo, @.done \cup {s}, @.rows)]
    /\ UNCHANGED vars

\* The next student's rows are free: they are locked, checked and written.
Row(t, s) ==
    /\ tx[t].open
    /\ Wanted(t) = {}
    /\ IsNext(tx[t].todo, s)
    /\ ~LockedByOther(t, s)
    /\ MayServe(place, ahead, s, tx[t].req)
    /\ tx' = [tx EXCEPT ![t] = Working(@.req, @.todo \ {s}, @.done \cup {s}, @.rows)]
    /\ UNCHANGED vars

\* The next student does not match: the exception rolls everything back.  A promotion
\* finds that out without a lock: its SELECT has no row to wait for.
Refuse(t, s) ==
    /\ tx[t].open
    /\ Wanted(t) = {}
    /\ IsNext(tx[t].todo, s)
    /\ tx[t].req.kind = "promote" \/ ~LockedByOther(t, s)
    /\ ~MayServe(place, ahead, s, tx[t].req)
    /\ tx' = [tx EXCEPT ![t] = Idle]
    /\ UNCHANGED vars

Commit(t) ==
    /\ tx[t].open
    /\ tx[t].todo = {}
    /\ Wanted(t) = {}
    /\ place' = Placed(place, tx[t].req, tx[t].done)
    /\ ahead' = Advanced(ahead, tx[t].req, tx[t].done)
    /\ tx' = [tx EXCEPT ![t] = Idle]

\* The connection or the process is gone.
Crash(t) ==
    /\ tx[t].open
    /\ tx' = [tx EXCEPT ![t] = Idle]
    /\ UNCHANGED vars

\* t waits for the rows of student s, which u has locked.
WaitsForStudent(t, u, s) ==
    /\ t \in Open /\ u \in Open \ {t}
    /\ Wanted(t) = {}
    /\ IsNext(tx[t].todo, s) /\ s \in tx[u].done
    /\ tx[t].req.kind = "promote" => MayServe(place, ahead, s, tx[t].req)

\* t waits for the row of a section which u has locked.
WaitsForSection(t, u) == t \in Open /\ \E row \in Wanted(t) : RowHeldBy(t, u, row)

WaitsFor(t, u) == WaitsForSection(t, u) \/ \E s \in Ids : WaitsForStudent(t, u, s)

\* t waits, through others, for itself.
InCircle(t) ==
    \A W \in SUBSET Txs :
        (\A u \in W \cup {t}, v \in Txs : WaitsFor(u, v) => v \in W) => t \in W

\* Mutant of DeadlockDetected: the exception is swallowed and the transaction kept open.
DeadlockSwallowed(t) ==
    /\ tx[t].open
    /\ InCircle(t)
    /\ UNCHANGED txVars

\* PostgreSQL looks for circles of waits and stops one of those in it; no handler
\* catches that exception, which rolls everything back.
DeadlockDetected(t) ==
    /\ tx[t].open
    /\ InCircle(t)
    /\ tx' = [tx EXCEPT ![t] = Idle]
    /\ UNCHANGED vars

\* Changes of one student's enrollment wait for its lock.
ChangeOne(s) ==
    /\ \A t \in Open : s \notin tx[t].done
    /\ Enroll(s) \/ Leave(s)
    /\ UNCHANGED tx

Step(t) == LockSection(t) \/ \E s \in Ids : Row(t, s) \/ Refuse(t, s)

TxInit ==
    /\ Init
    /\ tx = [t \in Txs |-> Idle]

TxNext ==
    \/ \E t \in Txs :
        \/ \E req \in Requests : Begin(t, req)
        \/ Step(t)
        \/ Commit(t)
        \/ DeadlockDetected(t)
        \/ Crash(t)
    \/ \E s \in Students : ChangeOne(s)

TxSpec == TxInit /\ [][TxNext]_txVars

\* PostgreSQL goes on with a transaction that is not blocked, grants a lock that
\* becomes free again and again (its queues are fair), and looks for circles after
\* deadlock_timeout.
Fairness ==
    \A t \in Txs : /\ SF_txVars(Step(t)) /\ WF_txVars(Commit(t))
                   /\ WF_txVars(DeadlockDetected(t))

FairTxSpec == TxSpec /\ Fairness

-----------------------------------------------------------------------------
(* Properties.                                                             *)

\* Each transaction works on the students its request names.
TxTypeOK ==
    /\ TypeOK
    /\ DOMAIN tx = Txs
    /\ \A t \in Txs :
        \/ tx[t] = Idle
        \/ /\ tx[t].open
           /\ tx[t].req \in Requests
           /\ tx[t] = Working(tx[t].req, tx[t].todo, tx[t].done, tx[t].rows)
           /\ tx[t].todo \cup tx[t].done = Named(tx[t].req)
           /\ tx[t].todo \cap tx[t].done = {}
           /\ tx[t].rows \subseteq SectionRows(tx[t].req, tx[t].done)

\* No two transactions hold the same student, nor one a section another holds alone.
LocksExclusive ==
    /\ \A t, u \in Open : t # u => tx[t].done \cap tx[u].done = {}
    /\ \A t, u \in Open :
          t # u /\ tx[t].req.kind = "promote" => tx[t].rows \cap tx[u].rows = {}

\* What a transaction checked stays true until it ends.
ChecksHold == \A t \in Open : \A s \in tx[t].done : MayServe(place, ahead, s, tx[t].req)

\* "A stale roster cannot overwrite another registrar's intervening assignment": up to
\* the commit a student that will be moved is where the roster believes, whatever
\* was committed since the request came in.
StaleRosterMovesNobody ==
    \A t \in Open : \A s \in tx[t].done :
        /\ tx[t].req.kind = "assign" => place[s] \in {tx[t].req.to, tx[t].req.expects[s]}
        /\ tx[t].req.kind = "assign ahead" => ahead[s] \in {tx[t].req.to, tx[t].req.expects[s]}

\* Students are locked from the lowest number up.
LocksAscend == \A t \in Open : \A s \in tx[t].done, r \in tx[t].todo : s <= r

\* "Stable ordering and row locks serialize competing assignments": students, taken in
\* the order of their numbers, never close a circle of waits.  One that closes goes
\* through the row of a section one level up, which a promotion has or wants for
\* itself; assignments alone never wait in a circle.
CirclesNeedPromotions ==
    \A C \in SUBSET Open :
        C # {} /\ (\A t \in C : \E u \in C : WaitsFor(t, u)) =>
            /\ \E t, u \in C : WaitsForSection(t, u)
            /\ \E t \in C : tx[t].req.kind = "promote"

\* "The entire request is atomic": all of its rows change at its commit or none does,
\* and it is as if requests ran one after the other.
ImplementsEnrollments == Spec

\* Every request ends: competing ones do not wait for each other for ever, promotions
\* that closed a circle among them.
RequestsEnd == \A t \in Txs : tx[t].open ~> ~tx[t].open
=============================================================================
