---------------------------- MODULE Enrollments ----------------------------
(***************************************************************************)
(* What the enrollment service promises the registrars who place students  *)
(* into sections: every request of AssignAsync or of the promotion handler *)
(* takes effect at once and whole, or not at all.                          *)
(*                                                                         *)
(* The students are those of one program and year level.  place is where   *)
(* each is in this period; ahead is where each is, one level up, in the    *)
(* next one.                                                               *)
(***************************************************************************)
EXTENDS Integers

CONSTANTS
    Ids,         \* student numbers a request may name
    Students,    \* those that belong to an active, approved student
    Sections,    \* academic sections; one level up they have the same numbers
    Unassigned,  \* enrolled, in no section
    NotEnrolled  \* no ENROLLED record for the period

ASSUME EnrollmentsAssumption ==
    /\ Ids \subseteq Nat
    /\ Students \subseteq Ids
    /\ Unassigned \notin Sections
    /\ NotEnrolled \notin Sections
    /\ Unassigned # NotEnrolled

Places == Sections \cup {Unassigned, NotEnrolled}

\* assign: the students go to a section; each was expected in a section, or in none.
\* assign ahead: the same for the next period, one level up.
\* promote: each student goes one level up, from the section it was expected in.
Requests ==
    UNION {[kind : {"assign", "assign ahead"}, to : Sections, expects : [ids -> Sections \cup {Unassigned}]]
             \cup [kind : {"promote"}, to : {NotEnrolled}, expects : [ids -> Sections]]
              : ids \in (SUBSET Ids) \ {{}}}

Named(req) == DOMAIN req.expects

VARIABLES place, ahead

vars == <<place, ahead>>

\* Mutant of MayAssign: an expectation is not compared with the enrollment.
MayAssignAny(here, s, req) == here[s] # NotEnrolled

\* The UPDATE of AssignAsync finds the row: the student is in the section already, or
\* where the request expects it.
MayAssign(here, s, req) == here[s] \in {req.to, req.expects[s]}

\* The SELECT of the promotion finds the saved source enrollment.
MayPromote(here, s, req) == here[s] = req.expects[s]

MayServe(here, there, s, req) ==
    /\ s \in Students
    /\ \/ req.kind = "assign" /\ MayAssign(here, s, req)
       \/ req.kind = "assign ahead" /\ MayAssign(there, s, req)
       \/ req.kind = "promote" /\ MayPromote(here, s, req)

Acceptable(here, there, req) == \A s \in Named(req) : MayServe(here, there, s, req)

\* The enrollment of this period after the request, for the students in who.
Placed(here, req, who) ==
    [s \in Students |-> IF req.kind = "assign" /\ s \in who THEN req.to ELSE here[s]]

\* The enrollment of the next period: UpsertStudentEnrollmentAsync overwrites it.
Advanced(there, req, who) ==
    [s \in Students |->
        IF s \notin who THEN there[s]
        ELSE IF req.kind = "promote" THEN req.expects[s]
        ELSE IF req.kind = "assign ahead" THEN req.to
        ELSE there[s]]

Init ==
    /\ place \in [Students -> {Unassigned, NotEnrolled}]
    /\ ahead = [s \in Students |-> NotEnrolled]

Serve(req) ==
    /\ Acceptable(place, ahead, req)
    /\ place' = Placed(place, req, Named(req))
    /\ ahead' = Advanced(ahead, req, Named(req))

\* The student gets a record of this program without a section: a new enrollment, or
\* ChangeEnrollmentProgram from another program.
Enroll(s) ==
    /\ place[s] = NotEnrolled
    /\ place' = [place EXCEPT ![s] = Unassigned]
    /\ UNCHANGED ahead

\* ChangeEnrollmentProgram takes the student to another program, out of the section.
Leave(s) ==
    /\ place[s] # NotEnrolled
    /\ place' = [place EXCEPT ![s] = NotEnrolled]
    /\ UNCHANGED ahead

Next ==
    \/ \E req \in Requests : Serve(req)
    \/ \E s \in Students : Enroll(s) \/ Leave(s)

Spec == Init /\ [][Next]_vars

-----------------------------------------------------------------------------
\* Every student is in a place, in both periods.
TypeOK ==
    /\ place \in [Students -> Places]
    /\ ahead \in [Students -> Places]
=============================================================================
