----------------------------- MODULE MCServices -----------------------------
(* Three services that share no state; which of them a behavior is about is   *)
(* chosen at its start.                                                       *)
(*   "contract"    four operations of one identity, in every order and        *)
(*                 outcome (SerializedContract)                               *)
(*   "gateways"    two requests of a person whose certificate is replaced     *)
(*                 (GatewayCache)                                             *)
(*   "enrollment"  two requests at a time that compete for two students and   *)
(*                 their sections (EnrollmentTransactions): assignments, an   *)
(*                 assignment one level up, promotions of both students or    *)
(*                 of one                                                     *)
EXTENDS SerializedContract, EnrollmentTransactions

CONSTANTS c1, c2, s1, s2

VARIABLES part, wallet, issued, enrolling, notices, pool, call

poolVars == <<wallet, issued, enrolling, notices, pool, call>>
serviceVars == <<part, contractVars, poolVars, txVars>>

Gateway == INSTANCE GatewayCache WITH
    Users <- {"ana", "sys"}, ReadIdentity <- "sys",
    Actors <- {[user |-> "ana", role |-> "faculty"]}, Calls <- {c1, c2},
    Routes <- {"own"}, Gateways <- {1, 2}, MaxUsers <- 2, MaxCert <- 2,
    ConnectionFaults <- TRUE

Both(kind, to, from) == [kind |-> kind, to |-> to, expects |-> [s \in Students |-> from]]

SmallRequests ==
    {Both("assign", s1, Unassigned), Both("assign", s2, Unassigned), Both("assign", s2, s1),
     Both("assign ahead", s2, s1),
     Both("promote", NotEnrolled, s1), Both("promote", NotEnrolled, s2),
     [kind |-> "promote", to |-> NotEnrolled, expects |-> [s \in {2} |-> s1]]}

SmallNext ==
    \/ \E t \in Txs :
        \/ \E req \in SmallRequests : Begin(t, req)
        \/ Step(t)
        \/ Commit(t)
        \/ DeadlockDetected(t)
        \/ Crash(t)
    \/ \E s \in Students : ChangeOne(s)

MCInit ==
    /\ part \in {"contract", "gateways", "enrollment"}
    /\ ContractInit
    /\ Gateway!GatewayInit
    /\ TxInit
    /\ part # "enrollment" => \A s \in Students : place[s] = Unassigned

MCNext ==
    \/ part = "contract" /\ ContractNext /\ UNCHANGED <<part, poolVars, txVars>>
    \/ part = "gateways" /\ Gateway!GatewayNext /\ UNCHANGED <<part, contractVars, txVars>>
    \/ part = "enrollment" /\ SmallNext /\ UNCHANGED <<part, contractVars, poolVars>>

\* A service that the behavior is not about has nothing to do: nothing of its
\* fairness is enabled.
MCFairness == ContractFairness /\ Fairness

MCSpec == MCInit /\ [][MCNext]_serviceVars /\ MCFairness

\* Refusals of a retired certificate come to an end: see GatewayCache.
RefusalsEnd == Gateway!RefusalsEnd
=============================================================================
