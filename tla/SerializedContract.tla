------------------------- MODULE SerializedContract -------------------------
(***************************************************************************)
(* serializeContractOperations: the ledger operations of one cached        *)
(* identity run one after the other.  Each call chains its operation to    *)
(* the promise of the call before it and becomes the tail of the chain.    *)
(* A promise is settled at one time and what hangs on it runs later, so    *)
(* calls may come in between.                                              *)
(***************************************************************************)
EXTENDS Integers

CONSTANTS
    Ops,     \* calls of evaluateTransaction or submitTransaction
    NoOp     \* the resolved promise the chain begins with

ASSUME SerializedContractAssumption == NoOp \notin Ops

VARIABLES
    state,    \* of each operation
    after,    \* the operation whose promise it is chained to
    tail,     \* operationTail: the operation called last
    active,   \* activeOperations
    calls,    \* number of calls so far
    turn      \* when an operation was called, 0 if it was not

contractVars == <<state, after, tail, active, calls, turn>>

Settled == {"resolved", "rejected"}
States  == {"new", "waiting", "running"} \cup Settled

ContractInit ==
    /\ state = [o \in Ops |-> "new"]
    /\ after = [o \in Ops |-> NoOp]
    /\ tail = NoOp
    /\ active = 0
    /\ calls = 0
    /\ turn = [o \in Ops |-> 0]

\* Mutant of Chain: the tail is not moved.
ChainLoose(o) == tail' = tail

\* The operation becomes what the next call waits for.
Chain(o) == tail' = o

Call(o) ==
    /\ state[o] = "new"
    /\ state' = [state EXCEPT ![o] = "waiting"]
    /\ after' = [after EXCEPT ![o] = tail]
    /\ Chain(o)
    /\ calls' = calls + 1
    /\ turn' = [turn EXCEPT ![o] = calls + 1]
    /\ UNCHANGED active

\* Mutant of Ready: a rejection is not caught.
ReadyOnSuccess(o) == after[o] \in {NoOp} \cup {p \in Ops : state[p] = "resolved"}

\* The promise it is chained to has settled, in success or failure.
Ready(o) == after[o] \in {NoOp} \cup {p \in Ops : state[p] \in Settled}

\* Mutant of Acquire: it is not counted.
AcquireNot == active' = active

\* The operation counts from when it starts.
Acquire == active' = active + 1

Execute(o) ==
    /\ state[o] = "waiting"
    /\ Ready(o)
    /\ state' = [state EXCEPT ![o] = "running"]
    /\ Acquire
    /\ UNCHANGED <<after, tail, calls, turn>>

\* Mutant of Release: a failed operation stays counted.
ReleaseOnSuccess(result) == active' = IF result = "resolved" THEN active - 1 ELSE active

\* finally: the operation no longer counts, whatever came of it.
Release(result) == active' = active - 1

Settle(o, result) ==
    /\ state[o] = "running"
    /\ state' = [state EXCEPT ![o] = result]
    /\ Release(result)
    /\ UNCHANGED <<after, tail, calls, turn>>

Operation(o) ==
    \/ Call(o)
    \/ Execute(o)
    \/ \E result \in Settled : Settle(o, result)

ContractNext == \E o \in Ops : Operation(o)

ContractSpec == ContractInit /\ [][ContractNext]_contractVars

\* Reactions to promises run, and a ledger call ends: it has a time limit.
ContractFairness ==
    \A o \in Ops : WF_contractVars(Execute(o)) /\ WF_contractVars(\E result \in Settled : Settle(o, result))

FairSpec == ContractSpec /\ ContractFairness

-----------------------------------------------------------------------------
(* Properties.                                                             *)

ContractTypeOK ==
    /\ state \in [Ops -> States]
    /\ after \in [Ops -> Ops \cup {NoOp}]
    /\ tail \in Ops \cup {NoOp}
    /\ active \in Nat
    /\ calls \in Nat
    /\ turn \in [Ops -> Nat]

\* No two operations of the identity are at the ledger at the same time, and the
\* counter says whether one is, also after failures.
Serialized ==
    /\ \A o, p \in Ops : state[o] = "running" /\ state[p] = "running" => o = p
    /\ active = IF \E o \in Ops : state[o] = "running" THEN 1 ELSE 0

\* An operation starts only when all that were called before it have ended.
RunsInCallOrder ==
    \A o, p \in Ops :
        (state[o] # "new" /\ turn[o] < turn[p] /\ state[p] \in {"running"} \cup Settled)
            => state[o] \in Settled

\* A call that was made is answered, even behind calls that fail.
EveryCallAnswered == \A o \in Ops : state[o] = "waiting" ~> state[o] \in Settled
=============================================================================
