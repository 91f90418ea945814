---------------------------- MODULE FabricLedger ----------------------------
(***************************************************************************)
(* The contract as Hyperledger Fabric runs it.                             *)
(*                                                                         *)
(* A call is simulated by endorsing peers on the state they have: the      *)
(* result is a set of writes and, for each key read, the version that was  *)
(* read.  The gateway sends the endorsed transaction to the orderer.  When *)
(* it comes out of the orderer, in any order and after any other           *)
(* transactions, every peer compares the versions read with the versions   *)
(* it now has: if one differs the transaction is marked invalid and its    *)
(* writes are dropped.  Anything may also be lost before it is ordered.    *)
(*                                                                         *)
(* The contract reads and checks a record in the simulation and writes it  *)
(* at commit, so everything its guards promise rests on that comparison.   *)
(***************************************************************************)
EXTENDS GradeLedger

VARIABLE
    inflight  \* endorsed transactions not yet ordered, by id

fabricVars == <<vars, inflight>>

\* The stages of a transaction: not proposed or already ordered ("idle"), endorsed,
\* and dropped, which its id never leaves.
Idle    == [stage |-> "idle"]
Dropped == [stage |-> "dropped"]
Endorsed(i, reads, wr) ==
    [stage |-> "endorsed", inv |-> i, reads |-> reads, writes |-> wr]

InFlight(t) == inflight[t].stage = "endorsed"

\* Fabric's version of a key: the position of its last write, nil when it is absent.
Version(k) == IF Exists(world, k) THEN Len(history[k]) ELSE 0

FabricInit ==
    /\ Init
    /\ inflight = [t \in TxIds |-> Idle]

\* A peer simulates the call; a rejection goes back to the client and ends there.
Endorse(t, i) ==
    /\ inflight[t] = Idle
    /\ t \notin used
    /\ LET o == Execute(world, t, i)
       IN  /\ o.ok
           /\ inflight' = [inflight EXCEPT ![t] =
                  Endorsed(i, [k \in ReadSet(i) |-> Version(k)], o.writes)]
    /\ UNCHANGED vars

\* Mutant of Valid: versions are not compared.
ValidUnchecked(t) == InFlight(t)

Valid(t) ==
    \A k \in DOMAIN inflight[t].reads : inflight[t].reads[k] = Version(k)

\* The transaction is ordered and its reads are current: its writes take effect.
CommitValid(t) ==
    /\ InFlight(t)
    /\ Valid(t)
    /\ Commit(t, inflight[t].inv.cert, inflight[t].writes)
    /\ inflight' = [inflight EXCEPT ![t] = Idle]

\* The transaction is ordered too late (MVCC_READ_CONFLICT, PHANTOM_READ_CONFLICT):
\* it is in the chain, marked invalid, and changes nothing.
CommitInvalid(t) ==
    /\ InFlight(t)
    /\ ~Valid(t)
    /\ inflight' = [inflight EXCEPT ![t] = Dropped]
    /\ UNCHANGED vars

\* The client, the gateway or the orderer loses the transaction.
Lose(t) ==
    /\ InFlight(t)
    /\ inflight' = [inflight EXCEPT ![t] = Dropped]
    /\ UNCHANGED vars

Peers(t) ==
    \/ \E i \in Invocations : Endorse(t, i)
    \/ CommitValid(t)
    \/ CommitInvalid(t)
    \/ Lose(t)

FabricNext == \E t \in TxIds : Peers(t)

FabricSpec == FabricInit /\ [][FabricNext]_fabricVars

-----------------------------------------------------------------------------
(* Properties.                                                             *)

\* Endorsed transactions carry an invocation, versions and writes of the right kind.
FabricTypeOK ==
    /\ TypeOK
    /\ DOMAIN inflight = TxIds
    /\ \A t \in TxIds :
        \/ inflight[t] \in {Idle, Dropped}
        \/ /\ InFlight(t)
           /\ inflight[t].inv \in Invocations
           /\ inflight[t].reads \in [ReadSet(inflight[t].inv) -> Nat]
           /\ DOMAIN inflight[t].writes \subseteq Keys

\* Simulating early and writing late cannot be told from running each transaction
\* of the chain alone: every guard of the contract still holds when the writes land.
ImplementsGradeLedger == Spec

\* Along each key's history every value follows from the one before it by one legal
\* step: two transactions that read the same version never both take effect.
NoLostUpdate == HistoryIsLegal

\* After ResetLedgerToGenesis commits, the genesis record is alone: a grade or an
\* audit event stored between its simulation and its commit makes it invalid.
ResetIsComplete ==
    [][\A t \in TxIds :
          (/\ InFlight(t)
           /\ inflight[t].inv.fn = "ResetLedgerToGenesis"
           /\ t \in used' \ used)
              => {k \in Keys : world'[k] # Absent} = {GenesisId}]_fabricVars

\* A batch of new grades lands whole on free ids or not at all.
BatchIsAllOrNothing ==
    [][\A t \in TxIds :
          (InFlight(t) /\ inflight[t].inv.fn = "IssueBatchGrades") =>
              LET ids == DOMAIN inflight[t].writes
              IN  /\ t \in used' \ used => \A id \in ids : /\ ~Exists(world, id)
                                                        /\ world'[id].status = "Issued"
                  /\ (t \notin used' /\ inflight'[t] # inflight[t]) => world' = world]_fabricVars
=============================================================================
