------------------------- MODULE LedgerServiceProofs -------------------------
(***************************************************************************)
(* The ledger service.  First the promises of one identity: however many   *)
(* operations are called, they run one at a time and in the order of the   *)
(* calls.  Then the pool, for any users, requests, faults and capacity:    *)
(* what is cached is connected, contracts fit their roles, a removed user  *)
(* gets nothing, and gateways are lost in two ways only.                   *)
(***************************************************************************)
EXTENDS SerializedContract, GatewayCache, SetInduction, TLAPS

-----------------------------------------------------------------------------
(* SerializedContract.                                                     *)

Called(o)  == state[o] # "new"
Started(o) == state[o] \in {"running"} \cup Settled

\* Calls are numbered from 1 to calls, and no two have the same number.
Numbered ==
    /\ \A o \in Ops : IF Called(o) THEN turn[o] \in 1..calls ELSE turn[o] = 0
    /\ \A o, p \in Ops : Called(o) /\ turn[o] = turn[p] => o = p

\* An operation hangs on the one called just before it, and the tail is the last.
Chained ==
    /\ \A o \in Ops : Called(o) =>
          \/ turn[o] = 1
          \/ /\ after[o] \in Ops
             /\ turn[after[o]] = turn[o] - 1
    /\ \/ calls = 0
       \/ tail \in Ops /\ turn[tail] = calls

\* The counter says whether an operation runs.
Counted == active = IF \E o \in Ops : state[o] = "running" THEN 1 ELSE 0

ContractInv == ContractTypeOK /\ Numbered /\ Chained /\ RunsInCallOrder /\ Counted

-----------------------------------------------------------------------------
LEMMA InitContractInv == ContractInit => ContractInv
BY SerializedContractAssumption
   DEF ContractInit, ContractInv, ContractTypeOK, Numbered, Chained, RunsInCallOrder, Counted, Called,
       States, Settled

\* A call takes the next number and the place at the end of the chain.
LEMMA CallPreserves ==
    ASSUME ContractInv, NEW o \in Ops, Call(o)
    PROVE  ContractInv'
<1> USE DEF ContractInv
<1>1. /\ state[o] = "new" /\ turn[o] = 0
      /\ state' = [state EXCEPT ![o] = "waiting"]
      /\ after' = [after EXCEPT ![o] = tail]
      /\ tail' = o /\ calls' = calls + 1 /\ active' = active
      /\ turn' = [turn EXCEPT ![o] = calls + 1]
  BY DEF Call, Chain, Numbered, Called
<1>2. ContractTypeOK'
  BY <1>1 DEF ContractTypeOK, States
<1>3. \A p \in Ops : Called(p) => turn[p] \in 1..calls /\ p # o
  BY <1>1 DEF Numbered, Called
<1>4. Numbered'
  <2>1. ASSUME NEW p \in Ops
        PROVE  (IF Called(p) THEN turn[p] \in 1..calls ELSE turn[p] = 0)'
    BY <1>1, <1>3 DEF ContractTypeOK, Numbered, Called
  <2>2. ASSUME NEW p \in Ops, NEW q \in Ops, Called(p)', (turn[p] = turn[q])'
        PROVE  p = q
    <3>1. CASE p = o
      BY <3>1, <2>2, <1>1, <1>3 DEF ContractTypeOK, Numbered, Called
    <3>2. CASE p # o
      BY <3>2, <2>2, <1>1, <1>3 DEF ContractTypeOK, Numbered, Called
    <3> QED BY <3>1, <3>2
  <2> QED BY <2>1, <2>2 DEF Numbered
<1>5. Chained'
  <2>1. ASSUME NEW p \in Ops, Called(p)'
        PROVE  (turn[p] = 1 \/ (after[p] \in Ops /\ turn[after[p]] = turn[p] - 1))'
    <3>1. CASE p = o
      <4>1. CASE calls = 0
        BY <4>1, <3>1, <1>1 DEF ContractTypeOK
      <4>2. CASE tail \in Ops /\ turn[tail] = calls /\ calls # 0
        BY <4>2, <3>1, <1>1 DEF ContractTypeOK
      <4> QED BY <4>1, <4>2 DEF Chained
    <3>2. CASE p # o
      <4>1. Called(p) /\ after'[p] = after[p] /\ turn'[p] = turn[p]
        BY <3>2, <2>1, <1>1 DEF Called, ContractTypeOK
      <4>2. CASE turn[p] # 1
        <5>1. after[p] \in Ops /\ turn[after[p]] = turn[p] - 1
          BY <4>1, <4>2 DEF Chained
        <5>2. turn[p] \in 1..calls
          BY <4>1, <1>3
        <5>3. after[p] # o
          BY <5>1, <5>2, <4>2, <1>1 DEF ContractTypeOK
        <5> QED BY <5>1, <5>3, <4>1, <1>1 DEF ContractTypeOK
      <4> QED BY <4>1, <4>2
    <3> QED BY <3>1, <3>2
  <2>2. (tail \in Ops /\ turn[tail] = calls)'
    BY <1>1 DEF ContractTypeOK
  <2> QED BY <2>1, <2>2 DEF Chained
<1>6. RunsInCallOrder'
  <2> SUFFICES ASSUME NEW p \in Ops, NEW q \in Ops,
                      (state[p] # "new" /\ turn[p] < turn[q] /\ Started(q))'
               PROVE  (state[p] \in Settled)'
    BY DEF RunsInCallOrder, Started
  <2>1. q # o /\ Started(q) /\ turn'[q] = turn[q]
    BY <1>1 DEF ContractTypeOK, Started, Settled
  <2>2. turn[q] \in 1..calls
    BY <2>1, <1>3 DEF Called, Started, Settled
  <2>3. p # o
    BY <2>1, <2>2, <1>1 DEF ContractTypeOK
  <2> QED BY <2>1, <2>3, <1>1 DEF ContractTypeOK, RunsInCallOrder, Started
<1>7. Counted'
  BY <1>1 DEF Counted, ContractTypeOK
<1> QED BY <1>2, <1>4, <1>5, <1>6, <1>7

\* When an operation starts, the one it hangs on has ended, and so has everything
\* called before that one.
LEMMA ExecutePreserves ==
    ASSUME ContractInv, NEW o \in Ops, Execute(o)
    PROVE  ContractInv'
<1> USE DEF ContractInv
<1>1. /\ state[o] = "waiting"
      /\ state' = [state EXCEPT ![o] = "running"]
      /\ active' = active + 1
      /\ UNCHANGED <<after, tail, calls, turn>>
  BY DEF Execute, Acquire
<1>2. \A p \in Ops : state[p] # "new" /\ turn[p] < turn[o] => state[p] \in Settled
  <2> SUFFICES ASSUME NEW p \in Ops, state[p] # "new", turn[p] < turn[o]
               PROVE  state[p] \in Settled
    OBVIOUS
  <2>1. turn[p] \in 1..calls /\ turn[o] \in 1..calls /\ turn[o] # 1
    BY <1>1 DEF Numbered, Called, ContractTypeOK
  <2>2. after[o] \in Ops /\ turn[after[o]] = turn[o] - 1
    BY <1>1, <2>1 DEF Chained, Called
  <2>3. state[after[o]] \in Settled
    BY <2>2, SerializedContractAssumption DEF Execute, Ready
  <2>4. CASE turn[p] = turn[after[o]]
    BY <2>2, <2>3, <2>4 DEF Numbered, Called
  <2>5. CASE turn[p] < turn[after[o]]
    BY <2>2, <2>3, <2>5 DEF RunsInCallOrder
  <2> QED BY <2>1, <2>2, <2>4, <2>5 DEF ContractTypeOK
<1>3. \A p \in Ops : state[p] # "running"
  <2> SUFFICES ASSUME NEW p \in Ops, state[p] = "running" PROVE FALSE
    OBVIOUS
  <2>1. p # o
    BY <1>1
  <2>2. turn[p] # turn[o]
    BY <2>1, <1>1 DEF Numbered, Called
  <2>3. CASE turn[p] < turn[o]
    BY <2>3, <1>2 DEF Settled
  <2>4. CASE turn[o] < turn[p]
    BY <2>4, <1>1 DEF RunsInCallOrder, Settled
  <2> QED BY <2>2, <2>3, <2>4 DEF ContractTypeOK
<1>4. ContractTypeOK'
  BY <1>1 DEF ContractTypeOK, States
<1>5. Numbered'
  BY <1>1 DEF Numbered, Called, ContractTypeOK
<1>6. Chained'
  BY <1>1 DEF Chained, Called, ContractTypeOK
<1>7. RunsInCallOrder'
  BY <1>1, <1>2 DEF RunsInCallOrder, ContractTypeOK, Settled
<1>8. Counted'
  BY <1>1, <1>3 DEF Counted, ContractTypeOK
<1> QED BY <1>4, <1>5, <1>6, <1>7, <1>8

\* An operation that ends was the only one running.
LEMMA SettlePreserves ==
    ASSUME ContractInv, NEW o \in Ops, NEW result \in Settled, Settle(o, result)
    PROVE  ContractInv'
<1> USE DEF ContractInv
<1>1. /\ state[o] = "running"
      /\ state' = [state EXCEPT ![o] = result]
      /\ active' = active - 1
      /\ UNCHANGED <<after, tail, calls, turn>>
  BY DEF Settle, Release
<1>2. result # "new" /\ result # "running"
  BY DEF Settled
<1>3. \A p \in Ops : state[p] = "running" => p = o
  <2> SUFFICES ASSUME NEW p \in Ops, state[p] = "running", p # o PROVE FALSE
    OBVIOUS
  <2>1. turn[p] < turn[o] \/ turn[o] < turn[p]
    BY <1>1 DEF Numbered, Called, ContractTypeOK
  <2> QED BY <2>1, <1>1 DEF RunsInCallOrder, Settled
<1>4. active = 1
  BY <1>1 DEF Counted
<1>5. ContractTypeOK'
  BY <1>1, <1>4 DEF ContractTypeOK, States
<1>6. Numbered'
  BY <1>1, <1>2 DEF Numbered, Called, ContractTypeOK
<1>7. Chained'
  BY <1>1, <1>2 DEF Chained, Called, ContractTypeOK
<1>8. RunsInCallOrder'
  BY <1>1, <1>2 DEF RunsInCallOrder, ContractTypeOK
<1>9. Counted'
  BY <1>1, <1>2, <1>3, <1>4 DEF Counted, ContractTypeOK
<1> QED BY <1>5, <1>6, <1>7, <1>8, <1>9

LEMMA ContractInvariant == ContractSpec => []ContractInv
<1>1. ContractInv /\ [ContractNext]_contractVars => ContractInv'
  <2> SUFFICES ASSUME ContractInv, [ContractNext]_contractVars PROVE ContractInv'
    OBVIOUS
  <2>1. ASSUME NEW o \in Ops, Operation(o) PROVE ContractInv'
    BY <2>1, CallPreserves, ExecutePreserves, SettlePreserves DEF Operation
  <2>2. CASE UNCHANGED contractVars
    BY <2>2 DEF contractVars, ContractInv, ContractTypeOK, Numbered, Chained, RunsInCallOrder, Counted, Called
  <2> QED BY <2>1, <2>2 DEF ContractNext
<1> QED BY <1>1, InitContractInv, PTL DEF ContractSpec

\* States, chain and counters keep their types; activeOperations never goes below zero.
THEOREM ContractTypeCorrect == ContractSpec => []ContractTypeOK
<1>1. ContractInv => ContractTypeOK
  BY DEF ContractInv
<1> QED BY <1>1, ContractInvariant, PTL

\* However many operations are called, and whatever becomes of them, each starts
\* after all that were called before it.
THEOREM InCallOrder == ContractSpec => []RunsInCallOrder
<1>1. ContractInv => RunsInCallOrder
  BY DEF ContractInv
<1> QED BY <1>1, ContractInvariant, PTL

\* At most one operation of the identity is at the ledger, and activeOperations is 1
\* when one is and 0 when none is.
THEOREM OneAtATime == ContractSpec => []Serialized
<1>1. ContractInv => Serialized
  <2> SUFFICES ASSUME ContractInv PROVE Serialized
    OBVIOUS
  <2>1. ASSUME NEW o \in Ops, NEW p \in Ops, state[o] = "running", state[p] = "running",
               o # p
        PROVE  FALSE
    <3>1. turn[o] < turn[p] \/ turn[p] < turn[o]
      BY <2>1 DEF ContractInv, Numbered, Called, ContractTypeOK
    <3> QED BY <2>1, <3>1 DEF ContractInv, RunsInCallOrder, Settled
  <2> QED BY <2>1 DEF ContractInv, Counted, Serialized
<1> QED BY <1>1, ContractInvariant, PTL

-----------------------------------------------------------------------------
(* GatewayCache.                                                           *)

CallRecords ==
    [at : {"none", "find", "found", "connect", "connected", "held"},
     actor : Actors \cup {Reader}, route : RouteKinds, fallback : BOOLEAN, retried : BOOLEAN,
     found : BOOLEAN, contract : Contract \cup {NoEntry}, absent : BOOLEAN,
     crowded : BOOLEAN]

\* In what order contracts were used does not matter here.
IsPool(p) ==
    /\ p = [entry |-> p.entry, order |-> p.order, idle |-> p.idle, open |-> p.open]
    /\ p.entry \in [Users -> Contract \cup {NoEntry}]
    /\ p.open \subseteq Gateways

TypeInv ==
    /\ wallet \in [Identities -> 0..issued]
    /\ issued \in 0..MaxCert
    /\ enrolling \subseteq [id : Identities, cert : 1..issued]
    /\ IsPool(pool)
    /\ call \in [Calls -> CallRecords]

Connected == {c \in Calls : call[c].at = "connected"}

\* The gateways that are connected and not cached yet.
Pending == {call[c].contract.gateway : c \in Connected}

\* Cached gateways are connected, each user has one of its own, and none is still pending.
Sound(p, pending) ==
    /\ IsPool(p)
    /\ pending \subseteq p.open
    /\ \A u \in Cached(p) : p.entry[u].gateway \in p.open \ pending
    /\ \A u, v \in Cached(p) : p.entry[u].gateway = p.entry[v].gateway => u = v

\* What is open and neither cached nor pending.
Stray(p, pending) == p.open \ ({p.entry[u].gateway : u \in Cached(p)} \cup pending)

PoolSound == Sound(pool, Pending)

\* Requests that have connected have gateways of their own.
PendingApart ==
    \A c, d \in Connected : call[c].contract.gateway = call[d].contract.gateway => c = d

RolesFit ==
    \A c \in Calls :
        call[c].at \in {"connected", "held"} => /\ call[c].contract # NoEntry
                                                /\ call[c].contract.msp = WalletOf(Target(c).role)

\* A request that began without a certificate has none and has found none.
AbsentStays ==
    \A c \in Calls :
        call[c].absent => /\ Certificate(Target(c)) = 0
                          /\ call[c].at \notin {"connect", "connected", "held"}
                          /\ call[c].at = "found" => ~call[c].found

\* A request that opens a gateway opens it for a user who has none, unless another
\* request has cached one meanwhile.
OnlyRivalsCache ==
    \A c \in Opening : ~call[c].crowded => Target(c).user \notin Cached(pool)

PoolInv == TypeInv /\ PoolSound /\ PendingApart /\ RolesFit /\ AbsentStays /\ OnlyRivalsCache

-----------------------------------------------------------------------------
(* Operations on the pool.                                                 *)

LEMMA ActorsHaveIdentities ==
    ASSUME NEW a \in Actors \cup {Reader}
    PROVE  /\ a.user \in Users
           /\ IdentityOf(a) \in Identities
           /\ WalletOf(a.role) \in {i.msp : i \in Identities}
<1>1. a.user \in Users BY GatewayCacheAssumption DEF Reader
<1>2. IdentityOf(a) \in Identities BY DEF IdentityOf, Identities
<1>3. IdentityOf(a).msp = WalletOf(a.role) BY DEF IdentityOf
<1> QED BY <1>1, <1>2, <1>3

Fields == {"entry", "order", "idle", "open"}

LEMMA PoolFields ==
    ASSUME NEW p, IsPool(p)
    PROVE  DOMAIN p = Fields
BY DEF IsPool, Fields

LEMMA DisconnectAllFields ==
    ASSUME NEW p, IsPool(p), NEW us
    PROVE  /\ IsPool(DisconnectAll(p, us))
           /\ \A u \in Users : DisconnectAll(p, us).entry[u] =
                                   IF u \in us THEN NoEntry ELSE p.entry[u]
           /\ DisconnectAll(p, us).open =
                  p.open \ {p.entry[u].gateway : u \in us \cap Cached(p)}
           /\ DisconnectAll(p, us).order = Without(p.order, us)
           /\ DisconnectAll(p, us).idle = p.idle \ us
           /\ Cached(DisconnectAll(p, us)) = Cached(p) \ us
<1> DEFINE q == DisconnectAll(p, us)
           e == [u \in Users |-> IF u \in us THEN NoEntry ELSE p.entry[u]]
           o == Without(p.order, us)
           i == p.idle \ us
           g == p.open \ {p.entry[u].gateway : u \in us \cap Cached(p)}
<1>1. q = [p EXCEPT !.entry = e, !.order = o, !.idle = i, !.open = g]
  BY DEF DisconnectAll
<1>2. e \in [Users -> Contract \cup {NoEntry}] /\ g \subseteq Gateways
  BY DEF IsPool
<1> HIDE DEF q, e, o, i, g
<1>3. q = [entry |-> e, order |-> o, idle |-> i, open |-> g]
  <2> DEFINE byField == [x \in Fields |->
          IF x = "entry" THEN e ELSE IF x = "order" THEN o ELSE IF x = "idle" THEN i ELSE g]
  <2>1. p = [entry |-> p.entry, order |-> p.order, idle |-> p.idle, open |-> p.open] BY DEF IsPool
  <2>2. q = byField BY <1>1, <2>1, PoolFields DEF Fields
  <2>3. [entry |-> e, order |-> o, idle |-> i, open |-> g] = byField BY DEF Fields
  <2> QED BY <2>2, <2>3
<1>4. q.entry = e /\ q.open = g BY <1>3
<1>5. IsPool(q) BY <1>2, <1>3, <1>4 DEF IsPool
<1>6. \A u \in Users : q.entry[u] = IF u \in us THEN NoEntry ELSE p.entry[u]
  BY <1>4 DEF e
<1>7. Cached(q) = Cached(p) \ us BY <1>6 DEF Cached
<1>8. q.open = p.open \ {p.entry[u].gateway : u \in us \cap Cached(p)} BY <1>4 DEF g
<1>9. q.order = Without(p.order, us) /\ q.idle = p.idle \ us BY <1>3 DEF o, i
<1> QED BY <1>5, <1>6, <1>7, <1>8, <1>9 DEF q

\* Disconnecting users takes their gateways out of the cache and nobody else's.
LEMMA DisconnectSound ==
    ASSUME NEW p, NEW pending, Sound(p, pending), NEW us
    PROVE  /\ Sound(DisconnectAll(p, us), pending)
           /\ Cached(DisconnectAll(p, us)) = Cached(p) \ us
           /\ Stray(DisconnectAll(p, us), pending) \subseteq Stray(p, pending)
<1> DEFINE q == DisconnectAll(p, us)
<1>1. IsPool(p) BY DEF Sound
<1>2. /\ IsPool(q)
      /\ \A u \in Users : q.entry[u] = IF u \in us THEN NoEntry ELSE p.entry[u]
      /\ q.open = p.open \ {p.entry[u].gateway : u \in us \cap Cached(p)}
      /\ Cached(q) = Cached(p) \ us
  BY <1>1, DisconnectAllFields
<1>3. \A u \in Cached(q) : u \in Cached(p) /\ u \notin us /\ q.entry[u] = p.entry[u]
  BY <1>2 DEF Cached
<1> HIDE DEF q
<1>4. Sound(q, pending) BY <1>2, <1>3 DEF Sound
<1>5. Stray(q, pending) \subseteq Stray(p, pending)
  <2> SUFFICES ASSUME NEW g \in Stray(q, pending), g \notin Stray(p, pending) PROVE FALSE
    OBVIOUS
  <2>1. g \in q.open /\ g \notin pending /\ g \in p.open BY <1>2 DEF Stray
  <2>2. PICK u \in Cached(p) : g = p.entry[u].gateway BY <2>1 DEF Stray
  <2>3. u \notin us BY <1>2, <2>1, <2>2
  <2>4. u \in Cached(q) /\ q.entry[u] = p.entry[u] BY <1>2, <2>2, <2>3 DEF Cached
  <2> QED BY <2>2, <2>4 DEF Stray
<1> QED BY <1>2, <1>4, <1>5 DEF q

UsedLast(p, u) == Append(Without(p.order, {u}), u)

LEMMA KeepFields ==
    ASSUME NEW p, IsPool(p), NEW u \in Users, NEW c \in Contract
    PROVE  /\ IsPool(Keep(p, u, c))
           /\ Keep(p, u, c).entry = [p.entry EXCEPT ![u] = c]
           /\ Keep(p, u, c).open = p.open
           /\ Keep(p, u, c).order = UsedLast(p, u)
           /\ Keep(p, u, c).idle = p.idle \ {u}
<1> DEFINE q == Keep(p, u, c)
           e == [p.entry EXCEPT ![u] = c]
           o == UsedLast(p, u)
           i == p.idle \ {u}
<1>1. q = [p EXCEPT !.entry = e, !.order = o, !.idle = i, !.open = p.open]
  BY DEF Keep, UsedLast, IsPool
<1>2. e \in [Users -> Contract \cup {NoEntry}] /\ p.open \subseteq Gateways BY DEF IsPool
<1> HIDE DEF q, e, o, i
<1>3. q = [entry |-> e, order |-> o, idle |-> i, open |-> p.open]
  <2> DEFINE byField == [x \in Fields |->
          IF x = "entry" THEN e ELSE IF x = "order" THEN o ELSE IF x = "idle" THEN i ELSE p.open]
  <2>1. p = [entry |-> p.entry, order |-> p.order, idle |-> p.idle, open |-> p.open] BY DEF IsPool
  <2>2. q = byField BY <1>1, <2>1, PoolFields DEF Fields
  <2>3. [entry |-> e, order |-> o, idle |-> i, open |-> p.open] = byField BY DEF Fields
  <2> QED BY <2>2, <2>3
<1>4. IsPool(q) BY <1>2, <1>3 DEF IsPool
<1> QED BY <1>3, <1>4 DEF q, e, o, i

LEMMA NoEntryIsNoContract == NoEntry \notin Contract
BY DEF NoEntry, Contract

-----------------------------------------------------------------------------
LEMMA InitPoolInv == GatewayInit => PoolInv
<1> SUFFICES ASSUME GatewayInit PROVE PoolInv OBVIOUS
<1> USE DEF GatewayInit
<1>1. NoCall \in CallRecords BY DEF NoCall, CallRecords, RouteKinds
<1>2. IsPool(EmptyPool) BY DEF IsPool, EmptyPool
<1>20. TypeInv
  <2>1. wallet \in [Identities -> 0..issued] /\ issued \in 0..MaxCert
    BY GatewayCacheAssumption
  <2>2. IsPool(pool) BY <1>2
  <2>3. call \in [Calls -> CallRecords] BY <1>1
  <2>4. enrolling \subseteq [id : Identities, cert : 1..issued] OBVIOUS
  <2> QED BY <2>1, <2>2, <2>3, <2>4 DEF TypeInv
<1>3. Connected = {} /\ Opening = {} /\ Pending = {}
  BY DEF Connected, Opening, Pending, NoCall
<1>4. Cached(pool) = {} /\ pool.open = {} BY DEF Cached, EmptyPool
<1>5. PoolSound BY <1>2, <1>3, <1>4 DEF PoolSound, Sound
<1>6. PendingApart BY <1>3 DEF PendingApart
<1>7. RolesFit BY DEF RolesFit, NoCall
<1>8. AbsentStays BY DEF AbsentStays, NoCall
<1>9. OnlyRivalsCache BY <1>3 DEF OnlyRivalsCache
<1> QED BY <1>20, <1>5, <1>6, <1>7, <1>8, <1>9 DEF PoolInv

-----------------------------------------------------------------------------
(* Steps of requests.                                                      *)

\* What becomes of a request that opens and holds nothing, perhaps after disconnecting.
Shrinks ==
    \/ pool' = pool
    \/ \E us : pool' = DisconnectAll(pool, us)
    \/ \E us, vs : pool' = DisconnectAll(DisconnectAll(pool, us), vs)

LEMMA ShrinksSound ==
    ASSUME NEW pending, Sound(pool, pending), Shrinks
    PROVE  /\ Sound(pool', pending)
           /\ Cached(pool') \subseteq Cached(pool)
           /\ Stray(pool', pending) \subseteq Stray(pool, pending)
<1>1. CASE pool' = pool BY <1>1
<1>2. CASE \E us : pool' = DisconnectAll(pool, us) BY <1>2, DisconnectSound
<1>3. CASE \E us, vs : pool' = DisconnectAll(DisconnectAll(pool, us), vs)
  <2>1. PICK us, vs : pool' = DisconnectAll(DisconnectAll(pool, us), vs) BY <1>3
  <2>2. PICK q : q = DisconnectAll(pool, us) OBVIOUS
  <2>3. /\ Sound(q, pending) /\ Cached(q) \subseteq Cached(pool)
        /\ Stray(q, pending) \subseteq Stray(pool, pending)
    BY <2>2, DisconnectSound
  <2>4. /\ Sound(pool', pending) /\ Cached(pool') \subseteq Cached(q)
        /\ Stray(pool', pending) \subseteq Stray(q, pending)
    BY <2>1, <2>2, <2>3, DisconnectSound
  <2> QED BY <2>3, <2>4
<1> QED BY <1>1, <1>2, <1>3 DEF Shrinks

\* Pending gateways may be fewer.
LEMMA FewerPending ==
    ASSUME NEW p, NEW pending, Sound(p, pending), NEW fewer \in SUBSET pending
    PROVE  Sound(p, fewer)
BY DEF Sound

TargetOf(r) == IF r.fallback THEN Reader ELSE r.actor

\* An absent request has no certificate and has found none.
Unable(r) ==
    r.absent => /\ wallet[IdentityOf(TargetOf(r))] = 0
                /\ r.at \notin {"connect", "connected", "held"}
                /\ r.at = "found" => ~r.found

Fits(r) ==
    r.at \in {"connected", "held"} => /\ r.contract # NoEntry
                                      /\ r.contract.msp = WalletOf(TargetOf(r).role)

\* The invariants of each request alone, when only c changes.
LEMMA OneCallChanges ==
    ASSUME PoolInv, NEW c \in Calls, NEW r \in CallRecords, call' = [call EXCEPT ![c] = r],
           wallet' = wallet, Unable(r), Fits(r)
    PROVE  /\ call' \in [Calls -> CallRecords]
           /\ RolesFit'
           /\ AbsentStays'
<1> USE DEF PoolInv, TypeInv
<1>1. call' \in [Calls -> CallRecords] OBVIOUS
<1>2. call'[c] = r /\ \A d \in Calls : d # c => call'[d] = call[d] OBVIOUS
<1>3. RolesFit'
  <2> SUFFICES ASSUME NEW d \in Calls, call'[d].at \in {"connected", "held"}
               PROVE  /\ call'[d].contract # NoEntry
                      /\ call'[d].contract.msp = WalletOf(TargetOf(call'[d]).role)
    BY DEF RolesFit, Target, TargetOf
  <2>1. CASE d = c BY <1>2, <2>1 DEF Fits
  <2>2. CASE d # c BY <1>2, <2>2 DEF RolesFit, Target, TargetOf
  <2> QED BY <2>1, <2>2
<1>4. AbsentStays'
  <2> SUFFICES ASSUME NEW d \in Calls, call'[d].absent
               PROVE  /\ wallet[IdentityOf(TargetOf(call'[d]))] = 0
                      /\ call'[d].at \notin {"connect", "connected", "held"}
                      /\ call'[d].at = "found" => ~call'[d].found
    BY DEF AbsentStays, Target, TargetOf, Certificate
  <2>1. CASE d = c BY <1>2, <2>1 DEF Unable
  <2>2. CASE d # c BY <1>2, <2>2 DEF AbsentStays, Target, TargetOf, Certificate
  <2> QED BY <2>1, <2>2
<1> QED BY <1>1, <1>3, <1>4

\* Astray in terms of the pool and of what is pending.
LEMMA AstrayIsStray ==
    /\ Astray = Stray(pool, Pending)
    /\ Astray' = Stray(pool', Pending')
BY DEF Astray, Stray, Pending, Connected, Cached

\* What a request loses that gives up, or is answered.
GivenUp(c) == IF call[c].at = "connected" THEN {call[c].contract.gateway} ELSE {}

\* A request that opens and holds nothing afterwards.
LEMMA ReleasePreserves ==
    ASSUME PoolInv, NEW c \in Calls, NEW r \in CallRecords, r.at \in {"none", "find", "found"},
           call' = [call EXCEPT ![c] = r], UNCHANGED idVars, Shrinks, Unable(r)
    PROVE  PoolInv' /\ Astray' \subseteq Astray \cup GivenUp(c)
<1>1. Fits(r) BY DEF Fits
<1>2. call' \in [Calls -> CallRecords] /\ RolesFit' /\ AbsentStays'
  BY <1>1, OneCallChanges DEF idVars
<1>3. call'[c] = r /\ \A d \in Calls : d # c => call'[d] = call[d] BY DEF PoolInv, TypeInv
<1>4. Connected' = Connected \ {c} BY <1>3 DEF Connected
<1>5. Opening' = Opening \ {c} BY <1>3 DEF Opening
<1>6. Pending' \in SUBSET Pending BY <1>3, <1>4 DEF Pending, Connected
<1>7. Sound(pool, Pending') BY <1>6, FewerPending DEF PoolInv, PoolSound
<1>8. /\ Sound(pool', Pending') /\ Cached(pool') \subseteq Cached(pool)
      /\ Stray(pool', Pending') \subseteq Stray(pool, Pending')
  BY <1>7, ShrinksSound
<1>9. PoolSound' BY <1>8 DEF PoolSound, Pending, Connected, Sound, IsPool, Cached
<1>10. PendingApart' BY <1>3, <1>4 DEF PoolInv, PendingApart
<1>11. OnlyRivalsCache'
  <2>1. \A d \in Opening' : d \in Opening /\ call'[d] = call[d] BY <1>3, <1>5
  <2>2. Cached(pool)' = Cached(pool') BY DEF Cached
  <2> QED BY <1>8, <2>1, <2>2 DEF PoolInv, OnlyRivalsCache, Target
<1>12. TypeInv' BY <1>2, <1>8 DEF PoolInv, TypeInv, idVars, Sound, IsPool
<1>13. Pending \subseteq Pending' \cup GivenUp(c)
  <2> SUFFICES ASSUME NEW d \in Connected
               PROVE  call[d].contract.gateway \in Pending' \cup GivenUp(c)
    BY DEF Pending
  <2>1. CASE d = c BY <2>1 DEF GivenUp, Connected
  <2>2. CASE d # c BY <1>3, <1>4, <2>2 DEF Pending
  <2> QED BY <2>1, <2>2
<1>14. Stray(pool, Pending') \subseteq Stray(pool, Pending) \cup GivenUp(c) BY <1>13 DEF Stray
<1>15. Astray' \subseteq Astray \cup GivenUp(c) BY <1>8, <1>14, AstrayIsStray
<1> QED BY <1>2, <1>9, <1>10, <1>11, <1>12, <1>15 DEF PoolInv

LEMMA BeginPreserves ==
    ASSUME PoolInv, NEW c \in Calls, NEW a \in Actors, NEW k \in Routes, Begin(c, a, k)
    PROVE  PoolInv' /\ Astray' \subseteq Astray \cup GivenUp(c)
<1> DEFINE r == [NoCall EXCEPT !.at = "find", !.actor = a, !.route = k,
                               !.absent = Certificate(a) = 0]
<1>1. r.at = "find" /\ r.actor = a /\ ~r.fallback /\ r.absent = (Certificate(a) = 0)
  BY DEF NoCall
<1>2. r \in CallRecords BY GatewayCacheAssumption DEF NoCall, CallRecords
<1> HIDE DEF r
<1>3. Unable(r) BY <1>1 DEF Unable, TargetOf, Certificate
<1>4. /\ call' = [call EXCEPT ![c] = r] /\ call[c].at = "none"
      /\ UNCHANGED idVars /\ Shrinks
  BY DEF Begin, r, Shrinks
<1> QED BY <1>1, <1>2, <1>3, <1>4, ReleasePreserves

LEMMA FindPreserves ==
    ASSUME PoolInv, NEW c \in Calls, Find(c)
    PROVE  PoolInv' /\ Astray' \subseteq Astray \cup GivenUp(c)
<1> DEFINE r == [call[c] EXCEPT !.at = "found", !.found = Certificate(Target(c)) # 0]
<1>0. call[c] \in CallRecords BY DEF PoolInv, TypeInv
<1>1. r \in CallRecords BY <1>0 DEF CallRecords
<1>2. /\ r.at = "found" /\ TargetOf(r) = Target(c) /\ r.absent = call[c].absent
      /\ r.found = (Certificate(Target(c)) # 0)
  BY <1>0 DEF CallRecords, TargetOf, Target
<1> HIDE DEF r
<1>3. Unable(r) BY <1>2 DEF Unable, PoolInv, AbsentStays, Certificate
<1>4. /\ call' = [call EXCEPT ![c] = r] /\ call[c].at = "find"
      /\ UNCHANGED idVars /\ Shrinks
  BY DEF Find, r, Shrinks
<1> QED BY <1>1, <1>2, <1>3, <1>4, ReleasePreserves

LEMMA NoCallReleases ==
    /\ NoCall \in CallRecords
    /\ NoCall.at = "none"
    /\ Unable(NoCall)
BY DEF NoCall, CallRecords, RouteKinds, Unable

LEMMA AsReaderReleases ==
    ASSUME PoolInv, NEW c \in Calls, NEW b \in BOOLEAN
    PROVE  /\ AsReader(c) \in CallRecords /\ AsReader(c).at = "find" /\ Unable(AsReader(c))
           /\ [AsReader(c) EXCEPT !.retried = TRUE] \in CallRecords
           /\ [AsReader(c) EXCEPT !.retried = TRUE].at = "find"
           /\ Unable([AsReader(c) EXCEPT !.retried = TRUE])
<1>0. call[c] \in CallRecords BY DEF PoolInv, TypeInv
<1>1. /\ AsReader(c) \in CallRecords /\ AsReader(c).at = "find" /\ AsReader(c).fallback
      /\ AsReader(c).absent = (Certificate(Reader) = 0)
  BY <1>0 DEF CallRecords, AsReader
<1> DEFINE r == [AsReader(c) EXCEPT !.retried = TRUE]
<1>2. /\ r \in CallRecords /\ r.at = "find" /\ r.fallback
      /\ r.absent = (Certificate(Reader) = 0)
  BY <1>1 DEF CallRecords
<1> HIDE DEF r
<1>3. Unable(AsReader(c)) /\ Unable(r) BY <1>1, <1>2 DEF Unable, TargetOf, Certificate
<1> QED BY <1>1, <1>2, <1>3 DEF r

\* onLedgerError, from a pool that has just shrunk or not.
LEMMA OnLedgerErrorReleases ==
    ASSUME NEW c \in Calls, NEW b \in BOOLEAN, NEW p,
           p = pool \/ \E us : p = DisconnectAll(pool, us), OnLedgerError(c, b, p)
    PROVE  call' = [call EXCEPT ![c] = NoCall] /\ Shrinks
<1>1. pool' = p \/ pool' = DisconnectAll(p, {call[c].actor.user})
  BY DEF OnLedgerError, Disconnect
<1> QED BY <1>1 DEF OnLedgerError, Shrinks

LEMMA NoContractPreserves ==
    ASSUME PoolInv, NEW c \in Calls, NEW b \in BOOLEAN, NEW p,
           p = pool \/ \E us : p = DisconnectAll(pool, us), NoContract(c, b, p),
           UNCHANGED idVars
    PROVE  PoolInv' /\ Astray' \subseteq Astray \cup GivenUp(c)
<1>1. CASE call' = [call EXCEPT ![c] = AsReader(c)] /\ pool' = p
  <2>1. Shrinks BY <1>1 DEF Shrinks
  <2> QED BY <1>1, <2>1, AsReaderReleases, ReleasePreserves
<1>2. CASE OnLedgerError(c, b, p)
  BY <1>2, OnLedgerErrorReleases, NoCallReleases, ReleasePreserves
<1> QED BY <1>1, <1>2 DEF NoContract

LEMMA CallFailsPreserves ==
    ASSUME PoolInv, NEW c \in Calls, NEW b \in BOOLEAN, CallFails(c, b)
    PROVE  PoolInv' /\ Astray' \subseteq Astray \cup GivenUp(c)
<1> USE DEF CallFails
<1>1. call[c].at = "held" /\ UNCHANGED idVars OBVIOUS
<1>2. CASE /\ pool' = Disconnect(pool, call[c].actor.user)
           /\ call' = [call EXCEPT ![c] = [AsReader(c) EXCEPT !.retried = TRUE]]
  <2>1. Shrinks BY <1>2 DEF Shrinks, Disconnect
  <2> QED BY <1>1, <1>2, <2>1, AsReaderReleases, ReleasePreserves
<1>3. CASE OnLedgerError(c, b, pool)
  BY <1>1, <1>3, OnLedgerErrorReleases, NoCallReleases, ReleasePreserves
<1> QED BY <1>2, <1>3

LEMMA MissPreserves ==
    ASSUME PoolInv, NEW c \in Calls, Miss(c)
    PROVE  PoolInv' /\ Astray' \subseteq Astray
<1> DEFINE r == [call[c] EXCEPT !.at = "connect", !.found = FALSE, !.crowded = FALSE]
           u == Target(c).user
<1>0. call[c] \in CallRecords /\ call[c].at = "found" /\ call[c].found
  BY DEF PoolInv, TypeInv, Miss
<1>1. r \in CallRecords BY <1>0 DEF CallRecords
<1>2. r.at = "connect" /\ TargetOf(r) = Target(c) /\ r.absent = call[c].absent
  BY <1>0 DEF CallRecords, TargetOf, Target
<1>3. call' = [call EXCEPT ![c] = r] /\ UNCHANGED idVars BY DEF Miss
<1> HIDE DEF r
<1>4. Unable(r) /\ Fits(r) BY <1>0, <1>2 DEF Unable, Fits, PoolInv, AbsentStays
<1>5. call' \in [Calls -> CallRecords] /\ RolesFit' /\ AbsentStays'
  BY <1>1, <1>3, <1>4, OneCallChanges DEF idVars
<1>6. call'[c] = r /\ \A d \in Calls : d # c => call'[d] = call[d] BY <1>3 DEF PoolInv, TypeInv
<1>7. Connected' = Connected BY <1>0, <1>2, <1>6 DEF Connected
<1>8. Pending' = Pending BY <1>0, <1>6, <1>7 DEF Pending, Connected
<1>9. PendingApart' BY <1>0, <1>6, <1>7 DEF PoolInv, PendingApart, Connected
<1>10. /\ Sound(pool', Pending) /\ Cached(pool') \subseteq Cached(pool) \ {u}
       /\ Stray(pool', Pending) \subseteq Stray(pool, Pending)
  <2> DEFINE q == Disconnect(pool, u)
  <2>1. /\ Sound(q, Pending) /\ Cached(q) = Cached(pool) \ {u}
        /\ Stray(q, Pending) \subseteq Stray(pool, Pending)
    BY DisconnectSound DEF PoolInv, PoolSound, Disconnect
  <2> HIDE DEF q
  <2>2. \E us : pool' = DisconnectAll(q, us) BY DEF Miss, Evict, q
  <2> QED BY <2>1, <2>2, DisconnectSound
<1>11. PoolSound' BY <1>8, <1>10 DEF PoolSound, Sound, IsPool, Cached
<1>12. Opening' = Opening \cup {c} BY <1>2, <1>6 DEF Opening
<1>13. OnlyRivalsCache'
  <2>1. Target(c)' = Target(c) BY <1>2, <1>6 DEF Target, TargetOf
  <2>2. Target(c)'.user \notin Cached(pool') BY <1>10, <2>1
  <2>3. \A d \in Opening' : d # c => d \in Opening /\ call'[d] = call[d]
    BY <1>6, <1>12 DEF Opening
  <2>4. \A d \in Opening' : d # c /\ ~call'[d].crowded => Target(d)'.user \notin Cached(pool')
    BY <1>10, <2>3 DEF PoolInv, OnlyRivalsCache, Target
  <2>5. Cached(pool)' = Cached(pool') BY DEF Cached
  <2> QED BY <2>2, <2>4, <2>5 DEF OnlyRivalsCache
<1>14. TypeInv' BY <1>3, <1>5, <1>10 DEF PoolInv, TypeInv, idVars, Sound, IsPool
<1>15. Astray' \subseteq Astray BY <1>8, <1>10, AstrayIsStray
<1> QED BY <1>5, <1>9, <1>11, <1>13, <1>14, <1>15 DEF PoolInv

LEMMA ConnectPreserves ==
    ASSUME PoolInv, NEW c \in Calls, Connect(c)
    PROVE  PoolInv' /\ Astray' \subseteq Astray
<1> DEFINE a == Target(c)
           g == CHOOSE n \in FreeGateways : TRUE
           k == [gateway |-> g, msp |-> WalletOf(a.role), cert |-> Certificate(a)]
           r == [call[c] EXCEPT !.at = "connected", !.contract = k]
<1>0. call[c] \in CallRecords /\ call[c].at = "connect" /\ a \in Actors \cup {Reader}
  BY DEF PoolInv, TypeInv, Connect, CallRecords, Target
<1>1. g \in FreeGateways BY DEF Connect
<1>2. g \in Gateways /\ g \notin pool.open /\ \A d \in Calls : call[d].contract.gateway # g
  BY <1>1 DEF FreeGateways
<1>3. Certificate(a) \in 1..MaxCert
  <2>1. IdentityOf(a) \in Identities BY <1>0, ActorsHaveIdentities
  <2>2. wallet[IdentityOf(a)] \in 0..issued /\ issued \in 0..MaxCert BY <2>1 DEF PoolInv, TypeInv
  <2>3. wallet[IdentityOf(a)] # 0 BY DEF Connect, Certificate
  <2> QED BY <2>2, <2>3, GatewayCacheAssumption DEF Certificate
<1>4. call' = [call EXCEPT ![c] = r] /\ pool' = [pool EXCEPT !.open = @ \cup {g}]
      /\ UNCHANGED idVars
  BY DEF Connect
<1> HIDE DEF g
<1>5. k \in Contract BY <1>0, <1>2, <1>3, ActorsHaveIdentities DEF Contract
<1>6. k # NoEntry /\ k.gateway = g /\ k.msp = WalletOf(a.role) BY <1>5, NoEntryIsNoContract
<1> HIDE DEF k
<1>7. /\ r \in CallRecords /\ r.at = "connected" /\ TargetOf(r) = Target(c)
      /\ r.absent = call[c].absent /\ r.contract = k /\ r.crowded = call[c].crowded
  BY <1>0, <1>5 DEF CallRecords, TargetOf, Target
<1> HIDE DEF r
<1>8. Unable(r) /\ Fits(r) BY <1>0, <1>6, <1>7 DEF Unable, Fits, PoolInv, AbsentStays
<1>9. call' \in [Calls -> CallRecords] /\ RolesFit' /\ AbsentStays'
  BY <1>4, <1>7, <1>8, OneCallChanges DEF idVars
<1>10. call'[c] = r /\ \A d \in Calls : d # c => call'[d] = call[d] BY <1>4 DEF PoolInv, TypeInv
<1>11. Connected' = Connected \cup {c} BY <1>7, <1>10 DEF Connected
<1>12. \A d \in Connected : call'[d] = call[d] BY <1>0, <1>10 DEF Connected
<1>13. Pending' = Pending \cup {g}
  BY <1>6, <1>7, <1>10, <1>11, <1>12 DEF Pending
<1>14. PendingApart' BY <1>2, <1>6, <1>7, <1>10, <1>11, <1>12 DEF PoolInv, PendingApart, Connected
<1>15. IsPool(pool') /\ pool'.entry = pool.entry /\ pool'.open = pool.open \cup {g}
  BY <1>2, <1>4 DEF PoolInv, TypeInv, IsPool
<1>16. Cached(pool') = Cached(pool) BY <1>15 DEF Cached
<1>17. Sound(pool', Pending') BY <1>2, <1>13, <1>15, <1>16 DEF PoolInv, PoolSound, Sound
<1>18. PoolSound' BY <1>17 DEF PoolSound, Sound, IsPool, Cached
<1>19. Opening' = Opening BY <1>0, <1>7, <1>10 DEF Opening
<1>20. OnlyRivalsCache'
  <2>1. \A d \in Calls : Target(d)' = Target(d) /\ call'[d].crowded = call[d].crowded
    BY <1>7, <1>10 DEF Target, TargetOf
  <2>2. Cached(pool)' = Cached(pool') BY DEF Cached
  <2> QED BY <1>16, <1>19, <2>1, <2>2 DEF PoolInv, OnlyRivalsCache, Opening
<1>21. TypeInv' BY <1>4, <1>9, <1>15 DEF PoolInv, TypeInv, idVars, IsPool
<1>22. Stray(pool', Pending') \subseteq Stray(pool, Pending) BY <1>13, <1>15, <1>16 DEF Stray
<1> QED BY <1>9, <1>14, <1>18, <1>20, <1>21, <1>22, AstrayIsStray DEF PoolInv

\* Everybody else's request stays as it is, but for rivals, which are crowded now.
LEMMA StoreChanges ==
    ASSUME PoolInv, NEW c \in Calls, Store(c)
    PROVE  /\ call' \in [Calls -> CallRecords]
           /\ call'[c].at = "held"
           /\ \A d \in Calls :
                 /\ d # c => call'[d].at = call[d].at
                 /\ call'[d].contract = call[d].contract
                 /\ call'[d].found = call[d].found
                 /\ call'[d].absent = call[d].absent
                 /\ TargetOf(call'[d]) = TargetOf(call[d])
                 /\ d # c => (call'[d].crowded <=> (call[d].crowded \/ d \in Rivals(c)))
<1>1. \A d \in Calls : call[d] \in CallRecords BY DEF PoolInv, TypeInv
<1>2. call' = [d \in Calls |->
                  IF d = c THEN [call[c] EXCEPT !.at = "held", !.crowded = FALSE]
                  ELSE [call[d] EXCEPT !.crowded = @ \/ d \in Rivals(c)]]
  BY DEF Store
<1>3. /\ call'[c] \in CallRecords /\ call'[c].at = "held"
      /\ call'[c].contract = call[c].contract /\ call'[c].found = call[c].found
      /\ call'[c].absent = call[c].absent /\ TargetOf(call'[c]) = TargetOf(call[c])
  <2>1. call'[c] = [call[c] EXCEPT !.at = "held", !.crowded = FALSE] BY <1>2
  <2> QED BY <1>1, <2>1 DEF CallRecords, TargetOf
<1>4. ASSUME NEW d \in Calls, d # c
      PROVE  /\ call'[d] \in CallRecords /\ call'[d].at = call[d].at
             /\ call'[d].contract = call[d].contract /\ call'[d].found = call[d].found
             /\ call'[d].absent = call[d].absent /\ TargetOf(call'[d]) = TargetOf(call[d])
             /\ call'[d].crowded = (call[d].crowded \/ d \in Rivals(c))
  <2>1. PICK b \in BOOLEAN : b = (call[d].crowded \/ d \in Rivals(c)) OBVIOUS
  <2>2. call'[d] = [call[d] EXCEPT !.crowded = b] BY <1>2, <1>4, <2>1
  <2> QED BY <1>1, <2>1, <2>2 DEF CallRecords, TargetOf
<1> QED BY <1>2, <1>3, <1>4

\* What the request may replace: the entry that a rival has put there meanwhile.
Replaced(c) == IF call[c].crowded THEN {pool.entry[Target(c).user].gateway} ELSE {}

LEMMA StorePreserves ==
    ASSUME PoolInv, NEW c \in Calls, Store(c)
    PROVE  PoolInv' /\ Astray' \subseteq Astray \cup Replaced(c)
<1> DEFINE u == Target(c).user
           k == call[c].contract
<1>0. /\ call[c] \in CallRecords /\ call[c].at = "connected" /\ u \in Users
      /\ c \in Connected /\ k.gateway \in Pending
  BY GatewayCacheAssumption
     DEF PoolInv, TypeInv, Store, CallRecords, Target, Reader, Connected, Pending
<1>1. k \in Contract /\ k # NoEntry /\ k.msp = WalletOf(Target(c).role)
  BY <1>0 DEF PoolInv, RolesFit, CallRecords
<1>2. pool' = Keep(pool, u, k) /\ UNCHANGED idVars BY DEF Store
<1>3. /\ call' \in [Calls -> CallRecords]
      /\ call'[c].at = "held"
      /\ \A d \in Calls : d # c => call'[d].at = call[d].at
      /\ \A d \in Calls : call'[d].contract = call[d].contract
      /\ \A d \in Calls : call'[d].found = call[d].found /\ call'[d].absent = call[d].absent
      /\ \A d \in Calls : TargetOf(call'[d]) = TargetOf(call[d])
  BY StoreChanges
<1>4. \A d \in Calls : d # c => (call'[d].crowded <=> (call[d].crowded \/ d \in Rivals(c)))
  BY StoreChanges
<1>5. RolesFit'
  <2> SUFFICES ASSUME NEW d \in Calls, call'[d].at \in {"connected", "held"}
               PROVE  /\ call'[d].contract # NoEntry
                      /\ call'[d].contract.msp = WalletOf(TargetOf(call'[d]).role)
    BY DEF RolesFit, Target, TargetOf
  <2>1. call[d].at \in {"connected", "held"} BY <1>0, <1>3
  <2> QED BY <1>3, <2>1 DEF PoolInv, RolesFit, Target, TargetOf
<1>6. AbsentStays'
  <2> SUFFICES ASSUME NEW d \in Calls, call'[d].absent
               PROVE  /\ wallet'[IdentityOf(TargetOf(call'[d]))] = 0
                      /\ call'[d].at \notin {"connect", "connected", "held"}
                      /\ call'[d].at = "found" => ~call'[d].found
    BY DEF AbsentStays, Target, TargetOf, Certificate
  <2>1. call[d].absent BY <1>3
  <2>2. /\ wallet[IdentityOf(TargetOf(call[d]))] = 0
        /\ call[d].at \notin {"connect", "connected", "held"}
        /\ call[d].at = "found" => ~call[d].found
    BY <2>1 DEF PoolInv, AbsentStays, Target, TargetOf, Certificate
  <2>3. d # c BY <1>0, <2>2
  <2> QED BY <1>2, <1>3, <2>2, <2>3 DEF idVars
<1>7. Connected' = Connected \ {c} BY <1>0, <1>3 DEF Connected
<1>8. Pending' = Pending \ {k.gateway}
  BY <1>0, <1>3, <1>7 DEF PoolInv, PendingApart, Pending, Connected
<1>9. PendingApart' BY <1>3, <1>7 DEF PoolInv, PendingApart, Connected
<1>10. /\ IsPool(pool') /\ pool'.entry = [pool.entry EXCEPT ![u] = k]
       /\ pool'.open = pool.open
  BY <1>0, <1>1, <1>2, KeepFields DEF PoolInv, TypeInv
<1>11. Cached(pool') = Cached(pool) \cup {u}
  BY <1>0, <1>1, <1>10 DEF Cached, PoolInv, TypeInv, IsPool
<1>12. \A v \in Cached(pool') : pool'.entry[v] = IF v = u THEN k ELSE pool.entry[v]
  BY <1>10 DEF Cached, PoolInv, TypeInv, IsPool
<1>13. Sound(pool', Pending')
  <2>1. \A v \in Cached(pool') : v # u => v \in Cached(pool) /\ pool'.entry[v].gateway \in pool.open \ Pending
    BY <1>11, <1>12 DEF PoolInv, PoolSound, Sound
  <2>2. k.gateway \in pool.open \ Pending' BY <1>0, <1>8 DEF PoolInv, PoolSound, Sound
  <2>3. \A v \in Cached(pool') : pool'.entry[v].gateway \in pool'.open \ Pending'
    BY <1>8, <1>10, <1>12, <2>1, <2>2
  <2>4. ASSUME NEW v \in Cached(pool'), NEW w \in Cached(pool'),
               pool'.entry[v].gateway = pool'.entry[w].gateway
        PROVE  v = w
    BY <1>0, <1>12, <2>1, <2>4 DEF PoolInv, PoolSound, Sound
  <2>5. Pending' \subseteq pool'.open BY <1>8, <1>10 DEF PoolInv, PoolSound, Sound
  <2> QED BY <1>10, <2>3, <2>4, <2>5 DEF Sound
<1>14. PoolSound' BY <1>13 DEF PoolSound, Sound, IsPool, Cached
<1>15. Opening' = Opening \ {c} BY <1>0, <1>3 DEF Opening
<1>16. OnlyRivalsCache'
  <2> SUFFICES ASSUME NEW d \in Opening', ~call'[d].crowded
               PROVE  Target(d)'.user \notin Cached(pool')
    BY DEF OnlyRivalsCache, Cached
  <2>1. d \in Opening /\ d # c /\ d \in Calls BY <1>15 DEF Opening
  <2>2. ~call[d].crowded /\ d \notin Rivals(c) BY <1>4, <2>1
  <2>3. Target(d).user # u BY <2>1, <2>2 DEF Rivals
  <2>4. Target(d).user \notin Cached(pool) BY <2>1, <2>2 DEF PoolInv, OnlyRivalsCache
  <2>5. Target(d)' = Target(d) BY <1>3, <2>1 DEF Target, TargetOf
  <2> QED BY <1>11, <2>3, <2>4, <2>5
<1>17. TypeInv' BY <1>2, <1>3, <1>10 DEF PoolInv, TypeInv, idVars, IsPool
<1>18. Stray(pool', Pending') \subseteq Stray(pool, Pending) \cup Replaced(c)
  <2> SUFFICES ASSUME NEW g \in Stray(pool', Pending'), g \notin Stray(pool, Pending)
               PROVE  g \in Replaced(c)
    OBVIOUS
  <2>1. /\ g \in pool.open /\ g \notin Pending'
        /\ \A v \in Cached(pool') : pool'.entry[v].gateway # g
    BY <1>10 DEF Stray
  <2>2. g # k.gateway BY <1>11, <1>12, <2>1
  <2>3. g \notin Pending BY <1>8, <2>1, <2>2
  <2>4. PICK v \in Cached(pool) : pool.entry[v].gateway = g BY <2>1, <2>3 DEF Stray
  <2>5. v = u BY <1>11, <1>12, <2>1, <2>4
  <2>6. call[c].crowded BY <1>0, <2>4, <2>5 DEF PoolInv, OnlyRivalsCache, Opening
  <2> QED BY <2>4, <2>5, <2>6 DEF Replaced
<1>19. Astray' \subseteq Astray \cup Replaced(c) BY <1>18, AstrayIsStray
<1> QED BY <1>5, <1>6, <1>9, <1>14, <1>16, <1>17, <1>19 DEF PoolInv

\* A pool that differs in what is idle or in the order of use only.
LEMMA SameContents ==
    ASSUME NEW p, NEW q, NEW pending, Sound(p, pending), IsPool(q), q.entry = p.entry,
           q.open = p.open
    PROVE  Sound(q, pending) /\ Cached(q) = Cached(p) /\ Stray(q, pending) = Stray(p, pending)
BY DEF Sound, Stray, Cached

LEMMA HitPreserves ==
    ASSUME PoolInv, NEW c \in Calls, Hit(c)
    PROVE  PoolInv' /\ Astray' \subseteq Astray
<1> DEFINE u == Target(c).user
           k == pool.entry[u]
           r == [call[c] EXCEPT !.at = "held", !.contract = k, !.found = FALSE]
<1>0. /\ call[c] \in CallRecords /\ call[c].at = "found" /\ call[c].found /\ u \in Users
  BY GatewayCacheAssumption DEF PoolInv, TypeInv, Hit, CallRecords, Target, Reader
<1>1. u \in Cached(pool) /\ k.msp = WalletOf(Target(c).role) BY DEF Hit, Reusable
<1>2. k \in Contract /\ k # NoEntry BY <1>0, <1>1 DEF Cached, PoolInv, TypeInv, IsPool
<1>3. call' = [call EXCEPT ![c] = r] /\ pool' = Keep(pool, u, k) /\ UNCHANGED idVars
  BY DEF Hit
<1>4. IsPool(pool') /\ pool'.entry = [pool.entry EXCEPT ![u] = k] /\ pool'.open = pool.open
  BY <1>0, <1>2, <1>3, KeepFields DEF PoolInv, TypeInv
<1>5. pool'.entry = pool.entry BY <1>0, <1>4 DEF PoolInv, TypeInv, IsPool
<1> HIDE DEF k
<1>6. /\ r \in CallRecords /\ r.at = "held" /\ TargetOf(r) = Target(c)
      /\ r.absent = call[c].absent /\ r.contract = k
  BY <1>0, <1>2 DEF CallRecords, TargetOf, Target
<1> HIDE DEF r
<1>7. Unable(r) /\ Fits(r) BY <1>0, <1>1, <1>2, <1>6 DEF Unable, Fits, PoolInv, AbsentStays
<1>8. call' \in [Calls -> CallRecords] /\ RolesFit' /\ AbsentStays'
  BY <1>3, <1>6, <1>7, OneCallChanges DEF idVars
<1>9. call'[c] = r /\ \A d \in Calls : d # c => call'[d] = call[d] BY <1>3 DEF PoolInv, TypeInv
<1>10. Connected' = Connected /\ Opening' = Opening
  BY <1>0, <1>6, <1>9 DEF Connected, Opening
<1>11. \A d \in Connected \cup Opening : call'[d] = call[d]
  BY <1>0, <1>9 DEF Connected, Opening
<1>12. Pending' = Pending BY <1>10, <1>11 DEF Pending
<1>13. PendingApart' BY <1>10, <1>11 DEF PoolInv, PendingApart
<1>14. /\ Sound(pool', Pending') /\ Cached(pool') = Cached(pool)
       /\ Stray(pool', Pending') = Stray(pool, Pending)
  BY <1>4, <1>5, <1>12, SameContents DEF PoolInv, PoolSound
<1>15. PoolSound' BY <1>14 DEF PoolSound, Sound, IsPool, Cached
<1>16. OnlyRivalsCache'
  <2>1. Cached(pool)' = Cached(pool') BY DEF Cached
  <2> QED BY <1>10, <1>11, <1>14, <2>1 DEF PoolInv, OnlyRivalsCache, Target
<1>17. TypeInv' BY <1>3, <1>4, <1>8 DEF PoolInv, TypeInv, idVars, IsPool
<1> QED BY <1>8, <1>13, <1>14, <1>15, <1>16, <1>17, AstrayIsStray DEF PoolInv

LEMMA AnswerPreserves ==
    ASSUME PoolInv, NEW c \in Calls, Answer(c)
    PROVE  PoolInv' /\ Astray' \subseteq Astray \cup GivenUp(c)
<1>1. Shrinks BY DEF Answer, Shrinks
<1> QED BY <1>1, NoCallReleases, ReleasePreserves DEF Answer

LEMMA MissingPreserves ==
    ASSUME PoolInv, NEW c \in Calls, Missing(c)
    PROVE  PoolInv' /\ Astray' \subseteq Astray \cup GivenUp(c)
<1> DEFINE p == Disconnect(pool, Target(c).user)
<1>1. \E us : p = DisconnectAll(pool, us) BY DEF Disconnect
<1>2. /\ NoContract(c, TRUE, p) /\ UNCHANGED idVars
      /\ call[c].at = "found"
  BY DEF Missing
<1> HIDE DEF p
<1> QED BY <1>1, <1>2, NoContractPreserves

LEMMA ConnectFailsPreserves ==
    ASSUME PoolInv, NEW c \in Calls, NEW b \in BOOLEAN, ConnectFails(c, b)
    PROVE  PoolInv' /\ Astray' \subseteq Astray \cup GivenUp(c)
<1>1. /\ NoContract(c, b, pool) /\ UNCHANGED idVars
      /\ call[c].at = "connect"
  BY DEF ConnectFails
<1> QED BY <1>1, NoContractPreserves

LEMMA GetNetworkFailsPreserves ==
    ASSUME PoolInv, NEW c \in Calls, NEW b \in BOOLEAN, GetNetworkFails(c, b)
    PROVE  PoolInv' /\ Astray' \subseteq Astray \cup GivenUp(c)
<1>1. NoContract(c, b, pool) /\ UNCHANGED idVars
  BY DEF GetNetworkFails
<1> QED BY <1>1, NoContractPreserves

LEMMA RequestPreserves ==
    ASSUME PoolInv, NEW c \in Calls, Request(c)
    PROVE  PoolInv'
BY BeginPreserves, FindPreserves, MissingPreserves, HitPreserves, MissPreserves,
   ConnectPreserves, ConnectFailsPreserves, GetNetworkFailsPreserves, StorePreserves,
   AnswerPreserves, CallFailsPreserves
   DEF Request, Refused, Breaks

-----------------------------------------------------------------------------
(* The timer, the identity service and restarts.                           *)

\* The requests do not change; the pool shrinks, or keeps what it has.
LEMMA PoolPreserves ==
    ASSUME PoolInv, UNCHANGED <<call, wallet, issued, enrolling>>,
           \/ Shrinks
           \/ IsPool(pool') /\ pool'.entry = pool.entry /\ pool'.open = pool.open
    PROVE  PoolInv' /\ Astray' \subseteq Astray
<1>1. Connected' = Connected /\ Opening' = Opening /\ Pending' = Pending
  BY DEF Connected, Opening, Pending
<1>2. /\ Sound(pool', Pending) /\ Cached(pool') \subseteq Cached(pool)
      /\ Stray(pool', Pending) \subseteq Stray(pool, Pending)
  BY ShrinksSound, SameContents DEF PoolInv, PoolSound
<1>3. PoolSound' BY <1>1, <1>2 DEF PoolSound, Sound, IsPool, Cached
<1>4. OnlyRivalsCache'
  <2>1. Cached(pool)' = Cached(pool') BY DEF Cached
  <2> QED BY <1>1, <1>2, <2>1 DEF PoolInv, OnlyRivalsCache, Target
<1>5. PendingApart' /\ RolesFit' /\ AbsentStays'
  BY <1>1 DEF PoolInv, PendingApart, RolesFit, AbsentStays, Target, Certificate
<1>6. TypeInv' BY <1>2 DEF PoolInv, TypeInv, Sound, IsPool
<1> QED BY <1>1, <1>2, <1>3, <1>4, <1>5, <1>6, AstrayIsStray DEF PoolInv

LEMMA PrunePreserves ==
    ASSUME PoolInv, Prune
    PROVE  PoolInv' /\ Astray' \subseteq Astray
<1>1. Shrinks BY DEF Prune, Shrinks
<1> QED BY <1>1, PoolPreserves DEF Prune, idVars

LEMMA GrowIdlePreserves ==
    ASSUME PoolInv, NEW u \in Users, GrowIdle(u)
    PROVE  PoolInv' /\ Astray' \subseteq Astray
<1>1. pool' = [pool EXCEPT !.idle = @ \cup {u}] BY DEF GrowIdle
<1>2. IsPool(pool') /\ pool'.entry = pool.entry /\ pool'.open = pool.open
  BY <1>1 DEF PoolInv, TypeInv, IsPool
<1> QED BY <1>2, PoolPreserves DEF GrowIdle, idVars

LEMMA InvalidatePreserves ==
    ASSUME PoolInv, NEW u \in Users, Invalidate(u) \/ InvalidateDeferred(u)
    PROVE  PoolInv' /\ Astray' \subseteq Astray
<1>1. Shrinks BY DEF Invalidate, InvalidateDeferred, Shrinks, Disconnect
<1> QED BY <1>1, PoolPreserves DEF Invalidate, InvalidateDeferred

\* Neither pool nor requests change, but for absent, which may only fall.
LEMMA PoolUntouched ==
    ASSUME PoolInv, pool' = pool, call' \in [Calls -> CallRecords],
           \A c \in Calls : /\ call'[c].at = call[c].at
                            /\ call'[c].contract = call[c].contract
                            /\ TargetOf(call'[c]) = TargetOf(call[c])
                            /\ call'[c].crowded = call[c].crowded
    PROVE  /\ PoolSound' /\ PendingApart' /\ RolesFit' /\ OnlyRivalsCache'
           /\ Astray' = Astray
<1>1. Connected' = Connected /\ Opening' = Opening BY DEF Connected, Opening
<1>2. Pending' = Pending BY <1>1 DEF Pending, Connected
<1>3. PoolSound' BY <1>2 DEF PoolInv, PoolSound, Sound, IsPool, Cached
<1>4. PendingApart' BY <1>1 DEF PoolInv, PendingApart, Connected
<1>5. RolesFit' BY DEF PoolInv, RolesFit, Target, TargetOf
<1>6. OnlyRivalsCache'
  BY <1>1 DEF PoolInv, OnlyRivalsCache, Opening, Cached, Target, TargetOf
<1>7. Astray' = Astray BY <1>2, AstrayIsStray
<1> QED BY <1>3, <1>4, <1>5, <1>6, <1>7

LEMMA EnrollIdentityPreserves ==
    ASSUME PoolInv, NEW i \in Identities, EnrollIdentity(i)
    PROVE  PoolInv' /\ Astray' \subseteq Astray
<1> USE DEF EnrollIdentity
<1>1. PoolSound' /\ PendingApart' /\ RolesFit' /\ OnlyRivalsCache' /\ Astray' = Astray
  BY PoolUntouched DEF PoolInv, TypeInv
<1>2. AbsentStays' BY DEF PoolInv, AbsentStays, Target, Certificate
<1>3. issued \in Nat /\ issued' = issued + 1 /\ issued' \in 0..MaxCert
  BY GatewayCacheAssumption DEF PoolInv, TypeInv
<1>4. wallet' \in [Identities -> 0..issued'] BY <1>3 DEF PoolInv, TypeInv
<1>5. enrolling' \subseteq [id : Identities, cert : 1..issued']
  <2>1. enrolling \subseteq [id : Identities, cert : 1..issued'] BY <1>3 DEF PoolInv, TypeInv
  <2>2. [id |-> i, cert |-> issued + 1] \in [id : Identities, cert : 1..issued'] BY <1>3
  <2> QED BY <2>1, <2>2
<1>6. TypeInv' BY <1>3, <1>4, <1>5 DEF PoolInv, TypeInv, IsPool
<1> QED BY <1>1, <1>2, <1>6 DEF PoolInv

LEMMA PutIdentityPreserves ==
    ASSUME PoolInv, NEW e \in enrolling, PutIdentity(e)
    PROVE  PoolInv' /\ Astray' \subseteq Astray
<1>1. /\ wallet' = [wallet EXCEPT ![e.id] = e.cert] /\ enrolling' = enrolling \ {e}
      /\ call' = [c \in Calls |-> [call[c] EXCEPT !.absent = @ /\ IdentityOf(Target(c)) # e.id]]
      /\ UNCHANGED <<issued, pool>>
  BY DEF PutIdentity
<1>2. ASSUME NEW c \in Calls
      PROVE  /\ call'[c] \in CallRecords
             /\ call'[c].at = call[c].at
             /\ call'[c].found = call[c].found
             /\ call'[c].contract = call[c].contract
             /\ TargetOf(call'[c]) = TargetOf(call[c])
             /\ call'[c].crowded = call[c].crowded
             /\ call'[c].absent => call[c].absent /\ IdentityOf(TargetOf(call[c])) # e.id
  <2>1. call[c] \in CallRecords BY DEF PoolInv, TypeInv
  <2>2. call'[c] = [call[c] EXCEPT !.absent = @ /\ IdentityOf(Target(c)) # e.id] BY <1>1
  <2> QED BY <2>1, <2>2 DEF CallRecords, TargetOf, Target
<1>3. call' \in [Calls -> CallRecords] BY <1>1, <1>2
<1>4. PoolSound' /\ PendingApart' /\ RolesFit' /\ OnlyRivalsCache' /\ Astray' = Astray
  BY <1>1, <1>2, <1>3, PoolUntouched
<1>5. wallet \in [Identities -> 0..issued] /\ e.id \in Identities /\ e.cert \in 0..issued
  BY DEF PoolInv, TypeInv
<1>6. AbsentStays'
  <2> SUFFICES ASSUME NEW c \in Calls, call'[c].absent
               PROVE  /\ wallet'[IdentityOf(TargetOf(call'[c]))] = 0
                      /\ call'[c].at \notin {"connect", "connected", "held"}
                      /\ call'[c].at = "found" => ~call'[c].found
    BY DEF AbsentStays, Target, TargetOf, Certificate
  <2>1. IdentityOf(TargetOf(call[c])) \in Identities \ {e.id}
    BY <1>2, ActorsHaveIdentities DEF PoolInv, TypeInv, CallRecords, TargetOf
  <2>2. wallet'[IdentityOf(TargetOf(call[c]))] = wallet[IdentityOf(TargetOf(call[c]))]
    BY <1>1, <1>5, <2>1
  <2>3. call[c].absent BY <1>2
  <2> QED BY <1>2, <2>2, <2>3 DEF PoolInv, AbsentStays, Target, TargetOf, Certificate
<1>7. TypeInv' BY <1>1, <1>3, <1>5 DEF PoolInv, TypeInv, IsPool
<1> QED BY <1>4, <1>6, <1>7 DEF PoolInv

LEMMA RemoveIdentityPreserves ==
    ASSUME PoolInv, NEW i \in Identities, RemoveIdentity(i)
    PROVE  PoolInv' /\ Astray' \subseteq Astray
<1> USE DEF RemoveIdentity
<1>1. PoolSound' /\ PendingApart' /\ RolesFit' /\ OnlyRivalsCache' /\ Astray' = Astray
  BY PoolUntouched DEF PoolInv, TypeInv
<1>2. wallet' \in [Identities -> 0..issued]
  BY GatewayCacheAssumption DEF PoolInv, TypeInv
<1>3. \A j \in Identities : wallet[j] = 0 => wallet'[j] = 0 BY DEF PoolInv, TypeInv
<1>4. \A c \in Calls : IdentityOf(Target(c)) \in Identities
  BY ActorsHaveIdentities DEF PoolInv, TypeInv, CallRecords, Target
<1>5. AbsentStays' BY <1>3, <1>4 DEF PoolInv, AbsentStays, Target, Certificate
<1>6. TypeInv' BY <1>2 DEF PoolInv, TypeInv, IsPool
<1> QED BY <1>1, <1>5, <1>6 DEF PoolInv

LEMMA RestartPreserves ==
    ASSUME PoolInv, Restart
    PROVE  PoolInv' /\ Astray' \subseteq Astray
<1> USE DEF Restart
<1>1. NoCall \in CallRecords BY NoCallReleases
<1>2. IsPool(EmptyPool) BY DEF IsPool, EmptyPool
<1>3. TypeInv' BY <1>1, <1>2 DEF PoolInv, TypeInv, idVars, IsPool
<1>4. Connected' = {} /\ Opening' = {} BY DEF Connected, Opening, NoCall
<1>5. Pending' = {} BY <1>4 DEF Pending
<1>6. Cached(EmptyPool) = {} /\ EmptyPool.open = {} BY DEF Cached, EmptyPool
<1>7. Sound(EmptyPool, {}) /\ Stray(EmptyPool, {}) = {} BY <1>2, <1>6 DEF Sound, Stray
<1>8. PoolSound' BY <1>5, <1>7 DEF PoolSound, Sound, IsPool, Cached
<1>9. PendingApart' BY <1>4 DEF PendingApart
<1>10. RolesFit' /\ AbsentStays' BY DEF RolesFit, AbsentStays, NoCall
<1>11. OnlyRivalsCache' BY <1>4 DEF OnlyRivalsCache
<1>12. Astray' = {} BY <1>5, <1>7, AstrayIsStray
<1> QED BY <1>3, <1>8, <1>9, <1>10, <1>11, <1>12 DEF PoolInv

-----------------------------------------------------------------------------
LEMMA NextIInv == PoolInv /\ [GatewayNext]_gatewayVars => PoolInv'
<1> SUFFICES ASSUME PoolInv, [GatewayNext]_gatewayVars PROVE PoolInv' OBVIOUS
<1>1. CASE UNCHANGED gatewayVars
  <2>1. UNCHANGED <<pool, call, wallet, issued, enrolling>>
    BY <1>1 DEF gatewayVars, idVars
  <2> QED BY <2>1, PoolPreserves DEF Shrinks
<1>2. CASE GatewayNext
  BY <1>2, RequestPreserves, GrowIdlePreserves, PrunePreserves, EnrollIdentityPreserves,
     RemoveIdentityPreserves, PutIdentityPreserves, InvalidatePreserves, RestartPreserves
     DEF GatewayNext, IdentityService
<1> QED BY <1>1, <1>2

\* The invariant the four results rest on: it says whose each open gateway is.
THEOREM PoolInvariant == GatewaySpec => []PoolInv
BY InitPoolInv, NextIInv, PTL DEF GatewaySpec

\* Whoever disconnects a gateway also takes it out of the cache, for any users, requests,
\* faults and capacity: what contractForUser finds there is connected.
THEOREM CacheConnected == GatewaySpec => []CachedAreConnected
<1>1. PoolInv => CachedAreConnected BY DEF PoolInv, PoolSound, Sound, CachedAreConnected
<1> QED BY <1>1, PoolInvariant, PTL

\* A request's contract is of the organisation of the role it acts in.
THEOREM RolesKept == GatewaySpec => []ContractFitsRole
<1>1. PoolInv => ContractFitsRole BY DEF PoolInv, RolesFit, ContractFitsRole
<1> QED BY <1>1, PoolInvariant, PTL

\* Nobody whose certificate was gone when the request began, and is still, gets a contract,
\* whether the ledger service was told or not.
THEOREM RemovedStayOut == GatewaySpec => []RemovedGetsNothing
<1>1. PoolInv => RemovedGetsNothing BY DEF PoolInv, AbsentStays, RemovedGetsNothing
<1> QED BY <1>1, PoolInvariant, PTL

\* Requests that do not give up a connected gateway lose none, but what a rival cached.
LEMMA RequestLeaks ==
    ASSUME PoolInv, NEW c \in Calls, Request(c), NEW g \in Astray' \ Astray
    PROVE  \/ /\ \E reconnect \in BOOLEAN : GetNetworkFails(c, reconnect)
              /\ g = call[c].contract.gateway
           \/ /\ Store(c) /\ call[c].crowded
              /\ g = pool.entry[Target(c).user].gateway
<1>1. ASSUME g \in GivenUp(c) PROVE call[c].at = "connected" /\ g = call[c].contract.gateway
  BY <1>1 DEF GivenUp
<1>2. ASSUME NEW a \in Actors, NEW r \in Routes, Begin(c, a, r) PROVE FALSE
  BY <1>1, <1>2, BeginPreserves DEF Begin
<1>3. CASE Find(c) BY <1>1, <1>3, FindPreserves DEF Find
<1>4. CASE Missing(c) BY <1>1, <1>4, MissingPreserves DEF Missing
<1>5. CASE Hit(c) BY <1>5, HitPreserves
<1>6. CASE Miss(c) BY <1>6, MissPreserves
<1>7. CASE Connect(c) BY <1>7, ConnectPreserves
<1>8. ASSUME NEW b \in BOOLEAN, ConnectFails(c, b) PROVE FALSE
  BY <1>1, <1>8, ConnectFailsPreserves DEF ConnectFails
<1>9. ASSUME NEW b \in BOOLEAN, GetNetworkFails(c, b) PROVE g = call[c].contract.gateway
  BY <1>1, <1>9, GetNetworkFailsPreserves
<1>10. CASE Store(c)
  <2>1. g \in Replaced(c) BY <1>10, StorePreserves
  <2> QED BY <1>10, <2>1 DEF Replaced
<1>11. CASE Answer(c) BY <1>1, <1>11, AnswerPreserves DEF Answer
<1>12. ASSUME NEW b \in BOOLEAN, CallFails(c, b) PROVE FALSE
  BY <1>1, <1>12, CallFailsPreserves DEF CallFails
<1> QED BY <1>2, <1>3, <1>4, <1>5, <1>6, <1>7, <1>8, <1>9, <1>10, <1>11, <1>12
        DEF Request, Refused, Breaks

\* Nothing else loses a gateway.
LEMMA OthersLeakNothing ==
    ASSUME PoolInv,
           \/ \E u \in Users : GrowIdle(u)
           \/ Prune \/ IdentityService \/ Restart
    PROVE  Astray' \subseteq Astray
BY GrowIdlePreserves, PrunePreserves, EnrollIdentityPreserves, RemoveIdentityPreserves,
   PutIdentityPreserves, InvalidatePreserves, RestartPreserves DEF IdentityService

\* Whatever overlaps and fails, a gateway is lost only when its own channel cannot be
\* had, or when a request caches its own over that of a rival which was opened and
\* cached while it was opening: for any users, requests, faults and capacity.
THEOREM NothingLeaks == GatewaySpec => NoGatewayLeaks
<1>1. PoolInv /\ [GatewayNext]_gatewayVars =>
        [\A g \in Astray' \ Astray :
            \E c \in Calls :
               \/ /\ \E reconnect \in BOOLEAN : GetNetworkFails(c, reconnect)
                  /\ g = call[c].contract.gateway
               \/ /\ Store(c) /\ call[c].crowded
                  /\ g = pool.entry[Target(c).user].gateway]_gatewayVars
  <2> SUFFICES ASSUME PoolInv, GatewayNext, NEW g \in Astray' \ Astray
               PROVE  \E c \in Calls :
                         \/ /\ \E reconnect \in BOOLEAN : GetNetworkFails(c, reconnect)
                            /\ g = call[c].contract.gateway
                         \/ /\ Store(c) /\ call[c].crowded
                            /\ g = pool.entry[Target(c).user].gateway
    OBVIOUS
  <2>1. PICK c \in Calls : Request(c) BY OthersLeakNothing DEF GatewayNext
  <2> QED BY <2>1, RequestLeaks
<1> QED BY <1>1, PoolInvariant, PTL DEF GatewaySpec, NoGatewayLeaks

-----------------------------------------------------------------------------
(* The order of use.                                                       *)

\* f[n] is what is kept of the first n, for n up to m.
IsKept(f, order, us, m) ==
    f = [n \in 0..m |->
            IF n = 0 THEN <<>>
            ELSE IF order[n] \in us THEN f[n - 1] ELSE Append(f[n - 1], order[n])]

\* There is such a function, whatever the order is.
LEMMA KeptExists ==
    ASSUME NEW order, NEW us, NEW m \in Nat
    PROVE  \E f : IsKept(f, order, us, m)
<1> DEFINE S == {k \in Nat : \E f : IsKept(f, order, us, k)}
<1>1. 0 \in S
  <2>1. PICK f : f = [n \in 0..0 |-> <<>>]
    OBVIOUS
  <2>2. IsKept(f, order, us, 0)
    BY <2>1 DEF IsKept
  <2> QED BY <2>2
<1>2. ASSUME NEW k \in Nat, k \in S PROVE k + 1 \in S
  <2>1. PICK f : IsKept(f, order, us, k)
    BY <1>2
  <2>2. PICK last : last = IF order[k + 1] \in us THEN f[k] ELSE Append(f[k], order[k + 1])
    OBVIOUS
  <2>3. PICK g : g = [n \in 0..(k + 1) |-> IF n = k + 1 THEN last ELSE f[n]]
    OBVIOUS
  <2>4. ASSUME NEW n \in 0..(k + 1)
        PROVE  g[n] = IF n = 0 THEN <<>>
                      ELSE IF order[n] \in us THEN g[n - 1] ELSE Append(g[n - 1], order[n])
    <3>1. CASE n = k + 1
      <4>1. g[n] = last /\ g[n - 1] = f[k] /\ n # 0
        BY <2>3, <3>1
      <4> QED BY <2>2, <3>1, <4>1
    <3>2. CASE n # k + 1
      <4>1. n \in 0..k /\ g[n] = f[n] /\ (n # 0 => g[n - 1] = f[n - 1])
        BY <2>3, <3>2
      <4>2. f[n] = IF n = 0 THEN <<>>
                   ELSE IF order[n] \in us THEN f[n - 1] ELSE Append(f[n - 1], order[n])
        BY <2>1, <4>1 DEF IsKept
      <4> QED BY <4>1, <4>2
    <3> QED BY <3>1, <3>2
  <2>5. g = [n \in 0..(k + 1) |-> g[n]]
    BY <2>3
  <2>6. IsKept(g, order, us, k + 1)
    BY <2>4, <2>5 DEF IsKept
  <2> QED BY <2>6
<1> HIDE DEF S
<1>3. Nat \subseteq S
    BY <1>1, <1>2, InductiveSet
<1>4. m \in S
    BY <1>3
<1> QED BY <1>4 DEF S

\* Without is computed by it.
LEMMA WithoutKept ==
    ASSUME NEW order \in Seq(Users), NEW us
    PROVE  \E f : IsKept(f, order, us, Len(order)) /\ Without(order, us) = f[Len(order)]
<1> DEFINE F == CHOOSE f : IsKept(f, order, us, Len(order))
<1>1. Len(order) \in Nat
    OBVIOUS
<1>2. IsKept(F, order, us, Len(order))
    BY <1>1, KeptExists
<1>3. Without(order, us) = F[Len(order)]
    BY DEF Without, IsKept
<1> HIDE DEF F
<1> QED BY <1>2, <1>3

LEMMA AppendAdds ==
    ASSUME NEW s \in Seq(Users), NEW u \in Users
    PROVE  ToSet(Append(s, u)) = ToSet(s) \cup {u}
<1>1. PICK t : t = Append(s, u)
  OBVIOUS
<1>2. /\ DOMAIN t = 1..(Len(s) + 1) /\ DOMAIN s = 1..Len(s)
      /\ \A i \in 1..Len(s) : t[i] = s[i]
      /\ t[Len(s) + 1] = u
  BY <1>1
<1>3. \A i \in DOMAIN t : t[i] \in ToSet(s) \cup {u}
  BY <1>2 DEF ToSet
<1>4. \A i \in DOMAIN s : i \in DOMAIN t /\ t[i] = s[i]
  BY <1>2
<1>5. Len(s) + 1 \in DOMAIN t
  BY <1>2
<1>6. ToSet(t) = ToSet(s) \cup {u}
  BY <1>2, <1>3, <1>4, <1>5 DEF ToSet
<1> QED BY <1>1, <1>6

\* Leaving users out keeps the others, once each.
LEMMA WithoutFacts ==
    ASSUME NEW order \in Seq(Users), NEW us, IsInjective(order)
    PROVE  /\ Without(order, us) \in Seq(Users)
           /\ IsInjective(Without(order, us))
           /\ ToSet(Without(order, us)) = ToSet(order) \ us
<1>1. PICK f : IsKept(f, order, us, Len(order)) /\ Without(order, us) = f[Len(order)]
    BY WithoutKept
<1> DEFINE First(n) == {order[i] : i \in 1..n}
           Good(n) == /\ f[n] \in Seq(Users)
                      /\ IsInjective(f[n])
                      /\ ToSet(f[n]) = First(n) \ us
           S == {n \in Nat : n <= Len(order) => Good(n)}
<1>2. 0 \in S
  <2>1. f[0] = <<>>
    BY <1>1 DEF IsKept
  <2>2. Good(0)
    BY <2>1 DEF IsInjective, ToSet
  <2> QED BY <2>2
<1>3. ASSUME NEW n \in Nat, n \in S PROVE n + 1 \in S
  <2> SUFFICES ASSUME n + 1 <= Len(order) PROVE Good(n + 1)
    OBVIOUS
  <2>1. Good(n)
    BY <1>3
  <2>2. n + 1 \in 1..Len(order) /\ order[n + 1] \in Users
    OBVIOUS
  <2>3. f[n + 1] = IF order[n + 1] \in us THEN f[n] ELSE Append(f[n], order[n + 1])
    <3>1. \A i \in 0..Len(order) :
             f[i] = IF i = 0 THEN <<>>
                    ELSE IF order[i] \in us THEN f[i - 1] ELSE Append(f[i - 1], order[i])
      BY <1>1 DEF IsKept
    <3>2. n + 1 \in 0..Len(order) /\ n + 1 # 0 /\ (n + 1) - 1 = n
      BY <2>2
    <3> QED BY <3>1, <3>2
  <2>4. First(n + 1) = First(n) \cup {order[n + 1]}
    OBVIOUS
  <2>5. order[n + 1] \notin First(n)
    BY <2>2 DEF IsInjective
  <2>6. CASE order[n + 1] \in us
    BY <2>1, <2>3, <2>4, <2>6
  <2>7. CASE order[n + 1] \notin us
    <3>1. PICK s : s = f[n]
      OBVIOUS
    <3>2. PICK u : u = order[n + 1]
      OBVIOUS
    <3>3. s \in Seq(Users) /\ u \in Users /\ IsInjective(s) /\ ToSet(s) = First(n) \ us
      BY <2>1, <2>2, <3>1, <3>2
    <3>4. u \notin ToSet(s) /\ f[n + 1] = Append(s, u)
      BY <2>3, <2>5, <2>7, <3>1, <3>2, <3>3
    <3>5. Append(s, u) \in Seq(Users) /\ IsInjective(Append(s, u))
      BY <3>3, <3>4 DEF IsInjective, ToSet
    <3>6. ToSet(Append(s, u)) = ToSet(s) \cup {u}
      BY <3>3, AppendAdds
    <3> QED BY <2>4, <2>7, <3>2, <3>3, <3>4, <3>5, <3>6
  <2> QED BY <2>6, <2>7
<1> HIDE DEF S
<1>4. Nat \subseteq S
    BY <1>2, <1>3, InductiveSet
<1> HIDE DEF Good
<1>5. Good(Len(order))
  <2>1. Len(order) \in S /\ Len(order) <= Len(order)
    BY <1>4
  <2> QED BY <2>1 DEF S
<1> USE DEF Good
<1>6. First(Len(order)) = ToSet(order)
    BY DEF ToSet
<1> QED BY <1>1, <1>5, <1>6

\* The order lists the users who are cached, once each; only they may be idle.
Ordered(p) ==
    /\ p.order \in Seq(Users) /\ IsInjective(p.order)
    /\ ToSet(p.order) = Cached(p)
    /\ p.idle \subseteq Cached(p)

\* Whoever caches a gateway was opening it before: the two together do not grow, unless
\* a request has just made room for its own.
OrderInv == Ordered(pool) /\ notices \subseteq Users /\ CacheWithinCapacity

LEMMA FewerThanCalls ==
    ASSUME NEW S \in SUBSET Calls
    PROVE  /\ IsFiniteSet(S) /\ Cardinality(S) \in Nat
           /\ Cardinality(S) <= Cardinality(Calls) /\ Cardinality(Calls) \in Nat
BY FS_Subset, FS_CardinalityType, GatewayCacheAssumption

LEMMA OrderedSize ==
    ASSUME NEW p, Ordered(p)
    PROVE  /\ IsFiniteSet(Cached(p)) /\ Cardinality(Cached(p)) \in Nat
           /\ Cardinality(Cached(p)) = Len(p.order)
<1>1. PICK s : s = p.order
  OBVIOUS
<1>2. PICK S : S = Cached(p)
  OBVIOUS
<1>3. s \in Seq(Users) /\ IsInjective(s) /\ ToSet(s) = S /\ DOMAIN s = 1..Len(s)
  BY <1>1, <1>2 DEF Ordered
<1>4. s \in Bijection(1..Len(s), S)
  <2>1. s \in [1..Len(s) -> S]
    BY <1>3 DEF ToSet
  <2>2. \A a, b \in 1..Len(s) : s[a] = s[b] => a = b
    BY <1>3 DEF IsInjective
  <2>3. \A u \in S : \E a \in 1..Len(s) : s[a] = u
    BY <1>3 DEF ToSet
  <2> QED BY <2>1, <2>2, <2>3 DEF Bijection, Injection, Surjection, IsInjective
<1>5. IsFiniteSet(1..Len(s)) /\ Cardinality(1..Len(s)) = Len(s)
  BY <1>3, FS_Interval
<1>6. IsFiniteSet(S) /\ Cardinality(S) = Len(s)
  BY <1>4, <1>5, FS_Bijection DEF ExistsBijection
<1> QED BY <1>1, <1>2, <1>3, <1>6

LEMMA DisconnectOrdered ==
    ASSUME NEW p, IsPool(p), Ordered(p), NEW us
    PROVE  /\ IsPool(DisconnectAll(p, us)) /\ Ordered(DisconnectAll(p, us))
           /\ Cardinality(Cached(DisconnectAll(p, us))) <= Cardinality(Cached(p))
<1>1. PICK q : q = DisconnectAll(p, us)
  OBVIOUS
<1>2. /\ IsPool(q) /\ q.order = Without(p.order, us) /\ q.idle = p.idle \ us
      /\ Cached(q) = Cached(p) \ us
  BY <1>1, DisconnectAllFields
<1>3. PICK o : o = p.order
  OBVIOUS
<1>4. o \in Seq(Users) /\ IsInjective(o) /\ ToSet(o) = Cached(p)
  BY <1>3 DEF Ordered
<1>5. Ordered(q)
  BY <1>2, <1>3, <1>4, WithoutFacts DEF Ordered
<1>6. Cached(q) \in SUBSET Cached(p) /\ IsFiniteSet(Cached(p))
  BY <1>2, OrderedSize
<1>7. Cardinality(Cached(q)) <= Cardinality(Cached(p))
  BY <1>6, FS_Subset
<1> QED BY <1>1, <1>2, <1>5, <1>7

\* What a user has just used comes last, and no user comes in but this one.
LEMMA KeepOrdered ==
    ASSUME NEW p, IsPool(p), Ordered(p), NEW u \in Users, NEW c \in Contract
    PROVE  /\ Ordered(Keep(p, u, c))
           /\ Cached(Keep(p, u, c)) = Cached(p) \cup {u}
<1>1. PICK q : q = Keep(p, u, c)
  OBVIOUS
<1>2. PICK o : o = p.order
  OBVIOUS
<1>3. PICK t : t = Without(o, {u})
  OBVIOUS
<1>4. /\ IsPool(q) /\ q.entry = [p.entry EXCEPT ![u] = c]
      /\ q.order = UsedLast(p, u) /\ q.idle = p.idle \ {u}
  BY <1>1, KeepFields
<1>5. Cached(q) = Cached(p) \cup {u}
  BY <1>4, NoEntryIsNoContract DEF Cached, IsPool
<1>6. o \in Seq(Users) /\ IsInjective(o) /\ ToSet(o) = Cached(p)
  BY <1>2 DEF Ordered
<1>7. t \in Seq(Users) /\ IsInjective(t) /\ ToSet(t) = Cached(p) \ {u}
  BY <1>3, <1>6, WithoutFacts
<1>8. Append(t, u) \in Seq(Users) /\ IsInjective(Append(t, u))
  <2>1. u \notin ToSet(t)
    BY <1>7
  <2> QED BY <1>7, <2>1 DEF IsInjective, ToSet
<1>9. ToSet(Append(t, u)) = ToSet(t) \cup {u}
  BY <1>7, AppendAdds
<1>10. q.order = Append(t, u)
  BY <1>2, <1>3, <1>4 DEF UsedLast
<1>11. q.idle \subseteq Cached(q)
  BY <1>4, <1>5 DEF Ordered
<1> QED BY <1>1, <1>5, <1>7, <1>8, <1>9, <1>10, <1>11 DEF Ordered

\* However many there were, another one may come in.
LEMMA EvictMakesRoom ==
    ASSUME NEW p, IsPool(p), Ordered(p)
    PROVE  Cardinality(Cached(Evict(p))) < MaxUsers
<1>1. PICK o : o = p.order
  OBVIOUS
<1>2. PICK k : k = Excess(p)
  OBVIOUS
<1>3. PICK us : us = {o[n] : n \in 1..k}
  OBVIOUS
<1>4. PICK q : q = Evict(p)
  OBVIOUS
<1>5. q = DisconnectAll(p, us)
  BY <1>1, <1>2, <1>3, <1>4 DEF Evict
<1>6. Cached(q) = Cached(p) \ us
  BY <1>5, DisconnectAllFields
<1>7. /\ o \in Seq(Users) /\ ToSet(o) = Cached(p)
      /\ Len(o) = Cardinality(Cached(p)) /\ IsFiniteSet(Cached(p))
  BY <1>1, OrderedSize DEF Ordered
<1>8. MaxUsers \in Nat /\ MaxUsers >= 1 /\ k = Len(o) - (MaxUsers - 1)
  BY <1>1, <1>2, GatewayCacheAssumption DEF Excess
<1>9. CASE k <= 0
  <2>1. Cached(q) \in SUBSET Cached(p)
    BY <1>6
  <2>2. Cardinality(Cached(q)) <= Len(o)
    BY <1>7, <2>1, FS_Subset
  <2>3. Cardinality(Cached(q)) \in Nat
    BY <1>7, <2>1, FS_Subset, FS_CardinalityType
  <2> QED BY <1>4, <1>7, <1>8, <1>9, <2>2, <2>3
<1>10. CASE k > 0
  <2>1. k \in 1..Len(o)
    BY <1>7, <1>8, <1>10
  <2>2. PICK I : I = (k + 1)..Len(o)
    OBVIOUS
  <2>3. IsFiniteSet(I) /\ Cardinality(I) = Len(o) - k
    <3>1. PICK a : a = k + 1
      OBVIOUS
    <3>2. PICK b : b = Len(o)
      OBVIOUS
    <3>3. a \in Int /\ b \in Int /\ I = a..b /\ k = a - 1 /\ a <= b + 1
      BY <1>7, <2>1, <2>2, <3>1, <3>2
    <3>4. IsFiniteSet(a..b) /\ Cardinality(a..b) = IF a > b THEN 0 ELSE b - a + 1
      BY <3>3, FS_Interval
    <3> QED BY <3>2, <3>3, <3>4
  <2>4. PICK f : f = [n \in I |-> o[n]]
    OBVIOUS
  <2>5. PICK T : T = {o[n] : n \in I}
    OBVIOUS
  <2>6. f \in Surjection(I, T)
    BY <2>4, <2>5 DEF Surjection
  <2>7. IsFiniteSet(T) /\ Cardinality(T) <= Len(o) - k
    BY <2>3, <2>6, FS_Surjection
  <2>8. Cached(q) \in SUBSET T
    <3> SUFFICES ASSUME NEW u \in Cached(p), u \notin us PROVE u \in T
      BY <1>6
    <3>1. PICK n \in 1..Len(o) : o[n] = u
      BY <1>7 DEF ToSet
    <3>2. n \notin 1..k
      BY <1>3, <3>1
    <3> QED BY <1>7, <2>1, <2>2, <2>5, <3>1, <3>2
  <2>9. Cardinality(Cached(q)) <= Cardinality(T) /\ Cardinality(T) \in Nat
    BY <2>7, <2>8, FS_Subset, FS_CardinalityType
  <2>10. Cardinality(Cached(q)) \in Nat
    BY <2>7, <2>8, FS_Subset, FS_CardinalityType
  <2> QED BY <1>4, <1>7, <1>8, <2>7, <2>9, <2>10
<1> QED BY <1>7, <1>8, <1>9, <1>10

-----------------------------------------------------------------------------
(* OrderInv goes on under every step, given PoolInv.                       *)

LEMMA EmptyPoolOrdered == Cached(EmptyPool) = {} /\ Ordered(EmptyPool)
<1>1. Cached(EmptyPool) = {}
  BY DEF Cached, EmptyPool
<1>2. EmptyPool.order = <<>> /\ EmptyPool.idle = {}
  BY DEF EmptyPool
<1>3. <<>> \in Seq(Users) /\ IsInjective(<<>>) /\ ToSet(<<>>) = {}
  BY DEF IsInjective, ToSet
<1> QED BY <1>1, <1>2, <1>3 DEF Ordered

LEMMA InitOrderInv == GatewayInit => OrderInv
<1> SUFFICES ASSUME GatewayInit PROVE OrderInv
    OBVIOUS
<1> USE DEF GatewayInit
<1>1. Cached(EmptyPool) = {} /\ Ordered(EmptyPool)
  BY EmptyPoolOrdered
<1>2. Opening = {}
  BY DEF Opening, NoCall
<1>3. Cardinality(Cached(pool)) = 0
  BY <1>1, FS_EmptySet
<1>4. CacheWithinCapacity
  <2>1. Cardinality(Opening) = 0 /\ Cardinality(Calls) \in Nat
    BY <1>2, FS_EmptySet, FewerThanCalls
  <2> QED BY <1>3, <2>1, GatewayCacheAssumption DEF CacheWithinCapacity
<1> QED BY <1>1, <1>4 DEF OrderInv

\* Fewer contracts than before, and nobody new who is opening a gateway.
LEMMA ShrinksOrdered ==
    ASSUME PoolInv, OrderInv, Shrinks, Opening' \subseteq Opening,
           notices' \subseteq Users
    PROVE  OrderInv'
<1>1. PICK p : p = pool
  OBVIOUS
<1>2. PICK q : q = pool'
  OBVIOUS
<1>3. IsPool(p) /\ Ordered(p)
  BY <1>1 DEF PoolInv, TypeInv, OrderInv
<1>4. \/ q = p
      \/ \E us : q = DisconnectAll(p, us)
      \/ \E us, vs : q = DisconnectAll(DisconnectAll(p, us), vs)
  BY <1>1, <1>2 DEF Shrinks
<1>5. /\ Ordered(q) /\ Cardinality(Cached(q)) <= Cardinality(Cached(p))
      /\ Cardinality(Cached(q)) \in Nat /\ Cardinality(Cached(p)) \in Nat
  <2>1. CASE q = p
    BY <1>3, <2>1, OrderedSize
  <2>2. CASE \E us : q = DisconnectAll(p, us)
    BY <1>3, <2>2, DisconnectOrdered, OrderedSize
  <2>3. CASE \E us, vs : q = DisconnectAll(DisconnectAll(p, us), vs)
    <3>1. PICK us, vs : q = DisconnectAll(DisconnectAll(p, us), vs)
      BY <2>3
    <3>2. PICK r : r = DisconnectAll(p, us)
      OBVIOUS
    <3>3. IsPool(r) /\ Ordered(r) /\ Cardinality(Cached(r)) <= Cardinality(Cached(p))
      BY <1>3, <3>2, DisconnectOrdered
    <3>4. Ordered(q) /\ Cardinality(Cached(q)) <= Cardinality(Cached(r))
      BY <3>1, <3>2, <3>3, DisconnectOrdered
    <3> QED BY <1>3, <3>3, <3>4, OrderedSize
  <2> QED BY <1>4, <2>1, <2>2, <2>3
<1>6. Cached(pool)' = Cached(q) /\ Ordered(pool)'
  BY <1>2, <1>5 DEF Cached, Ordered
<1>7. CacheWithinCapacity'
  <2>1. PICK O : O = Opening OBVIOUS
  <2>2. PICK P : P = Opening' OBVIOUS
  <2>3. O \in SUBSET Calls /\ P \in SUBSET O BY <2>1, <2>2 DEF Opening
  <2>4. /\ Cardinality(P) <= Cardinality(O) /\ Cardinality(P) \in Nat
        /\ Cardinality(O) \in Nat /\ Cardinality(Calls) \in Nat
    BY <2>3, FewerThanCalls, FS_Subset
  <2>5. Cardinality(Cached(p)) + Cardinality(O) <= MaxUsers + Cardinality(Calls) - 1
    BY <1>1, <2>1 DEF OrderInv, CacheWithinCapacity
  <2>6. Cardinality(Cached(q)) + Cardinality(P) <= MaxUsers + Cardinality(Calls) - 1
    BY <1>5, <2>4, <2>5, GatewayCacheAssumption
  <2> QED BY <1>6, <2>2, <2>6 DEF CacheWithinCapacity
<1> QED BY <1>6, <1>7 DEF OrderInv

\* A user whose contract has just been used or made: there is room for it.
LEMMA KeepPreservesOrder ==
    ASSUME PoolInv, OrderInv, NEW u \in Users, NEW k \in Contract, pool' = Keep(pool, u, k),
           UNCHANGED idVars,
           \/ u \in Cached(pool) /\ Opening' = Opening
           \/ \E c \in Opening : Opening' = Opening \ {c}
    PROVE  OrderInv'
<1>1. PICK p : p = pool
  OBVIOUS
<1>2. PICK q : q = pool'
  OBVIOUS
<1>3. IsPool(p) /\ Ordered(p) /\ q = Keep(p, u, k)
  BY <1>1, <1>2 DEF PoolInv, TypeInv, OrderInv
<1>4. Ordered(q) /\ Cached(q) = Cached(p) \cup {u}
  BY <1>3, KeepOrdered
<1>5. Cached(pool)' = Cached(q) /\ Ordered(pool)'
  BY <1>2, <1>4 DEF Cached, Ordered
<1>6. IsFiniteSet(Cached(p)) /\ Cardinality(Cached(p)) \in Nat
  BY <1>3, OrderedSize
<1>7. Cardinality(Cached(q)) =
          IF u \in Cached(p) THEN Cardinality(Cached(p)) ELSE Cardinality(Cached(p)) + 1
  BY <1>4, <1>6, FS_AddElement
<1>8. CacheWithinCapacity'
  <2>1. PICK O : O = Opening OBVIOUS
  <2>2. PICK P : P = Opening' OBVIOUS
  <2>3. O \in SUBSET Calls BY <2>1 DEF Opening
  <2>4. IsFiniteSet(O) /\ Cardinality(O) \in Nat /\ Cardinality(Calls) \in Nat
    BY <2>3, FewerThanCalls
  <2>5. Cardinality(Cached(p)) + Cardinality(O) <= MaxUsers + Cardinality(Calls) - 1
    BY <1>1, <2>1 DEF OrderInv, CacheWithinCapacity
  <2>6. CASE u \in Cached(p) /\ P = O
    <3>1. Cardinality(Cached(q)) + Cardinality(P) <= MaxUsers + Cardinality(Calls) - 1
      BY <1>7, <2>5, <2>6
    <3> QED BY <1>5, <2>2, <3>1 DEF CacheWithinCapacity
  <2>7. CASE \E c \in O : P = O \ {c}
    <3>1. Cardinality(P) = Cardinality(O) - 1 BY <2>4, <2>7, FS_RemoveElement
    <3>2. Cardinality(Cached(q)) + Cardinality(P) <= MaxUsers + Cardinality(Calls) - 1
      BY <1>6, <1>7, <2>4, <2>5, <3>1, GatewayCacheAssumption
    <3> QED BY <1>5, <2>2, <3>2 DEF CacheWithinCapacity
  <2> QED BY <1>1, <2>1, <2>2, <2>6, <2>7
<1> QED BY <1>5, <1>8 DEF OrderInv, idVars

LEMMA OneOpeningChanges ==
    ASSUME NEW c \in Calls, NEW r, call \in [Calls -> CallRecords], call' = [call EXCEPT ![c] = r]
    PROVE  Opening' = IF r.at \in {"connect", "connected"} THEN Opening \cup {c} ELSE Opening \ {c}
<1>1. call'[c] = r /\ \A d \in Calls : d # c => call'[d] = call[d]
  OBVIOUS
<1> QED BY <1>1 DEF Opening

\* The request gives up what it was opening, if it was.
LEMMA ReleaseKeepsOrder ==
    ASSUME PoolInv, OrderInv, NEW c \in Calls, NEW r \in CallRecords,
           r.at \in {"none", "find", "found"}, call' = [call EXCEPT ![c] = r], UNCHANGED idVars, Shrinks
    PROVE  OrderInv'
<1>1. Opening' \subseteq Opening
  BY OneOpeningChanges DEF PoolInv, TypeInv
<1>2. notices' \subseteq Users
  BY DEF OrderInv, idVars
<1> QED BY <1>1, <1>2, ShrinksOrdered

LEMMA NoContractKeepsOrder ==
    ASSUME PoolInv, OrderInv, NEW c \in Calls, NEW b \in BOOLEAN, NEW p,
           p = pool \/ \E us : p = DisconnectAll(pool, us), NoContract(c, b, p),
           UNCHANGED idVars
    PROVE  OrderInv'
<1>1. CASE call' = [call EXCEPT ![c] = AsReader(c)] /\ pool' = p
  <2>1. Shrinks
    BY <1>1 DEF Shrinks
  <2> QED BY <1>1, <2>1, AsReaderReleases, ReleaseKeepsOrder
<1>2. CASE OnLedgerError(c, b, p)
  BY <1>2, OnLedgerErrorReleases, NoCallReleases, ReleaseKeepsOrder
<1> QED BY <1>1, <1>2 DEF NoContract

LEMMA CallFailsKeepsOrder ==
    ASSUME PoolInv, OrderInv, NEW c \in Calls, NEW b \in BOOLEAN, CallFails(c, b)
    PROVE  OrderInv'
<1>1. UNCHANGED idVars
  BY DEF CallFails
<1>2. CASE /\ pool' = Disconnect(pool, call[c].actor.user)
           /\ call' = [call EXCEPT ![c] = [AsReader(c) EXCEPT !.retried = TRUE]]
  <2>1. Shrinks
    BY <1>2 DEF Shrinks, Disconnect
  <2> QED BY <1>1, <1>2, <2>1, AsReaderReleases, ReleaseKeepsOrder
<1>3. CASE OnLedgerError(c, b, pool)
  BY <1>1, <1>3, OnLedgerErrorReleases, NoCallReleases, ReleaseKeepsOrder
<1> QED BY <1>2, <1>3 DEF CallFails

LEMMA MissKeepsOrder ==
    ASSUME PoolInv, OrderInv, NEW c \in Calls, Miss(c)
    PROVE  OrderInv'
<1>1. PICK p : p = Disconnect(pool, Target(c).user)
  OBVIOUS
<1>2. IsPool(p) /\ Ordered(p)
  BY <1>1, DisconnectOrdered DEF PoolInv, TypeInv, OrderInv, Disconnect
<1>3. PICK q : q = pool'
  OBVIOUS
<1>4. q = Evict(p)
  BY <1>1, <1>3 DEF Miss
<1>5. Ordered(q)
  BY <1>2, <1>4, DisconnectOrdered DEF Evict
<1>6. Cardinality(Cached(q)) < MaxUsers
  BY <1>2, <1>4, EvictMakesRoom
<1>7. Cardinality(Cached(q)) \in Nat
  BY <1>5, OrderedSize
<1>8. Cached(pool)' = Cached(q) /\ Ordered(pool)'
  BY <1>3, <1>5 DEF Cached, Ordered
<1>9. CacheWithinCapacity'
  <2>1. PICK P : P = Opening' OBVIOUS
  <2>2. P \in SUBSET Calls BY <2>1 DEF Opening
  <2>3. /\ Cardinality(P) \in Nat /\ Cardinality(P) <= Cardinality(Calls)
        /\ Cardinality(Calls) \in Nat
    BY <2>2, FewerThanCalls
  <2>4. Cardinality(Cached(q)) + Cardinality(P) <= MaxUsers + Cardinality(Calls) - 1
    BY <1>6, <1>7, <2>3, GatewayCacheAssumption
  <2> QED BY <1>8, <2>1, <2>4 DEF CacheWithinCapacity
<1> QED BY <1>8, <1>9 DEF OrderInv, Miss, idVars

LEMMA HitKeepsOrder ==
    ASSUME PoolInv, OrderInv, NEW c \in Calls, Hit(c)
    PROVE  OrderInv'
<1>1. PICK u : u = Target(c).user
  OBVIOUS
<1>2. PICK k : k = pool.entry[u]
  OBVIOUS
<1>3. u \in Cached(pool) /\ u \in Users
  BY <1>1 DEF Hit, Reusable, Cached
<1>4. k \in Contract
  BY <1>2, <1>3 DEF Cached, PoolInv, TypeInv, IsPool
<1>5. pool' = Keep(pool, u, k) /\ UNCHANGED idVars
  BY <1>1, <1>2 DEF Hit
<1>6. Opening' = Opening
  <2>1. PICK r : r = [call[c] EXCEPT !.at = "held", !.contract = k, !.found = FALSE]
    OBVIOUS
  <2>2. call' = [call EXCEPT ![c] = r]
    BY <1>1, <1>2, <2>1 DEF Hit
  <2>3. call[c] \in CallRecords
    BY DEF PoolInv, TypeInv
  <2>4. r.at = "held"
    BY <2>1, <2>3 DEF CallRecords
  <2>5. call \in [Calls -> CallRecords]
    BY DEF PoolInv, TypeInv
  <2>6. Opening' = Opening \ {c}
    BY <2>2, <2>4, <2>5, OneOpeningChanges
  <2>7. c \notin Opening
    BY DEF Hit, Opening
  <2> QED BY <2>6, <2>7
<1> QED BY <1>3, <1>4, <1>5, <1>6, KeepPreservesOrder

LEMMA StoreKeepsOrder ==
    ASSUME PoolInv, OrderInv, NEW c \in Calls, Store(c)
    PROVE  OrderInv'
<1>0. call[c] \in CallRecords /\ call[c].at = "connected" /\ c \in Opening
  BY DEF PoolInv, TypeInv, Store, Opening
<1>1. PICK u : u = Target(c).user
  OBVIOUS
<1>2. u \in Users
  BY <1>0, <1>1, ActorsHaveIdentities DEF Target, CallRecords
<1>3. PICK k : k = call[c].contract
  OBVIOUS
<1>4. k \in Contract
  BY <1>0, <1>3 DEF PoolInv, RolesFit, CallRecords
<1>5. pool' = Keep(pool, u, k) /\ UNCHANGED idVars
  BY <1>1, <1>3 DEF Store
<1>6. Opening' = Opening \ {c}
  BY <1>0, StoreChanges DEF Opening
<1> QED BY <1>0, <1>2, <1>4, <1>5, <1>6, KeepPreservesOrder

\* A gateway connects: the cache stays as it is.
LEMMA ConnectKeepsOrder ==
    ASSUME PoolInv, OrderInv, NEW c \in Calls, Connect(c)
    PROVE  OrderInv'
<1>0. call[c] \in CallRecords /\ call[c].at = "connect" /\ c \in Opening
  BY DEF PoolInv, TypeInv, Connect, Opening
<1>1. PICK g : pool' = [pool EXCEPT !.open = @ \cup {g}]
  BY DEF Connect
<1>2. pool'.entry = pool.entry /\ pool'.order = pool.order /\ pool'.idle = pool.idle
  BY <1>1 DEF PoolInv, TypeInv, IsPool
<1>3. Cached(pool)' = Cached(pool) /\ Ordered(pool)'
  BY <1>2 DEF Cached, Ordered, OrderInv
<1>4. Opening' = Opening
  <2>1. PICK r : call' = [call EXCEPT ![c] = r] /\ r.at = "connected"
    <3>1. \A k : [call[c] EXCEPT !.at = "connected", !.contract = k].at = "connected"
      BY <1>0 DEF CallRecords
    <3> QED BY <3>1 DEF Connect
  <2> QED BY <1>0, <2>1, OneOpeningChanges DEF PoolInv, TypeInv
<1>5. UNCHANGED idVars
  BY DEF Connect
<1> QED BY <1>3, <1>4, <1>5 DEF OrderInv, CacheWithinCapacity, idVars

LEMMA RequestKeepsOrder ==
    ASSUME PoolInv, OrderInv, NEW c \in Calls, Request(c)
    PROVE  OrderInv'
<1>1. ASSUME NEW a \in Actors, NEW k \in Routes, Begin(c, a, k) PROVE OrderInv'
  <2>1. PICK r : r = [NoCall EXCEPT !.at = "find", !.actor = a, !.route = k,
                                    !.absent = Certificate(a) = 0]
    OBVIOUS
  <2>2. r \in CallRecords /\ r.at = "find"
    BY <2>1, GatewayCacheAssumption DEF NoCall, CallRecords
  <2>3. call' = [call EXCEPT ![c] = r] /\ UNCHANGED idVars /\ Shrinks
    BY <1>1, <2>1 DEF Begin, Shrinks
  <2> QED BY <2>2, <2>3, ReleaseKeepsOrder
<1>2. CASE Find(c)
  <2>1. PICK r : r = [call[c] EXCEPT !.at = "found", !.found = Certificate(Target(c)) # 0]
    OBVIOUS
  <2>2. call[c] \in CallRecords
    BY DEF PoolInv, TypeInv
  <2>3. r \in CallRecords /\ r.at = "found"
    BY <2>1, <2>2 DEF CallRecords
  <2>4. call' = [call EXCEPT ![c] = r] /\ UNCHANGED idVars /\ Shrinks
    BY <1>2, <2>1 DEF Find, Shrinks
  <2> QED BY <2>3, <2>4, ReleaseKeepsOrder
<1>3. CASE Missing(c)
  <2>1. PICK p : p = Disconnect(pool, Target(c).user)
    OBVIOUS
  <2>2. \E us : p = DisconnectAll(pool, us)
    BY <2>1 DEF Disconnect
  <2>3. NoContract(c, TRUE, p) /\ UNCHANGED idVars
    BY <1>3, <2>1 DEF Missing
  <2> QED BY <2>2, <2>3, NoContractKeepsOrder
<1>4. CASE Answer(c)
  <2>1. Shrinks
    BY <1>4 DEF Answer, Shrinks
  <2> QED BY <1>4, <2>1, NoCallReleases, ReleaseKeepsOrder DEF Answer
<1>5. ASSUME NEW b \in BOOLEAN, ConnectFails(c, b) \/ GetNetworkFails(c, b) PROVE OrderInv'
  <2>1. NoContract(c, b, pool) /\ UNCHANGED idVars
    BY <1>5 DEF ConnectFails, GetNetworkFails
  <2> QED BY <2>1, NoContractKeepsOrder
<1> QED BY <1>1, <1>2, <1>3, <1>4, <1>5, HitKeepsOrder, MissKeepsOrder, ConnectKeepsOrder,
           StoreKeepsOrder, CallFailsKeepsOrder
        DEF Request, Refused, Breaks

\* The timer, the identity service and restarts.
LEMMA OthersKeepOrder ==
    ASSUME PoolInv, OrderInv,
           \/ \E u \in Users : GrowIdle(u)
           \/ Prune \/ IdentityService \/ Restart \/ UNCHANGED gatewayVars
    PROVE  OrderInv'
<1>1. CASE \E u \in Users : GrowIdle(u)
  <2>1. PICK u \in Users : GrowIdle(u)
    BY <1>1
  <2>2. pool' = [pool EXCEPT !.idle = @ \cup {u}] /\ u \in Cached(pool)
    BY <2>1 DEF GrowIdle
  <2>3. pool'.entry = pool.entry /\ pool'.order = pool.order /\ pool'.idle = pool.idle \cup {u}
    BY <2>2 DEF PoolInv, TypeInv, IsPool
  <2>4. Cached(pool)' = Cached(pool) /\ Ordered(pool)'
    BY <2>2, <2>3 DEF Cached, Ordered, OrderInv
  <2>5. UNCHANGED <<idVars, call>>
    BY <2>1 DEF GrowIdle
  <2> QED BY <2>4, <2>5 DEF OrderInv, CacheWithinCapacity, Opening, idVars
<1>2. CASE Prune
  <2>1. Shrinks /\ UNCHANGED <<idVars, call>>
    BY <1>2 DEF Prune, Shrinks
  <2>2. Opening' = Opening /\ notices' \subseteq Users
    BY <2>1 DEF Opening, OrderInv, idVars
  <2> QED BY <2>1, <2>2, ShrinksOrdered
<1>3. CASE UNCHANGED gatewayVars
  <2>1. Shrinks /\ UNCHANGED <<idVars, call>>
    BY <1>3 DEF gatewayVars, Shrinks
  <2>2. Opening' = Opening /\ notices' \subseteq Users
    BY <2>1 DEF Opening, OrderInv, idVars
  <2> QED BY <2>1, <2>2, ShrinksOrdered
<1>4. CASE Restart
  <2>1. pool' = EmptyPool /\ Opening' = {} /\ UNCHANGED idVars
    BY <1>4 DEF Restart, Opening, NoCall
  <2>2. Cached(pool)' = {} /\ Ordered(pool)'
    BY <2>1, EmptyPoolOrdered DEF Cached, Ordered
  <2>3. Cardinality(Cached(pool)') = 0
    BY <2>2, FS_EmptySet
  <2>4. CacheWithinCapacity'
    <3>1. Cardinality(Opening') = 0 /\ Cardinality(Calls) \in Nat
      BY <2>1, FS_EmptySet, FewerThanCalls
    <3> QED BY <2>3, <3>1, GatewayCacheAssumption DEF CacheWithinCapacity
  <2> QED BY <2>1, <2>2, <2>4 DEF OrderInv, idVars
<1>5. CASE IdentityService
  <2>1. ASSUME NEW i \in Identities, EnrollIdentity(i) \/ RemoveIdentity(i) PROVE OrderInv'
    <3>1. i.user \in Users
      BY GatewayCacheAssumption DEF Identities, Reader
    <3>2. Shrinks /\ UNCHANGED call /\ notices' \subseteq Users
      BY <2>1, <3>1 DEF EnrollIdentity, RemoveIdentity, Shrinks, OrderInv
    <3>3. Opening' = Opening
      BY <3>2 DEF Opening
    <3> QED BY <3>2, <3>3, ShrinksOrdered
  <2>2. ASSUME NEW e \in enrolling, PutIdentity(e) PROVE OrderInv'
    <3>1. Shrinks /\ UNCHANGED notices
      BY <2>2 DEF PutIdentity, Shrinks
    <3>2. ASSUME NEW c \in Calls PROVE call'[c].at = call[c].at
      <4>1. call[c] \in CallRecords
        BY DEF PoolInv, TypeInv
      <4>2. call'[c] = [call[c] EXCEPT !.absent = @ /\ IdentityOf(Target(c)) # e.id]
        BY <2>2 DEF PutIdentity
      <4> QED BY <4>1, <4>2 DEF CallRecords
    <3>3. Opening' = Opening
      BY <3>2 DEF Opening
    <3> QED BY <3>1, <3>3, ShrinksOrdered DEF OrderInv
  <2>3. ASSUME NEW u \in Users, Invalidate(u) \/ InvalidateDeferred(u) PROVE OrderInv'
    <3>1. Shrinks /\ UNCHANGED call /\ notices' \subseteq Users
      BY <2>3 DEF Invalidate, InvalidateDeferred, Shrinks, Disconnect, OrderInv
    <3>2. Opening' = Opening
      BY <3>1 DEF Opening
    <3> QED BY <3>1, <3>2, ShrinksOrdered
  <2> QED BY <1>5, <2>1, <2>2, <2>3 DEF IdentityService
<1> QED BY <1>1, <1>2, <1>3, <1>4, <1>5

LEMMA OrderInvariant == GatewaySpec => []OrderInv
<1>1. PoolInv /\ OrderInv /\ [GatewayNext]_gatewayVars => OrderInv'
  BY RequestKeepsOrder, OthersKeepOrder DEF GatewayNext
<1> QED BY <1>1, InitOrderInv, PoolInvariant, PTL DEF GatewaySpec

\* Every variable has its type: the order of use lists the cached users once each, and
\* only cached users count as idle.
THEOREM GatewayTypeCorrect == GatewaySpec => []GatewayTypeOK
<1>1. ASSUME PoolInv, OrderInv PROVE GatewayTypeOK
  <2>1. Cached(pool) = ToSet(pool.order) /\ pool.idle \subseteq Cached(pool)
    BY <1>1 DEF OrderInv, Ordered
  <2>2. Len(pool.order) = Cardinality(Cached(pool))
    BY <1>1, OrderedSize DEF OrderInv
  <2>3. ASSUME NEW c \in Calls
        PROVE  /\ call[c].at \in {"none", "find", "found", "connect", "connected", "held"}
               /\ call[c].actor \in Actors \cup {Reader}
               /\ call[c].route \in RouteKinds
               /\ call[c].contract \in Contract \cup {NoEntry}
    BY <1>1 DEF PoolInv, TypeInv, CallRecords
  <2> QED BY <1>1, <2>1, <2>2, <2>3 DEF PoolInv, TypeInv, IsPool, OrderInv, GatewayTypeOK
<1> QED BY <1>1, PoolInvariant, OrderInvariant, PTL

\* However many requests open gateways at once, the cache and what they are opening
\* exceed the capacity by the other requests at most: each makes room for itself, and
\* caches no more than it has opened.
THEOREM CapacityKept == GatewaySpec => []CacheWithinCapacity
<1>1. OrderInv => CacheWithinCapacity
  BY DEF OrderInv
<1> QED BY <1>1, OrderInvariant, PTL
=============================================================================
