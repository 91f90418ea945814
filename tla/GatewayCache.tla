---------------------------- MODULE GatewayCache ----------------------------
(***************************************************************************)
(* The ledger service's pool of Fabric gateways (gateway-manager.js), the  *)
(* requests that use it (ledger-service.js) and the wallets it reads,      *)
(* which the identity service changes (fabric-identity-service.js).        *)
(*                                                                         *)
(* A request looks its user up in the wallet of its role, then takes the   *)
(* cached contract or opens a gateway.  The look-up, the opening and the   *)
(* ledger call are awaited: other requests, the pruning timer and the      *)
(* identity service run in between.  What happens between two awaits is    *)
(* one step.                                                               *)
(***************************************************************************)
EXTENDS Integers, Sequences, FiniteSets, SequencesExt

CONSTANTS
    Users,             \* user names
    ReadIdentity,      \* the identity that reads for others, system-admin-registrar
    Actors,            \* who sends requests: [user, role]
    Calls,             \* requests at one time
    Routes,            \* what a request does without a contract, see below
    Gateways,          \* numbers to tell open gateways apart
    MaxUsers,          \* GATEWAY_CACHE_MAX_USERS
    MaxCert,           \* bound: certificates issued
    ConnectionFaults   \* whether opening a gateway may fail

Roles == {"registrar", "faculty", "department_admin", "student", "system_admin"}

\* Routes differ in what they do when a contract cannot be had or fails: nothing
\* ("own"), read with ReadIdentity when there is no contract ("read"), and also
\* when the ledger refuses it ("all").
RouteKinds == {"own", "read", "all"}

ASSUME GatewayCacheAssumption ==
    /\ ReadIdentity \in Users
    /\ Actors \subseteq [user : Users, role : Roles]
    /\ Routes \subseteq RouteKinds
    /\ Gateways \subseteq Nat
    /\ MaxUsers \in Nat \ {0}
    /\ MaxCert \in Nat
    /\ IsFiniteSet(Calls)
    /\ ConnectionFaults \in BOOLEAN

\* Each organisation has a wallet; all but faculty and chairpersons are the registrar's.
WalletOf(role) ==
    IF role \in {"faculty", "department_admin"} THEN role ELSE "registrar"

Reader == [user |-> ReadIdentity, role |-> "registrar"]

\* The entries wallets may have.
Identities == {[user |-> a.user, msp |-> WalletOf(a.role)] : a \in Actors \cup {Reader}}

IdentityOf(a) == [user |-> a.user, msp |-> WalletOf(a.role)]

NoEntry == [gateway |-> 0, msp |-> "none", cert |-> 0]

\* A contract: the gateway it goes through, and whose certificate it was opened with.
Contract == [gateway : Gateways, msp : {i.msp : i \in Identities}, cert : 1..MaxCert]

VARIABLES
    wallet,     \* certificate of each identity, 0 when there is none
    issued,     \* certificates issued so far
    enrolling,  \* certificates issued and not yet put into the wallet
    notices,    \* users whose gateway the identity service is about to invalidate
    pool,       \* the cache: entry of each user, order of last use, idle users;
                \* and the gateways that are open
    call        \* the requests; crowded is history: while this one was opening a
                \* gateway, another cached one of the same user

idVars == <<wallet, issued, enrolling, notices>>
gatewayVars == <<idVars, pool, call>>

NoCall == [at |-> "none", actor |-> Reader, route |-> "own", fallback |-> FALSE,
           retried |-> FALSE, found |-> FALSE, contract |-> NoEntry, absent |-> FALSE,
           crowded |-> FALSE]

EmptyPool == [entry |-> [u \in Users |-> NoEntry], order |-> <<>>, idle |-> {}, open |-> {}]

Cached(p) == {u \in Users : p.entry[u] # NoEntry}

-----------------------------------------------------------------------------
(* The pool.                                                               *)

\* The users of order who are not among us, in that order.
Without(order, us) ==
    LET kept[n \in 0..Len(order)] ==
            IF n = 0 THEN <<>>
            ELSE IF order[n] \in us THEN kept[n - 1] ELSE Append(kept[n - 1], order[n])
    IN  kept[Len(order)]

\* Mutant of DisconnectAll: the entry stays.
DisconnectAllKeep(p, us) == [p EXCEPT !.open = @ \ {p.entry[u].gateway : u \in us \cap Cached(p)}]

\* Mutant of DisconnectAll: the entry goes and its gateway stays open.
DisconnectAllOpen(p, us) ==
    [p EXCEPT !.entry = [u \in Users |-> IF u \in us THEN NoEntry ELSE @[u]],
              !.order = Without(@, us),
              !.idle = @ \ us]

\* Mutant of DisconnectAll: when it was last used stays.
DisconnectAllIdle(p, us) ==
    [p EXCEPT !.entry = [u \in Users |-> IF u \in us THEN NoEntry ELSE @[u]],
              !.order = Without(@, us),
              !.open = @ \ {p.entry[u].gateway : u \in us \cap Cached(p)}]

\* disconnect, for each of us that is cached.
DisconnectAll(p, us) ==
    [p EXCEPT !.entry = [u \in Users |-> IF u \in us THEN NoEntry ELSE @[u]],
              !.order = Without(@, us),
              !.idle = @ \ us,
              !.open = @ \ {p.entry[u].gateway : u \in us \cap Cached(p)}]

Disconnect(p, u) == DisconnectAll(p, {u})

\* How many entries must go before another may come in.
Excess(p) == Len(p.order) - (MaxUsers - 1)

\* The least recently used go until there is room.
Evict(p) == DisconnectAll(p, {p.order[n] : n \in 1..Excess(p)})

\* The user's contract is c, used just now.  What it replaces is not disconnected.
Keep(p, u, c) ==
    [p EXCEPT !.entry[u] = c,
              !.order = Append(Without(@, {u}), u),
              !.idle = @ \ {u}]

-----------------------------------------------------------------------------
(* Requests.                                                               *)

\* Whom the request acts as.
Target(c) == IF call[c].fallback THEN Reader ELSE call[c].actor

Certificate(a) == wallet[IdentityOf(a)]

MayFallBack(c) == call[c].route # "own" /\ call[c].actor.role # "student"

AsReader(c) ==
    [call[c] EXCEPT !.at = "find", !.fallback = TRUE, !.found = FALSE, !.contract = NoEntry,
                    !.absent = Certificate(Reader) = 0]

Begin(c, a, r) ==
    /\ call[c].at = "none"
    /\ call' = [call EXCEPT ![c] = [NoCall EXCEPT !.at = "find", !.actor = a, !.route = r,
                                                  !.absent = Certificate(a) = 0]]
    /\ UNCHANGED <<idVars, pool>>

\* Mutant of OnLedgerError: a gateway that fails is used again.
OnLedgerErrorIgnored(c, reconnect, p) ==
    /\ pool' = p
    /\ call' = [call EXCEPT ![c] = NoCall]

\* onLedgerError, and the request ends.  The user disconnected is the actor, whoever
\* the request read as.
OnLedgerError(c, reconnect, p) ==
    /\ pool' = IF reconnect THEN Disconnect(p, call[c].actor.user) ELSE p
    /\ call' = [call EXCEPT ![c] = NoCall]

\* contractForUser throws.
NoContract(c, reconnect, p) ==
    \/ /\ MayFallBack(c) /\ ~call[c].fallback
       /\ pool' = p
       /\ call' = [call EXCEPT ![c] = AsReader(c)]
    \/ /\ ~MayFallBack(c) \/ call[c].fallback
       /\ OnLedgerError(c, reconnect, p)

\* The wallet is read.
Find(c) ==
    /\ call[c].at = "find"
    /\ call' = [call EXCEPT ![c].at = "found", ![c].found = Certificate(Target(c)) # 0]
    /\ UNCHANGED <<idVars, pool>>

\* There was no certificate; the error says "Access Denied", so the gateway goes.
Missing(c) ==
    /\ call[c].at = "found" /\ ~call[c].found
    /\ NoContract(c, TRUE, Disconnect(pool, Target(c).user))
    /\ UNCHANGED idVars

\* Mutant of Reusable: the organisation is not compared.
ReusableByName(a) == a.user \in Cached(pool) \ pool.idle

\* The user's cached contract is of the right organisation and not idle.
Reusable(a) ==
    /\ a.user \in Cached(pool) \ pool.idle
    /\ pool.entry[a.user].msp = WalletOf(a.role)

\* Mutant of Hit: the cache comes before the wallet.
HitFirst(c) ==
    LET a == Target(c)
    IN  /\ call[c].at = "found"
        /\ Reusable(a)
        /\ pool' = Keep(pool, a.user, pool.entry[a.user])
        /\ call' = [call EXCEPT ![c].at = "held", ![c].contract = pool.entry[a.user],
                                ![c].found = FALSE]
        /\ UNCHANGED idVars

Hit(c) ==
    LET a == Target(c)
    IN  /\ call[c].at = "found" /\ call[c].found
        /\ Reusable(a)
        /\ pool' = Keep(pool, a.user, pool.entry[a.user])
        /\ call' = [call EXCEPT ![c].at = "held", ![c].contract = pool.entry[a.user],
                                ![c].found = FALSE]
        /\ UNCHANGED idVars

Opening == {c \in Calls : call[c].at \in {"connect", "connected"}}

\* There is nothing to reuse: what the user has is disconnected and room is made.
Miss(c) ==
    /\ call[c].at = "found" /\ call[c].found
    /\ ~Reusable(Target(c))
    /\ pool' = Evict(Disconnect(pool, Target(c).user))
    /\ call' = [call EXCEPT ![c].at = "connect", ![c].found = FALSE, ![c].crowded = FALSE]
    /\ UNCHANGED idVars

FreeGateways ==
    Gateways \ (pool.open \cup {call[c].contract.gateway : c \in Calls})

\* The gateway reads the wallet once more and connects.
Connect(c) ==
    LET a == Target(c)
        g == CHOOSE n \in FreeGateways : TRUE
    IN  /\ call[c].at = "connect"
        /\ Certificate(a) # 0
        /\ FreeGateways # {}
        /\ pool' = [pool EXCEPT !.open = @ \cup {g}]
        /\ call' = [call EXCEPT ![c].at = "connected",
                        ![c].contract = [gateway |-> g, msp |-> WalletOf(a.role),
                                         cert |-> Certificate(a)]]
        /\ UNCHANGED idVars

\* It cannot connect, in particular when the certificate is gone.
ConnectFails(c, reconnect) ==
    /\ call[c].at = "connect"
    /\ ConnectionFaults \/ Certificate(Target(c)) = 0
    /\ NoContract(c, reconnect, pool)
    /\ UNCHANGED idVars

\* It connects but the channel cannot be had: nobody disconnects it.
GetNetworkFails(c, reconnect) ==
    /\ call[c].at = "connected"
    /\ ConnectionFaults
    /\ NoContract(c, reconnect, pool)
    /\ UNCHANGED idVars

\* The other requests that are opening a gateway of this user.
Rivals(c) == {d \in Opening \ {c} : Target(d).user = Target(c).user}

\* The new contract is cached, over one that a rival has cached meanwhile.
Store(c) ==
    /\ call[c].at = "connected"
    /\ pool' = Keep(pool, Target(c).user, call[c].contract)
    /\ call' = [d \in Calls |->
                  IF d = c THEN [call[c] EXCEPT !.at = "held", !.crowded = FALSE]
                  ELSE [call[d] EXCEPT !.crowded = @ \/ d \in Rivals(c)]]
    /\ UNCHANGED idVars

Answer(c) ==
    /\ call[c].at = "held"
    /\ call' = [call EXCEPT ![c] = NoCall]
    /\ UNCHANGED <<idVars, pool>>

\* The ledger call fails, with an error that shouldReconnect recognises or not.
CallFails(c, reconnect) ==
    /\ call[c].at = "held"
    /\ \/ /\ reconnect /\ call[c].route = "all" /\ MayFallBack(c) /\ ~call[c].retried
          /\ pool' = Disconnect(pool, call[c].actor.user)
          /\ call' = [call EXCEPT ![c] = [AsReader(c) EXCEPT !.retried = TRUE]]
       \/ /\ ~reconnect \/ call[c].route # "all" \/ ~MayFallBack(c) \/ call[c].retried
          /\ OnLedgerError(c, reconnect, pool)
    /\ UNCHANGED idVars

\* The certificate is not the one in the wallet: removed, revoked or replaced.
Retired(c) == call[c].contract.cert # Certificate(Target(c))

\* A peer refuses a retired certificate ("access denied", "creator is malformed").
Refused(c) == Retired(c) /\ CallFails(c, TRUE)

\* Any other failure, such as one of the contract or of a gateway disconnected meanwhile.
Breaks(c) == \E reconnect \in BOOLEAN : CallFails(c, reconnect)

-----------------------------------------------------------------------------
(* The timer, the identity service and restarts.                           *)

\* u has not been used for GATEWAY_IDLE_TIMEOUT_MS; those used before u neither.
GrowIdle(u) ==
    /\ u \in Cached(pool) \ pool.idle
    /\ \E n \in DOMAIN pool.order :
          /\ pool.order[n] = u
          /\ \A m \in 1..(n - 1) : pool.order[m] \in pool.idle
    /\ pool' = [pool EXCEPT !.idle = @ \cup {u}]
    /\ UNCHANGED <<idVars, call>>

Prune ==
    /\ pool.idle # {}
    /\ pool' = DisconnectAll(pool, pool.idle)
    /\ UNCHANGED <<idVars, call>>

\* ensureIdentity finds no certificate and enrolls one ...
EnrollIdentity(i) ==
    /\ wallet[i] = 0
    /\ issued < MaxCert
    /\ issued' = issued + 1
    /\ enrolling' = enrolling \cup {[id |-> i, cert |-> issued + 1]}
    /\ UNCHANGED <<wallet, notices, pool, call>>

\* ... which goes into the wallet, over one that another request put there meanwhile.
PutIdentity(e) ==
    /\ e \in enrolling
    /\ wallet' = [wallet EXCEPT ![e.id] = e.cert]
    /\ enrolling' = enrolling \ {e}
    /\ call' = [c \in Calls |-> [call[c] EXCEPT !.absent = @ /\ IdentityOf(Target(c)) # e.id]]
    /\ UNCHANGED <<issued, notices, pool>>

\* A revocation or a deletion takes the certificate out of the wallet ...
RemoveIdentity(i) ==
    /\ wallet[i] # 0
    /\ wallet' = [wallet EXCEPT ![i] = 0]
    /\ notices' = notices \cup {i.user}
    /\ UNCHANGED <<issued, enrolling, pool, call>>

\* ... and tells the ledger service, which disconnects the user ...
Invalidate(u) ==
    /\ u \in notices
    /\ notices' = notices \ {u}
    /\ pool' = Disconnect(pool, u)
    /\ UNCHANGED <<wallet, issued, enrolling, call>>

\* ... unless it cannot be reached, or another replica gets the message.
InvalidateDeferred(u) ==
    /\ u \in notices
    /\ notices' = notices \ {u}
    /\ UNCHANGED <<wallet, issued, enrolling, pool, call>>

\* The ledger service ends, after closeGateways or not, and starts anew.
Restart ==
    /\ pool' = EmptyPool
    /\ call' = [c \in Calls |-> NoCall]
    /\ UNCHANGED idVars

-----------------------------------------------------------------------------
GatewayInit ==
    /\ wallet = [i \in Identities |-> 0]
    /\ issued = 0
    /\ enrolling = {}
    /\ notices = {}
    /\ pool = EmptyPool
    /\ call = [c \in Calls |-> NoCall]

Request(c) ==
    \/ \E a \in Actors, r \in Routes : Begin(c, a, r)
    \/ Find(c)
    \/ Missing(c)
    \/ Hit(c)
    \/ Miss(c)
    \/ Connect(c)
    \/ \E reconnect \in BOOLEAN : ConnectFails(c, reconnect)
    \/ \E reconnect \in BOOLEAN : GetNetworkFails(c, reconnect)
    \/ Store(c)
    \/ Answer(c)
    \/ Refused(c)
    \/ Breaks(c)

IdentityService ==
    \/ \E i \in Identities : EnrollIdentity(i) \/ RemoveIdentity(i)
    \/ \E e \in enrolling : PutIdentity(e)
    \/ \E u \in Users : Invalidate(u) \/ InvalidateDeferred(u)

GatewayNext ==
    \/ \E c \in Calls : Request(c)
    \/ \E u \in Users : GrowIdle(u)
    \/ Prune
    \/ IdentityService
    \/ Restart

GatewaySpec == GatewayInit /\ [][GatewayNext]_gatewayVars

-----------------------------------------------------------------------------
(* Properties.                                                             *)

\* Every variable has its type; order lists the cached users once each.
GatewayTypeOK ==
    /\ wallet \in [Identities -> 0..issued]
    /\ issued \in 0..MaxCert
    /\ enrolling \subseteq [id : Identities, cert : 1..issued]
    /\ notices \subseteq Users
    /\ pool.entry \in [Users -> Contract \cup {NoEntry}]
    /\ Cached(pool) = ToSet(pool.order)
    /\ Len(pool.order) = Cardinality(Cached(pool))
    /\ pool.idle \subseteq Cached(pool)
    /\ pool.open \subseteq Gateways
    /\ \A c \in Calls :
        /\ call[c].at \in {"none", "find", "found", "connect", "connected", "held"}
        /\ call[c].actor \in Actors \cup {Reader}
        /\ call[c].route \in RouteKinds
        /\ call[c].contract \in Contract \cup {NoEntry}

\* What the cache holds is connected: whoever disconnects a gateway (pruning, eviction,
\* a failure, the identity service) also takes it out, and nobody puts back one that
\* was disconnected while it was opened.
CachedAreConnected == \A u \in Cached(pool) : pool.entry[u].gateway \in pool.open

\* Users with certificates of two organisations, and a reader standing in, never
\* sign with another role's certificate.
ContractFitsRole ==
    \A c \in Calls :
        call[c].at = "held" => call[c].contract.msp = WalletOf(Target(c).role)

\* A removed user is cut off even if the invalidation is lost: a request that began
\* when the wallet had no certificate, and none was put since, gets no contract.
RemovedGetsNothing == \A c \in Calls : call[c].at = "held" => ~call[c].absent

\* Each request makes room before it awaits the connection, and those that await one
\* at the same time make it all the same: the cache exceeds its capacity, but only by
\* the requests that overlap, and the next one alone brings it back.
CacheWithinCapacity ==
    Cardinality(Cached(pool)) + Cardinality(Opening) <= MaxUsers + Cardinality(Calls) - 1

\* Gateways that are open, not cached and not about to be: nothing disconnects them.
Astray ==
    pool.open \ ({pool.entry[u].gateway : u \in Cached(pool)}
                  \cup {call[c].contract.gateway : c \in {d \in Calls : call[d].at = "connected"}})

\* A gateway is lost in two ways only: its own channel cannot be had, or it is replaced
\* in the cache by a request that was opening another one for the same user all along.
\* No eviction, pruning, failure, removal or reconnection of a user leaves one behind.
NoGatewayLeaks ==
    [][\A g \in Astray' \ Astray :
          \E c \in Calls :
             \/ /\ \E reconnect \in BOOLEAN : GetNetworkFails(c, reconnect)
                /\ g = call[c].contract.gateway
             \/ /\ Store(c) /\ call[c].crowded
                /\ g = pool.entry[Target(c).user].gateway]_gatewayVars

\* Once certificates no longer change, a retired one that the cache still has is
\* refused a last time: the failure takes it out of the cache.  (Not so for the
\* contracts of a stand-in reader, whose failures disconnect the actor.)
RefusalsEnd ==
    <>[][\A c \in Calls : (Refused(c) /\ ~call[c].fallback) => FALSE]_gatewayVars
=============================================================================
