------------------------------ MODULE Accounts ------------------------------
(***************************************************************************)
(* The registrars' accounts: rows of users, written by system              *)
(* administrators (AccountProvisioningService.cs) and by the bootstrap job *)
(* of a deployment (auth-service.js), and the Fabric identities that       *)
(* belong to them, kept in a wallet by the identity service.               *)
(*                                                                         *)
(* A request registers the identity of an address before it commits the    *)
(* row, and strips addresses of theirs after it has.  Each of these is a   *)
(* call of another service that can fail, or be cut short by a crash.      *)
(*                                                                         *)
(* Passwords, profiles, audit events and the older registration route,     *)
(* which no page calls for a registrar, are left out.                      *)
(***************************************************************************)
EXTENDS Naturals, Sequences, FiniteSets

CONSTANTS
    UserIds,                   \* the rows there can be
    Emails,
    Desks,                     \* who is served at a time
    MaximumRegistrarAccounts,
    MaxRequests                \* bound: requests begun

ASSUME AccountsAssumption ==
    /\ IsFiniteSet(UserIds)
    /\ "none" \notin Emails      \* the address of who is no user
    /\ MaximumRegistrarAccounts \in Nat
    /\ MaxRequests \in Nat

NoUser == [role |-> "none", email |-> "none", active |-> FALSE]
UserRows == [role : {"registrar", "deleted_registrar"}, email : Emails, active : BOOLEAN] \cup {NoUser}

NoRequest == [kind |-> "none"]

VARIABLES
    users,
    identities,    \* the addresses with an identity in the wallet
    request,       \* what each desk is working on
    capacityLock,  \* the desks that hold the advisory lock: one or none
    bootstrapped,  \* registrars the bootstrap job has added
    unsure,        \* addresses two requests were about at a time, or one that failed
    begun

accountsVars == <<users, identities, request, capacityLock, bootstrapped, unsure, begun>>

Registrars == {i \in UserIds : users[i].role = "registrar"}
Holders(e) == {i \in UserIds : users[i].email = e}
Working == {d \in Desks : request[d] # NoRequest}
About(r) == {r.old, r.email} \cap Emails

-----------------------------------------------------------------------------
(* A request and its transaction.                                          *)

\* A request takes its turn: kind, the row it is about, the row's address and the
\* address it is to have, whether it is active and is to be; the addresses to register
\* and, later, to strip.
Take(d, r) ==
    /\ request[d] = NoRequest
    /\ begun < MaxRequests
    /\ begun' = begun + 1
    /\ request' = [request EXCEPT ![d] = r]
    /\ unsure' = unsure \cup UNION {About(request[q]) \cap About(r) : q \in Working}

\* The transaction is over, and with it its locks.
Unlock(d) == capacityLock' = capacityLock \ {d}

RowLocked(i) == \E d \in Working : request[d].id = i /\ request[d].open

\* Mutant of CapacityFree: the lock is not waited for.
CapacityFreeAlways == TRUE

\* pg_advisory_xact_lock(RegistrarCapacityLockId)
CapacityFree == capacityLock = {}

\* EnsureRegistrarCapacityAsync, EnsureUniqueAccountAsync.
CreateRegistrar(d, e) ==
    /\ CapacityFree
    /\ Cardinality(Registrars) < MaximumRegistrarAccounts
    /\ Holders(e) = {}
    /\ Take(d, [kind |-> "create", open |-> TRUE, id |-> 0, old |-> "none", email |-> e,
                active |-> TRUE, register |-> TRUE, strip |-> <<>>])
    /\ capacityLock' = capacityLock \cup {d}
    /\ UNCHANGED <<users, identities, bootstrapped>>

\* Mutant of Strips: only who was active loses the wallet.
StripsActive(u, e, active) ==
    (IF e # u.email THEN <<u.email>> ELSE <<>>)
        \o (IF ~active /\ u.active THEN <<e>> ELSE <<>>)

\* What an update takes away after its commit: the identity of the address given up,
\* the wallet of who is deactivated, or renamed while being so.
Strips(u, e, active) ==
    (IF e # u.email THEN <<u.email>> ELSE <<>>)
        \o (IF ~active /\ (u.active \/ e # u.email) THEN <<e>> ELSE <<>>)

\* GetRegistrarForUpdateAsync, EnsureEmailAvailableAsync.  The identity is for a new
\* address, or to have it back when the account is restored.
UpdateRegistrar(d, i, e, active) ==
    LET u == users[i]
    IN  /\ u.role = "registrar" /\ ~RowLocked(i)
        /\ e = u.email \/ Holders(e) = {}
        /\ e # u.email \/ active # u.active
        /\ Take(d, [kind |-> "update", open |-> TRUE, id |-> i, old |-> u.email, email |-> e,
                    active |-> active, register |-> e # u.email \/ active,
                    strip |-> Strips(u, e, active)])
        /\ UNCHANGED <<users, identities, capacityLock, bootstrapped>>

DeleteRegistrar(d, i) ==
    LET u == users[i]
    IN  /\ CapacityFree
        /\ u.role = "registrar" /\ ~RowLocked(i)
        /\ Take(d, [kind |-> "delete", open |-> TRUE, id |-> i, old |-> u.email, email |-> u.email,
                    active |-> FALSE, register |-> FALSE, strip |-> <<u.email, u.email>>])
        /\ capacityLock' = capacityLock \cup {d}
        /\ UNCHANGED <<users, identities, bootstrapped>>

\* A request with no transaction of its own is left to register an identity.
Ensure(d, i) ==
    Take(d, [kind |-> "ensure", open |-> FALSE, id |-> i, old |-> "none", email |-> users'[i].email,
             active |-> TRUE, register |-> TRUE, strip |-> <<>>])

\* Whoever logs in is given an identity, and so is the bootstrap job's registrar.
Login(d, i) ==
    /\ users[i].role = "registrar" /\ users[i].active
    /\ UNCHANGED <<users, identities, capacityLock, bootstrapped>>
    /\ Ensure(d, i)

\* The job adds its registrar where the address is not in use, without the lock.
Bootstrap(d, i, e) ==
    /\ Holders(e) = {} /\ users[i] = NoUser
    /\ users' = [users EXCEPT ![i] = [role |-> "registrar", email |-> e, active |-> TRUE]]
    /\ bootstrapped' = bootstrapped + 1
    /\ UNCHANGED <<identities, capacityLock>>
    /\ Ensure(d, i)

-----------------------------------------------------------------------------
(* The steps of a request.                                                 *)

\* RegisterFabricIdentityAsync; a login has no more to do.
Register(d) ==
    /\ request[d].kind # "none" /\ request[d].register
    /\ identities' = identities \cup {request[d].email}
    /\ request' = [request EXCEPT ![d] =
                       IF @.kind = "ensure" THEN NoRequest ELSE [@ EXCEPT !.register = FALSE]]
    /\ UNCHANGED <<users, capacityLock, bootstrapped, unsure, begun>>

Row(r) == [role |-> IF r.kind = "delete" THEN "deleted_registrar" ELSE "registrar",
           email |-> r.email, active |-> r.active]

\* The INSERT or UPDATE, which the unique index on the address allows, and the COMMIT.
CommitRow(d) ==
    LET r == request[d]
    IN  /\ r.kind \in {"create", "update", "delete"} /\ r.open /\ ~r.register
        /\ \E i \in UserIds :
              /\ IF r.kind = "create" THEN users[i] = NoUser ELSE i = r.id
              /\ Holders(r.email) \subseteq {i}
              /\ users' = [users EXCEPT ![i] = Row(r)]
        /\ request' = [request EXCEPT ![d] = IF r.strip = <<>> THEN NoRequest
                                             ELSE [r EXCEPT !.open = FALSE]]
        /\ Unlock(d)
        /\ UNCHANGED <<identities, bootstrapped, unsure, begun>>

\* TryRevokeFabricIdentityAsync, TryRemoveFabricWalletAsync: a failure is a warning only.
Strip(d) ==
    LET r == request[d]
    IN  /\ r.kind # "none" /\ ~r.open /\ r.strip # <<>>
        /\ \/ identities' = identities \ {Head(r.strip)} /\ UNCHANGED unsure
           \/ unsure' = unsure \cup {Head(r.strip)} /\ UNCHANGED identities
        /\ request' = [request EXCEPT ![d] = IF Len(r.strip) = 1 THEN NoRequest
                                             ELSE [r EXCEPT !.strip = Tail(r.strip)]]
        /\ UNCHANGED <<users, capacityLock, bootstrapped, begun>>

\* A call fails, its effect had or not, the address is taken by now, or the process
\* dies: the transaction is rolled back, and what was to follow it does not.
FailRequest(d) ==
    /\ request[d] # NoRequest
    /\ identities' \in {identities} \cup
                       (IF request[d].register THEN {identities \cup {request[d].email}} ELSE {})
    /\ unsure' = unsure \cup About(request[d])
    /\ request' = [request EXCEPT ![d] = NoRequest]
    /\ Unlock(d)
    /\ UNCHANGED <<users, bootstrapped, begun>>

-----------------------------------------------------------------------------
AccountsInit ==
    /\ users = [i \in UserIds |-> NoUser]
    /\ identities = {}
    /\ request = [d \in Desks |-> NoRequest]
    /\ capacityLock = {}
    /\ bootstrapped = 0
    /\ unsure = {}
    /\ begun = 0

Served(d) ==
    \/ \E e \in Emails : CreateRegistrar(d, e)
    \/ \E i \in UserIds, e \in Emails, active \in BOOLEAN : UpdateRegistrar(d, i, e, active)
    \/ \E i \in UserIds : DeleteRegistrar(d, i) \/ Login(d, i)
    \/ \E i \in UserIds, e \in Emails : Bootstrap(d, i, e)
    \/ Register(d) \/ CommitRow(d) \/ Strip(d) \/ FailRequest(d)

AccountsNext == \E d \in Desks : Served(d)

AccountsSpec == AccountsInit /\ [][AccountsNext]_accountsVars

-----------------------------------------------------------------------------
(* Properties.                                                             *)

\* "Only 2 Registrar accounts are allowed": there are never more, apart from those the
\* bootstrap job adds, although a registrar is counted long before it is inserted.
RegistrarsWithinLimit == Cardinality(Registrars) <= MaximumRegistrarAccounts + bootstrapped

\* An address has an identity exactly when it belongs to an active registrar, whatever
\* the order of creations, renamings, deactivations, restorations, deletions, logins and
\* bootstraps; except for addresses two requests were about at a time, or one that failed.
WalletsFollowAccounts ==
    \A e \in Emails \ unsure :
        (\A d \in Working : e \notin About(request[d])) =>
            (e \in identities <=> \E i \in Registrars : users[i].email = e /\ users[i].active)
=============================================================================
