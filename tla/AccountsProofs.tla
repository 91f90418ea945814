--------------------------- MODULE AccountsProofs ---------------------------
(* The registrars' limit and identities, for any rows, addresses and desks. *)
EXTENDS Accounts, FiniteSetTheorems, SequenceTheorems, TLAPS

Request ==
    [kind : {"create", "update", "delete", "ensure"}, open : BOOLEAN, id : UserIds \cup {0},
     old : Emails \cup {"none"}, email : Emails, active : BOOLEAN, register : BOOLEAN,
     strip : Seq(Emails)]

AccountsTypeOK ==
    /\ users \in [UserIds -> UserRows]
    /\ request \in [Desks -> Request \cup {NoRequest}]
    /\ capacityLock \subseteq Desks
    /\ bootstrapped \in Nat

Creates(d) == request[d].kind = "create"

\* A request that has a row locked.
Claims(d) == request[d].kind \in {"update", "delete"} /\ request[d].open

\* One desk has the lock, and whoever creates a registrar has it to the end.
LockHeld ==
    /\ \A c, d \in capacityLock : c = d
    /\ \A d \in Desks : Creates(d) => d \in capacityLock /\ request[d].strip = <<>>

\* A locked row is a registrar's, and locked once.
RowsClaimed ==
    \A d \in Desks : Claims(d) =>
        /\ request[d].id \in UserIds
        /\ users[request[d].id].role = "registrar"
        /\ \A c \in Desks \ {d} : Claims(c) => request[c].id # request[d].id

\* While a registrar is created there is room for one.
RoomLeft ==
    \A d \in Desks : Creates(d) => Cardinality(Registrars) < MaximumRegistrarAccounts + bootstrapped

IInv == AccountsTypeOK /\ LockHeld /\ RowsClaimed /\ RegistrarsWithinLimit /\ RoomLeft

-----------------------------------------------------------------------------
(* Counting.                                                               *)

LEMMA RegistrarsFinite ==
    /\ IsFiniteSet(Registrars)
    /\ Cardinality(Registrars) \in Nat
<1>1. Registrars \subseteq UserIds BY DEF Registrars
<1>2. IsFiniteSet(Registrars) BY <1>1, FS_Subset, AccountsAssumption
<1> QED BY <1>2, FS_CardinalityType

\* A row that becomes a registrar's adds one.
LEMMA OneMore ==
    ASSUME users \in [UserIds -> UserRows], NEW i \in UserIds, users[i] = NoUser,
           NEW u \in UserRows, u.role = "registrar", users' = [users EXCEPT ![i] = u]
    PROVE  Cardinality(Registrars') = Cardinality(Registrars) + 1
<1>1. i \notin Registrars BY DEF Registrars, NoUser
<1>2. Registrars' = Registrars \cup {i} BY DEF Registrars
<1> QED BY <1>1, <1>2, FS_AddElement, RegistrarsFinite

\* A row that is a registrar's, changed in whatever way, adds none.
LEMMA NoMore ==
    ASSUME users \in [UserIds -> UserRows], NEW i \in UserIds, users[i].role = "registrar",
           NEW u \in UserRows, users' = [users EXCEPT ![i] = u]
    PROVE  /\ Cardinality(Registrars') <= Cardinality(Registrars)
           /\ Cardinality(Registrars') \in Nat
<1>1. Registrars' \subseteq Registrars BY DEF Registrars
<1> QED BY <1>1, FS_Subset, FS_CardinalityType, RegistrarsFinite

-----------------------------------------------------------------------------
LEMMA InitIInv == AccountsInit => IInv
<1> SUFFICES ASSUME AccountsInit PROVE IInv OBVIOUS
<1> USE DEF AccountsInit, NoRequest
<1>1. AccountsTypeOK BY DEF AccountsTypeOK, UserRows, NoUser
<1>2. LockHeld BY DEF LockHeld, Creates
<1>3. RowsClaimed BY DEF RowsClaimed, Claims
<1>4. Registrars = {} BY DEF Registrars, NoUser
<1>5. RegistrarsWithinLimit
  BY <1>4, FS_EmptySet, AccountsAssumption DEF RegistrarsWithinLimit
<1>6. RoomLeft BY DEF RoomLeft, Creates
<1> QED BY <1>1, <1>2, <1>3, <1>5, <1>6 DEF IInv

\* A desk takes a request that creates nothing, or one that finds room and holds the lock.
LEMMA TakePreserves ==
    ASSUME IInv, NEW d \in Desks, NEW r \in Request, Take(d, r), users' = users,
           bootstrapped' = bootstrapped,
           \/ capacityLock' = capacityLock /\ r.kind # "create"
           \/ capacityLock = {} /\ capacityLock' = {d},
           r.kind = "create" =>
               r.strip = <<>> /\ Cardinality(Registrars) < MaximumRegistrarAccounts,
           r.kind \in {"update", "delete"} /\ r.open =>
               r.id \in UserIds /\ users[r.id].role = "registrar" /\ ~RowLocked(r.id)
    PROVE  IInv'
<1> USE DEF IInv
<1>1. request' = [request EXCEPT ![d] = r] /\ request[d] = NoRequest
  BY DEF Take
<1>2. AccountsTypeOK' BY <1>1 DEF AccountsTypeOK
<1>3. LockHeld' BY <1>1 DEF AccountsTypeOK, LockHeld, Creates, NoRequest
<1>4. \A c \in Desks : c # d /\ Claims(c) /\ r.kind \in {"update", "delete"} /\ r.open => request[c].id # r.id
  BY DEF RowLocked, Working, Claims, NoRequest
<1>5. RowsClaimed' BY <1>1, <1>4 DEF AccountsTypeOK, RowsClaimed, Claims
<1>6. Registrars' = Registrars BY DEF Registrars
<1>7. RegistrarsWithinLimit' BY <1>6 DEF RegistrarsWithinLimit
<1>8. RoomLeft'
  <2> SUFFICES ASSUME NEW c \in Desks, Creates(c)'
               PROVE  Cardinality(Registrars) < MaximumRegistrarAccounts + bootstrapped
    BY <1>6 DEF RoomLeft
  <2>1. CASE c = d
    BY <2>1, <1>1, RegistrarsFinite, AccountsAssumption DEF AccountsTypeOK, Creates
  <2>2. CASE c # d
    BY <2>2, <1>1 DEF AccountsTypeOK, Creates, RoomLeft
  <2> QED BY <2>1, <2>2
<1> QED BY <1>2, <1>3, <1>5, <1>7, <1>8

-----------------------------------------------------------------------------
(* The actions.                                                            *)

LEMMA CreatePreserves ==
    ASSUME IInv, NEW d \in Desks, NEW e \in Emails, CreateRegistrar(d, e)
    PROVE  IInv'
<1> DEFINE r == [kind |-> "create", open |-> TRUE, id |-> 0, old |-> "none", email |-> e,
                 active |-> TRUE, register |-> TRUE, strip |-> <<>>]
<1>1. r \in Request BY DEF Request
<1>2. capacityLock' = {d} BY DEF CreateRegistrar, CapacityFree
<1> QED
  BY <1>1, <1>2, TakePreserves DEF CreateRegistrar, CapacityFree

LEMMA UpdatePreserves ==
    ASSUME IInv, NEW d \in Desks, NEW i \in UserIds, NEW e \in Emails, NEW active \in BOOLEAN,
           UpdateRegistrar(d, i, e, active)
    PROVE  IInv'
<1> DEFINE u == users[i]
           r == [kind |-> "update", open |-> TRUE, id |-> i, old |-> u.email, email |-> e,
                 active |-> active, register |-> e # u.email \/ active,
                 strip |-> Strips(u, e, active)]
<1>1. u.role = "registrar" /\ u.email \in Emails
  BY DEF IInv, AccountsTypeOK, UserRows, NoUser, UpdateRegistrar
<1>2. Strips(u, e, active) \in Seq(Emails) BY <1>1 DEF Strips
<1>3. r \in Request BY <1>1, <1>2 DEF Request
<1> HIDE DEF r
<1>4. r.kind = "update" /\ r.id = i BY DEF r
<1>5. Take(d, r) BY DEF UpdateRegistrar, r
<1> QED BY <1>1, <1>3, <1>4, <1>5, TakePreserves DEF UpdateRegistrar

LEMMA DeletePreserves ==
    ASSUME IInv, NEW d \in Desks, NEW i \in UserIds, DeleteRegistrar(d, i)
    PROVE  IInv'
<1> DEFINE u == users[i]
           r == [kind |-> "delete", open |-> TRUE, id |-> i, old |-> u.email, email |-> u.email,
                 active |-> FALSE, register |-> FALSE, strip |-> <<u.email, u.email>>]
<1>1. u.role = "registrar" /\ u.email \in Emails
  BY DEF IInv, AccountsTypeOK, UserRows, NoUser, DeleteRegistrar
<1>2. r \in Request BY <1>1 DEF Request
<1> HIDE DEF r
<1>3. r.kind = "delete" /\ r.id = i BY DEF r
<1>4. Take(d, r) BY DEF DeleteRegistrar, r
<1>5. capacityLock = {} /\ capacityLock' = {d} BY DEF DeleteRegistrar, CapacityFree
<1> QED BY <1>1, <1>2, <1>3, <1>4, <1>5, TakePreserves DEF DeleteRegistrar

LEMMA LoginPreserves ==
    ASSUME IInv, NEW d \in Desks, NEW i \in UserIds, Login(d, i)
    PROVE  IInv'
<1> DEFINE r == [kind |-> "ensure", open |-> FALSE, id |-> i, old |-> "none",
                 email |-> users[i].email, active |-> TRUE, register |-> TRUE, strip |-> <<>>]
<1>1. users[i].email \in Emails
  BY DEF IInv, AccountsTypeOK, UserRows, NoUser, Login
<1>2. r \in Request BY <1>1 DEF Request
<1>3. users' = users /\ capacityLock' = capacityLock /\ bootstrapped' = bootstrapped
  BY DEF Login
<1>4. Take(d, r) BY <1>3 DEF Login, Ensure
<1> HIDE DEF r
<1>5. r.kind = "ensure" BY DEF r
<1> QED BY <1>2, <1>3, <1>4, <1>5, TakePreserves

\* One registrar more, and one more that is not counted.
LEMMA BootstrapPreserves ==
    ASSUME IInv, NEW d \in Desks, NEW i \in UserIds, NEW e \in Emails, Bootstrap(d, i, e)
    PROVE  IInv'
<1> USE DEF IInv
<1> DEFINE u == [role |-> "registrar", email |-> e, active |-> TRUE]
           r == [kind |-> "ensure", open |-> FALSE, id |-> i, old |-> "none",
                 email |-> users'[i].email, active |-> TRUE, register |-> TRUE, strip |-> <<>>]
<1>1. /\ users[i] = NoUser
      /\ users' = [users EXCEPT ![i] = u]
      /\ bootstrapped' = bootstrapped + 1
      /\ capacityLock' = capacityLock
      /\ request[d] = NoRequest
      /\ request' = [request EXCEPT ![d] = r]
  BY DEF Bootstrap, Ensure, Take
<1>2. u \in UserRows BY DEF UserRows
<1>3. r \in Request BY <1>1 DEF Request, AccountsTypeOK
<1>4. r.kind = "ensure" OBVIOUS
<1> HIDE DEF u, r
<1>5. AccountsTypeOK' BY <1>1, <1>2, <1>3 DEF AccountsTypeOK
<1>6. LockHeld' BY <1>1, <1>4 DEF LockHeld, Creates, AccountsTypeOK
<1>7. RowsClaimed'
  BY <1>1, <1>4 DEF RowsClaimed, Claims, AccountsTypeOK, NoUser
<1>8. Cardinality(Registrars') = Cardinality(Registrars) + 1
  BY <1>1, <1>2, OneMore DEF AccountsTypeOK, u
<1>9. RegistrarsWithinLimit'
  BY <1>1, <1>8, RegistrarsFinite, AccountsAssumption DEF RegistrarsWithinLimit, AccountsTypeOK
<1>10. RoomLeft'
  <2>1. \A c \in Desks : Creates(c)' => Creates(c)
    BY <1>1, <1>4 DEF Creates, AccountsTypeOK
  <2> QED
    BY <2>1, <1>1, <1>8, RegistrarsFinite, AccountsAssumption DEF RoomLeft, AccountsTypeOK
<1> QED BY <1>5, <1>6, <1>7, <1>9, <1>10

\* A desk goes on with its request, or is done with it; the rows stay as they are.
LEMMA GoOnPreserves ==
    ASSUME IInv, NEW d \in Desks, NEW r \in Request \cup {NoRequest},
           request' = [request EXCEPT ![d] = r],
           users' = users, bootstrapped' = bootstrapped,
           \/ capacityLock' = capacityLock
           \/ capacityLock' = capacityLock \ {d} /\ r = NoRequest,
           \/ r = NoRequest
           \/ /\ r.kind = request[d].kind /\ (r.open => request[d].open) /\ r.id = request[d].id
              /\ r.kind = "create" => r.strip = <<>>
    PROVE  IInv'
<1> USE DEF IInv
<1>1. AccountsTypeOK' BY DEF AccountsTypeOK
<1>2. LockHeld' BY DEF AccountsTypeOK, LockHeld, Creates, NoRequest
<1>3. RowsClaimed' BY DEF AccountsTypeOK, RowsClaimed, Claims, NoRequest
<1>4. Registrars' = Registrars BY DEF Registrars
<1>5. RegistrarsWithinLimit' BY <1>4 DEF RegistrarsWithinLimit
<1>6. RoomLeft' BY <1>4 DEF AccountsTypeOK, RoomLeft, Creates, NoRequest
<1> QED BY <1>1, <1>2, <1>3, <1>5, <1>6

LEMMA RegisterPreserves ==
    ASSUME IInv, NEW d \in Desks, Register(d)
    PROVE  IInv'
<1> DEFINE r == IF request[d].kind = "ensure" THEN NoRequest
                ELSE [request[d] EXCEPT !.register = FALSE]
<1>1. request[d] \in Request BY DEF IInv, AccountsTypeOK, Register, NoRequest
<1>2. r \in Request \cup {NoRequest} BY <1>1 DEF Request
<1>3. \/ r = NoRequest
      \/ /\ r.kind = request[d].kind /\ (r.open => request[d].open) /\ r.id = request[d].id
         /\ r.kind = "create" => r.strip = <<>>
  BY <1>1 DEF Request, IInv, LockHeld, Creates
<1>4. request' = [request EXCEPT ![d] = r] BY DEF Register
<1> HIDE DEF r
<1> QED BY <1>2, <1>3, <1>4, GoOnPreserves DEF Register

LEMMA StripPreserves ==
    ASSUME IInv, NEW d \in Desks, Strip(d)
    PROVE  IInv'
<1> DEFINE r == IF Len(request[d].strip) = 1 THEN NoRequest
                ELSE [request[d] EXCEPT !.strip = Tail(request[d].strip)]
<1>1. request[d] \in Request BY DEF IInv, AccountsTypeOK, Strip, NoRequest
<1>2. request[d].strip \in Seq(Emails) /\ request[d].strip # <<>> BY <1>1 DEF Request, Strip
<1>3. Tail(request[d].strip) \in Seq(Emails) BY <1>2
<1>4. r \in Request \cup {NoRequest} BY <1>1, <1>3 DEF Request
<1>5. request[d].kind # "create" BY <1>2 DEF IInv, LockHeld, Creates
<1>6. \/ r = NoRequest
      \/ /\ r.kind = request[d].kind /\ (r.open => request[d].open) /\ r.id = request[d].id
         /\ r.kind = "create" => r.strip = <<>>
  BY <1>1, <1>5 DEF Request
<1>7. request' = [request EXCEPT ![d] = r] BY DEF Strip
<1> HIDE DEF r
<1> QED BY <1>4, <1>6, <1>7, GoOnPreserves DEF Strip

LEMMA FailPreserves ==
    ASSUME IInv, NEW d \in Desks, FailRequest(d)
    PROVE  IInv'
BY GoOnPreserves DEF FailRequest, Unlock

\* A new registrar takes the room that was left, and who deletes or updates needs none.
LEMMA CommitPreserves ==
    ASSUME IInv, NEW d \in Desks, CommitRow(d)
    PROVE  IInv'
<1> USE DEF IInv
<1> DEFINE r == request[d]
           q == IF r.strip = <<>> THEN NoRequest ELSE [r EXCEPT !.open = FALSE]
<1>1. PICK i \in UserIds : /\ IF r.kind = "create" THEN users[i] = NoUser ELSE i = r.id
                           /\ users' = [users EXCEPT ![i] = Row(r)]
  BY DEF CommitRow
<1>2. /\ r \in Request /\ r.open
      /\ request' = [request EXCEPT ![d] = q]
      /\ capacityLock' = capacityLock \ {d}
      /\ bootstrapped' = bootstrapped
      /\ r.kind \in {"create", "update", "delete"}
  BY DEF CommitRow, Unlock, AccountsTypeOK, NoRequest
<1>3. Row(r) \in UserRows
  BY <1>2 DEF Row, UserRows, Request
<1>4. q \in Request \cup {NoRequest} /\ (q = NoRequest \/ (q.kind = r.kind /\ ~q.open))
  BY <1>2 DEF Request
<1>5. r.kind = "create" => q = NoRequest BY DEF LockHeld, Creates
<1> HIDE DEF q
<1>6. AccountsTypeOK' BY <1>1, <1>2, <1>3, <1>4 DEF AccountsTypeOK
<1>7. \A c \in Desks : /\ Creates(c)' => Creates(c) /\ c # d
                       /\ Claims(c)' => Claims(c) /\ c # d
  BY <1>2, <1>4, <1>5 DEF Creates, Claims, AccountsTypeOK, NoRequest
<1>8. \A c \in Desks \ {d} : request'[c] = request[c]
  BY <1>2 DEF AccountsTypeOK
<1>9. LockHeld' BY <1>2, <1>7, <1>8 DEF LockHeld
<1>10. \A c \in Desks \ {d} : Claims(c) => request[c].id # i
  <2>1. CASE r.kind = "create"
    BY <2>1, <1>1 DEF RowsClaimed, NoUser
  <2>2. CASE r.kind # "create"
    BY <2>2, <1>1, <1>2 DEF RowsClaimed, Claims
  <2> QED BY <2>1, <2>2
<1>11. RowsClaimed'
  BY <1>1, <1>7, <1>8, <1>10 DEF RowsClaimed, AccountsTypeOK
<1>12. CASE r.kind = "create"
  <2>1. Cardinality(Registrars') = Cardinality(Registrars) + 1
    BY <1>12, <1>1, <1>3, OneMore DEF Row, AccountsTypeOK
  <2>2. RegistrarsWithinLimit'
    BY <2>1, <1>2, <1>12, RegistrarsFinite, AccountsAssumption
       DEF RegistrarsWithinLimit, RoomLeft, Creates, AccountsTypeOK
  <2>3. RoomLeft'
    BY <1>7, <1>12 DEF RoomLeft, LockHeld, Creates
  <2> QED BY <2>2, <2>3, <1>6, <1>9, <1>11
<1>13. CASE r.kind # "create"
  <2>1. users[i].role = "registrar" BY <1>13, <1>1, <1>2 DEF RowsClaimed, Claims
  <2>2. /\ Cardinality(Registrars') <= Cardinality(Registrars)
        /\ Cardinality(Registrars') \in Nat
    BY <2>1, <1>1, <1>3, NoMore DEF AccountsTypeOK
  <2>3. RegistrarsWithinLimit'
    BY <2>2, <1>2, RegistrarsFinite, AccountsAssumption DEF RegistrarsWithinLimit, AccountsTypeOK
  <2>4. RoomLeft'
    BY <2>2, <1>2, <1>7, RegistrarsFinite, AccountsAssumption DEF RoomLeft, AccountsTypeOK
  <2> QED BY <2>3, <2>4, <1>6, <1>9, <1>11
<1> QED BY <1>12, <1>13

-----------------------------------------------------------------------------
LEMMA NextIInv == IInv /\ [AccountsNext]_accountsVars => IInv'
<1> SUFFICES ASSUME IInv, [AccountsNext]_accountsVars PROVE IInv' OBVIOUS
<1>1. CASE AccountsNext
  <2>1. PICK d \in Desks : Served(d) BY <1>1 DEF AccountsNext
  <2> QED
    BY <2>1, CreatePreserves, UpdatePreserves, DeletePreserves, LoginPreserves, BootstrapPreserves,
       RegisterPreserves, StripPreserves, FailPreserves, CommitPreserves DEF Served
<1>2. CASE UNCHANGED accountsVars
  <2>1. Registrars' = Registrars BY <1>2 DEF accountsVars, Registrars
  <2> QED
    BY <1>2, <2>1 DEF accountsVars, IInv, AccountsTypeOK, LockHeld, RowsClaimed, RoomLeft, Creates,
       Claims, RegistrarsWithinLimit
<1> QED BY <1>1, <1>2

\* There are never more registrars than MaximumRegistrarAccounts and those the bootstrap
\* job has added, for any limit, rows, addresses and number of requests at a time: a
\* registrar is counted and inserted under one lock (EnsureRegistrarCapacityAsync), and
\* no other request turns a row into a registrar's.
THEOREM WithinLimit == AccountsSpec => []RegistrarsWithinLimit
<1>1. IInv => RegistrarsWithinLimit BY DEF IInv
<1> QED BY <1>1, InitIInv, NextIInv, PTL DEF AccountsSpec
-----------------------------------------------------------------------------
(* Identities follow the accounts.                                         *)

ActiveAt(e) == \E i \in Registrars : users[i].email = e /\ users[i].active

Listed(s) == {s[n] : n \in DOMAIN s}
Stripped(r) == Listed(r.strip)

\* No two rows have an address in common.
AddressesUnique == \A e \in Emails : \A i, j \in Holders(e) : i = j

\* What a request has planned: after its commit it strips all of its addresses but the
\* one that an active registrar has then.
Planned(r) ==
    /\ r.kind = "create" => r.open /\ r.active
    /\ r.kind = "ensure" => ~r.open /\ r.old = "none" /\ r.strip = <<>>
    /\ r.kind = "delete" => ~r.active
    /\ Stripped(r) \subseteq About(r)
    /\ r.open => \A e \in About(r) : e \in Stripped(r) <=> ~(r.active /\ e = r.email)

PlansMade ==
    \A d \in Working :
        /\ Planned(request[d])
        /\ Claims(d) => users[request[d].id].email = request[d].old

\* What is so of an address while the one request about it is on its way.
Halfway(r, e) ==
    /\ r.kind = "ensure" => ActiveAt(e)
    /\ r.open /\ ~r.register /\ r.active /\ e = r.email => e \in identities
    /\ ~r.open /\ r.kind # "ensure" =>
           ~r.register /\ (ActiveAt(e) <=> e \in identities /\ e \notin Stripped(r))

Settled(e) == e \in identities <=> ActiveAt(e)

AddressKept(e) ==
    /\ \A c, d \in Working : e \in About(request[c]) \cap About(request[d]) => c = d
    /\ \A d \in Working : e \in About(request[d]) => Halfway(request[d], e)
    /\ (\A d \in Working : e \notin About(request[d])) => Settled(e)

WInv ==
    /\ IInv
    /\ AddressesUnique
    /\ PlansMade
    /\ \A e \in Emails \ unsure : AddressKept(e)

LEMMA TypesKept == WInv => /\ users \in [UserIds -> UserRows]
                           /\ request \in [Desks -> Request \cup {NoRequest}]
BY DEF WInv, IInv, AccountsTypeOK

-----------------------------------------------------------------------------
(* One desk's step, seen from an address.                                  *)

\* The step is about other addresses.
LEMMA Elsewhere ==
    ASSUME NEW e, AddressKept(e), NEW d \in Desks, NEW r,
           request \in [Desks -> Request \cup {NoRequest}],
           request' = [request EXCEPT ![d] = r],
           request[d] = NoRequest \/ e \notin About(request[d]),
           r = NoRequest \/ e \notin About(r),
           ActiveAt(e)' <=> ActiveAt(e), e \in identities' <=> e \in identities
    PROVE  AddressKept(e)'
<1>1. request'[d] = r /\ \A c \in Desks \ {d} : request'[c] = request[c]
  OBVIOUS
<1>2. ASSUME NEW c \in Working', e \in About(request'[c])
      PROVE  c \in Working /\ request'[c] = request[c]
  BY <1>1, <1>2 DEF Working
<1>3. ASSUME NEW c \in Working, e \in About(request[c])
      PROVE  c \in Working' /\ request'[c] = request[c]
  BY <1>1, <1>3 DEF Working
<1>4. ASSUME NEW q, Halfway(q, e) PROVE Halfway(q, e)'
  BY <1>4 DEF Halfway, Stripped
<1>5. ASSUME NEW c \in Working', NEW q, q = request'[c], e \in About(q)
      PROVE  Halfway(q, e)'
  <2>1. c \in Working /\ q = request[c]
    BY <1>2, <1>5
  <2> QED
    BY <1>4, <1>5, <2>1 DEF AddressKept
<1>6. (\A c \in Working' : e \notin About(request'[c])) => Settled(e)'
  BY <1>3 DEF AddressKept, Settled
<1> QED
  <2>1. \A c, q \in Working' : e \in About(request'[c]) \cap About(request'[q]) => c = q
    BY <1>2 DEF AddressKept
  <2>2. \A c \in Working' : \A q : q = request'[c] /\ e \in About(q) => Halfway(q, e)'
    BY <1>5
  <2> QED
    BY <2>1, <2>2, <1>6 DEF AddressKept, Halfway

\* The one request about the address goes on.
LEMMA GoesOn ==
    ASSUME NEW e, AddressKept(e), NEW d \in Working, NEW r, r # NoRequest,
           request \in [Desks -> Request \cup {NoRequest}],
           request' = [request EXCEPT ![d] = r],
           e \in About(request[d]), About(r) = About(request[d]), Halfway(r, e)'
    PROVE  AddressKept(e)'
<1>1. request'[d] = r /\ \A c \in Desks \ {d} : request'[c] = request[c]
  BY DEF Working
<1>2. ASSUME NEW c \in Working', e \in About(request'[c])
      PROVE  c = d
  BY <1>1, <1>2 DEF Working, AddressKept
<1>3. d \in Working' /\ e \in About(request'[d])
  BY <1>1 DEF Working
<1>4. \A c, q \in Working' : e \in About(request'[c]) \cap About(request'[q]) => c = q
  BY <1>2
<1>5. \A c \in Working' : \A q : q = request'[c] /\ e \in About(q) => Halfway(q, e)'
  BY <1>1, <1>2
<1> QED
  BY <1>3, <1>4, <1>5 DEF AddressKept, Halfway

\* The one request about the address is over.
LEMMA Ends ==
    ASSUME NEW e, AddressKept(e), NEW d \in Working,
           request \in [Desks -> Request \cup {NoRequest}],
           request' = [request EXCEPT ![d] = NoRequest],
           e \in About(request[d]), Settled(e)'
    PROVE  AddressKept(e)'
<1>1. request'[d] = NoRequest /\ \A c \in Desks \ {d} : request'[c] = request[c]
  BY DEF Working
<1>2. \A c \in Working' : e \notin About(request'[c])
  BY <1>1 DEF Working, AddressKept
<1> QED
  BY <1>2 DEF AddressKept

\* A request about an address nobody works on finds it settled.
LEMMA BeginsSettled ==
    ASSUME NEW e, AddressKept(e), NEW d \in Desks, NEW r, Take(d, r),
           e \in About(r), e \notin unsure'
    PROVE  Settled(e) /\ \A c \in Working : e \notin About(request[c])
<1>1. ASSUME NEW c \in Working PROVE e \notin About(request[c])
  BY DEF Take
<1> QED
  BY <1>1 DEF AddressKept

LEMMA Begins ==
    ASSUME NEW e, AddressKept(e), NEW d \in Desks, NEW r, r # NoRequest, Take(d, r),
           request \in [Desks -> Request \cup {NoRequest}],
           e \in About(r), e \notin unsure', Halfway(r, e)'
    PROVE  AddressKept(e)'
<1>1. request' = [request EXCEPT ![d] = r]
  BY DEF Take
<1>2. request'[d] = r /\ \A c \in Desks \ {d} : request'[c] = request[c]
  BY <1>1
<1>3. ASSUME NEW c \in Working', e \in About(request'[c])
      PROVE  c = d
  BY <1>2, <1>3, BeginsSettled DEF Working
<1>4. d \in Working' /\ e \in About(request'[d])
  BY <1>2 DEF Working
<1>5. \A c, q \in Working' : e \in About(request'[c]) \cap About(request'[q]) => c = q
  BY <1>3
<1>6. \A c \in Working' : \A q : q = request'[c] /\ e \in About(q) => Halfway(q, e)'
  BY <1>2, <1>3
<1> QED
  BY <1>4, <1>5, <1>6 DEF AddressKept, Halfway

-----------------------------------------------------------------------------
(* Requests that begin.                                                    *)

LEMMA KindsWork == \A r \in Request : r # NoRequest
BY DEF Request, NoRequest

LEMMA PlansStay ==
    ASSUME WInv, NEW d \in Desks, NEW r \in Request \cup {NoRequest},
           request' = [request EXCEPT ![d] = r], users' = users,
           r # NoRequest => Planned(r),
           r \in Request /\ r.kind \in {"update", "delete"} /\ r.open =>
               users[r.id].email = r.old
    PROVE  PlansMade'
<1>1. request'[d] = r /\ \A c \in Desks \ {d} : request'[c] = request[c]
  BY TypesKept
<1>2. \A c \in Desks : request'[c] # NoRequest => Planned(request'[c])
  BY <1>1 DEF WInv, PlansMade, Working
<1>3. \A c \in Desks : Claims(c)' => users[request'[c].id].email = request'[c].old
  BY <1>1, KindsWork DEF WInv, PlansMade, Working, Claims, NoRequest
<1> QED
  BY <1>2, <1>3 DEF PlansMade, Working, Planned, Stripped, About

LEMMA UniqueStays == WInv /\ users' = users => AddressesUnique'
BY DEF WInv, AddressesUnique, Holders

LEMMA ActiveStays == users' = users => \A e : ActiveAt(e)' <=> ActiveAt(e)
BY DEF ActiveAt, Registrars

\* The rows and identities are as they were.
LEMMA TakeKeeps ==
    ASSUME WInv, IInv', NEW d \in Desks, NEW r \in Request, Take(d, r), Planned(r),
           users' = users, identities' = identities,
           r.kind \in {"update", "delete"} /\ r.open => users[r.id].email = r.old,
           r.open /\ r.active => r.register,
           ~r.open => r.kind = "ensure" /\ ActiveAt(r.email)
    PROVE  WInv'
<1>1. r # NoRequest /\ request[d] = NoRequest /\ request' = [request EXCEPT ![d] = r]
  BY KindsWork DEF Take
<1>2. AddressesUnique' /\ PlansMade'
  BY <1>1, PlansStay, UniqueStays
<1>3. ASSUME NEW e \in Emails \ unsure' PROVE AddressKept(e)'
  <2>1. AddressKept(e)
    BY <1>3 DEF Take, WInv
  <2>2. ActiveAt(e)' <=> ActiveAt(e)
    BY ActiveStays
  <2>3. CASE e \notin About(r)
    BY <2>1, <2>2, <2>3, <1>1, Elsewhere, TypesKept
  <2>4. CASE e \in About(r)
    <3>1. ~r.open => e = r.email
      BY <2>4, AccountsAssumption DEF Planned, About
    <3>2. Halfway(r, e)'
      BY <2>2, <3>1 DEF Halfway, Planned
    <3> QED
      BY <2>1, <2>4, <3>2, <1>1, Begins, TypesKept
  <2> QED
    BY <2>3, <2>4
<1> QED
  BY <1>2, <1>3 DEF WInv

LEMMA CreateKeeps ==
    ASSUME WInv, NEW d \in Desks, NEW e \in Emails, CreateRegistrar(d, e)
    PROVE  WInv'
<1> DEFINE r == [kind |-> "create", open |-> TRUE, id |-> 0, old |-> "none", email |-> e,
                 active |-> TRUE, register |-> TRUE, strip |-> <<>>]
<1>1. r \in Request BY DEF Request
<1>2. IInv' BY CreatePreserves DEF WInv
<1>3. About(r) = {e} BY AccountsAssumption DEF About
<1>4. Stripped(r) = {} BY DEF Stripped, Listed
<1>5. Planned(r) BY <1>3, <1>4 DEF Planned
<1>6. r.kind = "create" /\ r.open /\ r.register OBVIOUS
<1>7. Take(d, r) /\ users' = users /\ identities' = identities BY DEF CreateRegistrar
<1> HIDE DEF r
<1> QED BY <1>1, <1>2, <1>5, <1>6, <1>7, TakeKeeps

\* What is in two lists together.
LEMMA InConcat ==
    ASSUME NEW S, NEW s \in Seq(S), NEW t \in Seq(S)
    PROVE  Listed(s \o t) = Listed(s) \cup Listed(t)
<1> DEFINE c == s \o t
<1>1. /\ Len(c) = Len(s) + Len(t)
      /\ DOMAIN c = 1..Len(c) /\ DOMAIN s = 1..Len(s) /\ DOMAIN t = 1..Len(t)
      /\ Len(s) \in Nat /\ Len(t) \in Nat
  BY ConcatProperties
<1>2. \A n \in 1..Len(s) : n \in DOMAIN c /\ c[n] = s[n]
  BY <1>1, ConcatProperties
<1>3. \A n \in 1..Len(t) : Len(s) + n \in DOMAIN c /\ c[Len(s) + n] = t[n]
  BY <1>1, ConcatProperties
<1> HIDE DEF c
<1>4. ASSUME NEW n \in DOMAIN c
      PROVE  c[n] \in Listed(s) \cup Listed(t)
  <2>1. CASE n <= Len(s)
    BY <2>1, <1>1, <1>2, <1>4 DEF Listed
  <2>2. CASE ~(n <= Len(s))
    <3>1. n - Len(s) \in 1..Len(t) /\ n = Len(s) + (n - Len(s))
      BY <2>2, <1>1, <1>4
    <3> QED
      BY <3>1, <1>1, <1>3 DEF Listed
  <2> QED
    BY <2>1, <2>2
<1>5. ASSUME NEW x \in Listed(s) \cup Listed(t)
      PROVE  x \in Listed(c)
  BY <1>1, <1>2, <1>3 DEF Listed
<1>6. Listed(c) = Listed(s) \cup Listed(t)
  BY <1>4, <1>5 DEF Listed
<1> QED
  BY <1>6 DEF c

\* The plan of an update: strip the address given up, and a wallet without an active owner.
LEMMA StripsPlanned ==
    ASSUME NEW u \in UserRows, u.email \in Emails, NEW e \in Emails, NEW active \in BOOLEAN,
           e # u.email \/ active # u.active
    PROVE  Listed(Strips(u, e, active)) = {x \in {u.email, e} : ~(active /\ x = e)}
<1>1. u.active \in BOOLEAN
  <2>1. CASE u \in [role : {"registrar", "deleted_registrar"}, email : Emails, active : BOOLEAN]
    BY <2>1, Zenon
  <2>2. CASE u = NoUser
    BY <2>2 DEF NoUser
  <2> QED
    BY <2>1, <2>2 DEF UserRows
<1>2. PICK s : s = IF e # u.email THEN <<u.email>> ELSE <<>>
  OBVIOUS
<1>3. PICK t : t = IF ~active THEN <<e>> ELSE <<>>
  OBVIOUS
<1>4. PICK c : c = s \o t
  OBVIOUS
<1>5. Strips(u, e, active) = c
  BY <1>1, <1>2, <1>3, <1>4 DEF Strips
<1>6. s \in Seq(Emails) /\ Listed(s) = IF e # u.email THEN {u.email} ELSE {}
  BY <1>2 DEF Listed
<1>7. t \in Seq(Emails) /\ Listed(t) = IF ~active THEN {e} ELSE {}
  BY <1>3 DEF Listed
<1>8. Listed(c) = Listed(s) \cup Listed(t)
  <2>1. s \in Seq(Emails)
    BY <1>6
  <2>2. t \in Seq(Emails)
    BY <1>7
  <2> QED
    BY <2>1, <2>2, <1>4, InConcat
<1> QED
  BY <1>5, <1>6, <1>7, <1>8

LEMMA UpdateKeeps ==
    ASSUME WInv, NEW d \in Desks, NEW i \in UserIds, NEW e \in Emails, NEW active \in BOOLEAN,
           UpdateRegistrar(d, i, e, active)
    PROVE  WInv'
<1> DEFINE u == users[i]
           r == [kind |-> "update", open |-> TRUE, id |-> i, old |-> u.email, email |-> e,
                 active |-> active, register |-> e # u.email \/ active,
                 strip |-> Strips(u, e, active)]
<1>1. u \in UserRows /\ u.role = "registrar" /\ u.email \in Emails
  BY TypesKept DEF UserRows, NoUser, UpdateRegistrar
<1>2. Strips(u, e, active) \in Seq(Emails) BY <1>1 DEF Strips
<1>3. r \in Request BY <1>1, <1>2 DEF Request
<1>4. IInv' BY UpdatePreserves DEF WInv
<1>5. About(r) = {u.email, e} BY <1>1 DEF About
<1>6. Stripped(r) = {x \in {u.email, e} : ~(active /\ x = e)}
  BY <1>1, StripsPlanned DEF Stripped, UpdateRegistrar
<1>7. r.kind = "update" /\ r.open /\ r.email = e /\ r.active = active /\ r.old = users[r.id].email
  OBVIOUS
<1>8. r.active => r.register OBVIOUS
<1>9. Take(d, r) /\ users' = users /\ identities' = identities BY DEF UpdateRegistrar
<1> HIDE DEF r
<1>10. Planned(r) BY <1>5, <1>6, <1>7 DEF Planned
<1> QED BY <1>3, <1>4, <1>7, <1>8, <1>9, <1>10, TakeKeeps

LEMMA DeleteKeeps ==
    ASSUME WInv, NEW d \in Desks, NEW i \in UserIds, DeleteRegistrar(d, i)
    PROVE  WInv'
<1> DEFINE u == users[i]
           r == [kind |-> "delete", open |-> TRUE, id |-> i, old |-> u.email, email |-> u.email,
                 active |-> FALSE, register |-> FALSE, strip |-> <<u.email, u.email>>]
<1>1. u.role = "registrar" /\ u.email \in Emails
  BY TypesKept DEF UserRows, NoUser, DeleteRegistrar
<1>2. r \in Request BY <1>1 DEF Request
<1>3. IInv' BY DeletePreserves DEF WInv
<1>4. About(r) = {u.email} /\ Stripped(r) = {u.email} BY <1>1 DEF About, Stripped, Listed
<1>5. r.kind = "delete" /\ r.open /\ ~r.active /\ r.old = users[r.id].email OBVIOUS
<1>6. Take(d, r) /\ users' = users /\ identities' = identities BY DEF DeleteRegistrar
<1> HIDE DEF r
<1>7. Planned(r) BY <1>4, <1>5 DEF Planned
<1> QED BY <1>2, <1>3, <1>5, <1>6, <1>7, TakeKeeps

LEMMA LoginKeeps ==
    ASSUME WInv, NEW d \in Desks, NEW i \in UserIds, Login(d, i)
    PROVE  WInv'
<1> DEFINE r == [kind |-> "ensure", open |-> FALSE, id |-> i, old |-> "none",
                 email |-> users[i].email, active |-> TRUE, register |-> TRUE, strip |-> <<>>]
<1>1. users[i].role = "registrar" /\ users[i].active /\ users[i].email \in Emails
  BY TypesKept DEF UserRows, NoUser, Login
<1>2. r \in Request BY <1>1 DEF Request
<1>3. IInv' BY LoginPreserves DEF WInv
<1>4. Stripped(r) = {} BY DEF Stripped, Listed
<1>5. r.kind = "ensure" /\ ~r.open /\ r.old = "none" /\ r.strip = <<>> /\
       r.email = users[i].email
  OBVIOUS
<1>6. users' = users /\ identities' = identities BY DEF Login
<1>7. Take(d, r) BY <1>6 DEF Login, Ensure
<1> HIDE DEF r
<1>8. Planned(r) BY <1>4, <1>5 DEF Planned
<1>9. ActiveAt(r.email) BY <1>1, <1>5 DEF ActiveAt, Registrars
<1> QED BY <1>2, <1>3, <1>5, <1>6, <1>7, <1>8, <1>9, TakeKeeps

LEMMA BootstrapKeeps ==
    ASSUME WInv, NEW d \in Desks, NEW i \in UserIds, NEW e \in Emails, Bootstrap(d, i, e)
    PROVE  WInv'
<1> DEFINE u == [role |-> "registrar", email |-> e, active |-> TRUE]
           r == [kind |-> "ensure", open |-> FALSE, id |-> i, old |-> "none",
                 email |-> e, active |-> TRUE, register |-> TRUE, strip |-> <<>>]
<1>1. IInv' BY BootstrapPreserves DEF WInv
<1>2. users[i] = NoUser /\ Holders(e) = {} /\ users' = [users EXCEPT ![i] = u]
  BY DEF Bootstrap
<1>3. users'[i] = u /\ \A j \in UserIds \ {i} : users'[j] = users[j]
  BY <1>2, TypesKept
<1>4. r \in Request BY DEF Request
<1>5. Take(d, r) /\ identities' = identities
  <2>1. users'[i].email = e
    BY <1>3
  <2> QED
    BY <2>1 DEF Bootstrap, Ensure, Take
<1>6. Stripped(r) = {} /\ About(r) = {e}
  BY AccountsAssumption DEF Stripped, Listed, About
<1>7. r.kind = "ensure" /\ ~r.open /\ r.old = "none" /\ r.strip = <<>> /\ r.email = e
  OBVIOUS
<1> HIDE DEF r
<1>8. Planned(r) BY <1>6, <1>7 DEF Planned
<1>9. r # NoRequest /\ request[d] = NoRequest /\ request' = [request EXCEPT ![d] = r]
  BY <1>4, <1>5, KindsWork DEF Take
<1>10. request'[d] = r /\ \A c \in Desks \ {d} : request'[c] = request[c]
  BY <1>9, TypesKept
<1>11. AddressesUnique'
  <2> SUFFICES ASSUME NEW x \in Emails, NEW j \in UserIds, NEW k \in UserIds,
                      users'[j].email = x, users'[k].email = x
               PROVE  j = k
    BY DEF AddressesUnique, Holders
  <2>1. CASE j = i \/ k = i
    BY <2>1, <1>2, <1>3 DEF Holders
  <2>2. CASE j # i /\ k # i
    BY <2>2, <1>3 DEF WInv, AddressesUnique, Holders
  <2> QED BY <2>1, <2>2
<1>12. PlansMade'
  <2>1. \A c \in Desks : request'[c] # NoRequest => Planned(request'[c])
    BY <1>8, <1>10 DEF WInv, PlansMade, Working
  <2>2. ASSUME NEW c \in Desks, Claims(c)'
        PROVE  users'[request'[c].id].email = request'[c].old
    <3>1. Claims(c) /\ c # d /\ request'[c] = request[c]
      BY <2>2, <1>7, <1>10 DEF Claims
    <3>2. request[c].id \in UserIds \ {i}
      BY <3>1, <1>2 DEF WInv, IInv, RowsClaimed, NoUser
    <3>3. c \in Working BY <3>1 DEF Working, Claims, NoRequest
    <3> QED BY <3>1, <3>2, <3>3, <1>3 DEF WInv, PlansMade
  <2> QED BY <2>1, <2>2 DEF PlansMade, Working, Planned, Stripped, About
<1>13. ASSUME NEW x \in Emails \ unsure' PROVE AddressKept(x)'
  <2>1. AddressKept(x)
    BY <1>5, <1>13 DEF Take, WInv
  <2>2. CASE x = e
    <3>1. ActiveAt(x)' BY <2>2, <1>3 DEF ActiveAt, Registrars
    <3>2. Halfway(r, x)' BY <3>1, <1>7 DEF Halfway
    <3> QED BY <2>1, <2>2, <3>2, <1>5, <1>6, <1>9, Begins, TypesKept
  <2>3. CASE x # e
    <3>1. ActiveAt(x)' <=> ActiveAt(x)
      BY <2>3, <1>2, <1>3 DEF ActiveAt, Registrars, NoUser
    <3>2. x \notin About(r) BY <2>3, <1>6
    <3> QED BY <2>1, <3>1, <3>2, <1>5, <1>9, Elsewhere, TypesKept
  <2> QED BY <2>2, <2>3
<1> QED BY <1>1, <1>11, <1>12, <1>13 DEF WInv

-----------------------------------------------------------------------------
(* Requests that go on.                                                    *)

LEMMA RequestWorks ==
    ASSUME WInv, NEW d \in Desks, request[d] # NoRequest
    PROVE  d \in Working /\ request[d] \in Request /\ Planned(request[d])
BY TypesKept DEF Working, WInv, PlansMade

LEMMA FailKeeps ==
    ASSUME WInv, NEW d \in Desks, FailRequest(d)
    PROVE  WInv'
<1>1. IInv' BY FailPreserves DEF WInv
<1>2. request[d] # NoRequest /\ request' = [request EXCEPT ![d] = NoRequest] /\ users' = users
  BY DEF FailRequest
<1>3. AddressesUnique' BY <1>2, UniqueStays
<1>4. PlansMade' BY <1>2, PlansStay, KindsWork
<1>5. ASSUME NEW x \in Emails \ unsure' PROVE AddressKept(x)'
  <2>1. x \notin About(request[d]) /\ x \notin unsure
    BY <1>5 DEF FailRequest
  <2>2. x # request[d].email
    BY <2>1 DEF About
  <2>3. x \in identities' <=> x \in identities
    BY <2>2 DEF FailRequest
  <2>4. ActiveAt(x)' <=> ActiveAt(x)
    BY <1>2, ActiveStays
  <2> QED BY <2>1, <2>3, <2>4, <1>2, Elsewhere, TypesKept DEF WInv
<1> QED BY <1>1, <1>3, <1>4, <1>5 DEF WInv

LEMMA RegisterKeeps ==
    ASSUME WInv, NEW d \in Desks, Register(d)
    PROVE  WInv'
<1>1. IInv' BY RegisterPreserves DEF WInv
<1>2. request[d].kind # "none" /\ request[d].register /\ users' = users /\ unsure' = unsure
  BY DEF Register
<1>3. d \in Working /\ request[d] \in Request /\ Planned(request[d])
  BY <1>2, RequestWorks DEF NoRequest
<1>4. PICK o : o = request[d]
  OBVIOUS
<1>5. PICK r : r = IF o.kind = "ensure" THEN NoRequest ELSE [o EXCEPT !.register = FALSE]
  OBVIOUS
<1>6. request' = [request EXCEPT ![d] = r]
  BY <1>4, <1>5 DEF Register
<1>7. o.kind # "ensure" =>
          /\ r \in Request /\ r # NoRequest /\ ~r.register
          /\ r.kind = o.kind /\ r.open = o.open /\ r.id = o.id /\ r.old = o.old
          /\ r.email = o.email /\ r.active = o.active /\ r.strip = o.strip
  BY <1>3, <1>4, <1>5, KindsWork DEF Request
<1>8. o.kind # "ensure" => About(r) = About(o) /\ Stripped(r) = Stripped(o)
  BY <1>7 DEF About, Stripped
<1>9. r # NoRequest => Planned(r)
  BY <1>3, <1>4, <1>5, <1>7, <1>8 DEF Planned
<1>10. AddressesUnique' BY <1>2, UniqueStays
<1>11. PlansMade'
  <2>1. r \in Request \cup {NoRequest} BY <1>5, <1>7
  <2>2. r \in Request /\ r.kind \in {"update", "delete"} /\ r.open => users[r.id].email = r.old
    BY <1>3, <1>4, <1>5, <1>7, KindsWork DEF WInv, PlansMade, Claims
  <2> QED BY <2>1, <2>2, <1>2, <1>6, <1>9, PlansStay
<1>12. ASSUME NEW x \in Emails \ unsure' PROVE AddressKept(x)'
  <2>1. AddressKept(x) /\ (ActiveAt(x)' <=> ActiveAt(x))
    BY <1>2, <1>12, ActiveStays DEF WInv
  <2>2. CASE x \notin About(o)
    <3>1. x # o.email BY <2>2 DEF About
    <3>2. x \in identities' <=> x \in identities BY <3>1, <1>4 DEF Register
    <3>3. r = NoRequest \/ x \notin About(r) BY <2>2, <1>5, <1>8
    <3> QED BY <2>1, <2>2, <3>2, <3>3, <1>3, <1>4, <1>6, Elsewhere, TypesKept DEF Working
  <2>3. CASE x \in About(o)
    <3>1. Halfway(o, x) BY <2>1, <2>3, <1>3, <1>4 DEF AddressKept
    <3>2. CASE o.kind = "ensure"
      <4>1. x = o.email BY <2>3, <3>2, <1>3, <1>4, AccountsAssumption DEF About, Planned
      <4>2. Settled(x)' BY <2>1, <3>1, <3>2, <4>1, <1>4 DEF Settled, Halfway, Register
      <4> QED BY <2>1, <2>3, <3>2, <4>2, <1>3, <1>4, <1>5, <1>6, Ends, TypesKept
    <3>3. CASE o.kind # "ensure"
      <4>1. o.open BY <3>1, <3>3, <1>2, <1>4 DEF Halfway
      <4>2. o.email \in identities' BY <1>4 DEF Register
      <4>3. Halfway(r, x)' BY <3>3, <4>1, <4>2, <1>7 DEF Halfway
      <4> QED BY <2>1, <2>3, <3>3, <4>3, <1>3, <1>4, <1>6, <1>7, <1>8, GoesOn, TypesKept
    <3> QED BY <3>2, <3>3
  <2> QED BY <2>2, <2>3
<1> QED BY <1>1, <1>10, <1>11, <1>12 DEF WInv

LEMMA CommitKeeps ==
    ASSUME WInv, NEW d \in Desks, CommitRow(d)
    PROVE  WInv'
<1>1. IInv' BY CommitPreserves DEF WInv
<1>2. PICK r : r = request[d]
  OBVIOUS
<1>3. /\ r.kind \in {"create", "update", "delete"} /\ r.open /\ ~r.register
      /\ identities' = identities /\ unsure' = unsure
  BY <1>2 DEF CommitRow
<1>4. d \in Working /\ r \in Request /\ Planned(r)
  BY <1>2, <1>3, RequestWorks DEF NoRequest
<1>5. PICK i \in UserIds : /\ IF r.kind = "create" THEN users[i] = NoUser ELSE i = r.id
                           /\ Holders(r.email) \subseteq {i}
                           /\ users' = [users EXCEPT ![i] = Row(r)]
  BY <1>2 DEF CommitRow
<1>6. PICK q : q = IF r.strip = <<>> THEN NoRequest ELSE [r EXCEPT !.open = FALSE]
  OBVIOUS
<1>7. request' = [request EXCEPT ![d] = q]
  BY <1>2, <1>6 DEF CommitRow
<1>8. users'[i] = Row(r) /\ \A j \in UserIds \ {i} : users'[j] = users[j]
  BY <1>5, TypesKept
<1>9. q # NoRequest =>
          /\ q \in Request /\ ~q.open /\ ~q.register
          /\ q.kind = r.kind /\ q.old = r.old
          /\ q.email = r.email /\ q.active = r.active /\ q.strip = r.strip
  BY <1>3, <1>4, <1>6 DEF Request
<1>10. q # NoRequest => About(q) = About(r) /\ Stripped(q) = Stripped(r)
  BY <1>9 DEF About, Stripped
<1>11. r.kind # "create" => users[i].email = r.old
  BY <1>2, <1>3, <1>4, <1>5 DEF WInv, PlansMade, Claims
<1>12. r.kind = "create" => q = NoRequest
  BY <1>1, <1>2, <1>4, <1>6 DEF WInv, IInv, LockHeld, Creates, Working
<1>13. AddressesUnique'
  <2> SUFFICES ASSUME NEW x \in Emails, NEW j \in UserIds, NEW k \in UserIds,
                      users'[j].email = x, users'[k].email = x
               PROVE  j = k
    BY DEF AddressesUnique, Holders
  <2>1. CASE j = i \/ k = i
    <3>1. x = r.email BY <2>1, <1>8 DEF Row
    <3> QED BY <2>1, <3>1, <1>5, <1>8 DEF Holders
  <2>2. CASE j # i /\ k # i
    BY <2>2, <1>8 DEF WInv, AddressesUnique, Holders
  <2> QED BY <2>1, <2>2
<1>14. request'[d] = q /\ \A c \in Desks \ {d} : request'[c] = request[c]
  BY <1>7, TypesKept
<1>15. PlansMade'
  <2>1. q # NoRequest => Planned(q)
    BY <1>4, <1>9, <1>10, <1>12 DEF Planned
  <2>2. \A c \in Desks : request'[c] # NoRequest => Planned(request'[c])
    BY <2>1, <1>14 DEF WInv, PlansMade, Working
  <2>3. ASSUME NEW c \in Desks, Claims(c)'
        PROVE  users'[request'[c].id].email = request'[c].old
    <3>1. Claims(c) /\ c # d /\ request'[c] = request[c]
      BY <2>3, <1>9, <1>14 DEF Claims, NoRequest
    <3>2. request[c].id \in UserIds \ {i}
      <4>1. CASE r.kind = "create"
        BY <4>1, <3>1, <1>5 DEF WInv, IInv, RowsClaimed, NoUser
      <4>2. CASE r.kind # "create"
        BY <4>2, <3>1, <1>2, <1>3, <1>5 DEF WInv, IInv, RowsClaimed, Claims
      <4> QED BY <4>1, <4>2
    <3>3. c \in Working BY <3>1 DEF Working, Claims, NoRequest
    <3> QED BY <3>1, <3>2, <3>3, <1>8 DEF WInv, PlansMade
  <2> QED BY <2>2, <2>3 DEF PlansMade, Working, Planned, Stripped, About
<1>16. ASSUME NEW x \in Emails, x \notin About(r) PROVE ActiveAt(x)' <=> ActiveAt(x)
  <2>1. x # r.email /\ x # r.old BY <1>16 DEF About
  <2>2. users[i].email # x
    BY <2>1, <1>5, <1>11, AccountsAssumption DEF NoUser
  <2>3. users'[i].email # x
    BY <2>1, <1>8 DEF Row
  <2>4. \A j \in UserIds : users'[j].email = x => users'[j] = users[j]
    BY <2>3, <1>8
  <2>5. \A j \in UserIds : users[j].email = x => users'[j] = users[j]
    BY <2>2, <1>8
  <2> QED BY <2>4, <2>5 DEF ActiveAt, Registrars
<1>17. ASSUME NEW x \in Emails, x \in About(r)
       PROVE  ActiveAt(x)' <=> r.active /\ x = r.email
  <2>1. CASE x = r.email
    <3>1. \A j \in UserIds : users'[j].email = x => j = i
      BY <2>1, <1>8, <1>13 DEF AddressesUnique, Holders, Row
    <3>2. r.active => users'[i].role = "registrar" /\ users'[i].active /\ users'[i].email = x
      BY <2>1, <1>3, <1>4, <1>8 DEF Row, Planned
    <3>3. ActiveAt(x)' => users'[i].active
      BY <3>1 DEF ActiveAt, Registrars
    <3>4. users'[i].active = r.active
      BY <1>8 DEF Row
    <3> QED BY <2>1, <3>2, <3>3, <3>4 DEF ActiveAt, Registrars
  <2>2. CASE x # r.email
    <3>1. x = r.old BY <2>2, <1>17 DEF About
    <3>2. \A j \in UserIds : users'[j].email # x
      <4>1. CASE r.kind = "create"
        \* x would have to be "none"
        <5>1. Stripped(r) = {}
          BY <4>1, <1>2, <1>4 DEF Stripped, Listed, WInv, IInv, LockHeld, Creates, Working
        <5>2. x \in Stripped(r) BY <1>3, <1>4, <1>17, <2>2 DEF Planned
        <5> QED BY <5>1, <5>2
      <4>2. CASE r.kind # "create"
        <5>1. \A j \in UserIds : users[j].email = x => j = i
          BY <4>2, <3>1, <1>11 DEF WInv, AddressesUnique, Holders
        <5> QED BY <5>1, <1>8, <2>2 DEF Row
      <4> QED BY <4>1, <4>2
    <3> QED BY <2>2, <3>2 DEF ActiveAt, Registrars
  <2> QED BY <2>1, <2>2
<1>18. ASSUME NEW x \in Emails \ unsure' PROVE AddressKept(x)'
  <2>1. AddressKept(x) /\ (x \in identities' <=> x \in identities)
    BY <1>3, <1>18 DEF WInv
  <2>2. CASE x \notin About(r)
    <3>1. q = NoRequest \/ x \notin About(q) BY <2>2, <1>10
    <3> QED BY <2>1, <2>2, <3>1, <1>2, <1>4, <1>7, <1>16, Elsewhere, TypesKept DEF Working
  <2>3. CASE x \in About(r)
    <3>1. Halfway(r, x) BY <2>1, <2>3, <1>2, <1>4 DEF AddressKept
    <3>2. x \in Stripped(r) <=> ~(r.active /\ x = r.email)
      BY <2>3, <1>3, <1>4 DEF Planned
    <3>3. ActiveAt(x)' <=> x \in identities' /\ x \notin Stripped(r)
      BY <2>1, <2>3, <3>1, <3>2, <1>3, <1>17 DEF Halfway
    <3>4. CASE q = NoRequest
      <4>1. r.strip = <<>>
        <5>1. [r EXCEPT !.open = FALSE] \in Request BY <1>4 DEF Request
        <5> QED BY <5>1, <3>4, <1>6, KindsWork
      <4>2. Stripped(r) = {} BY <4>1 DEF Stripped, Listed
      <4>3. Settled(x)' BY <3>3, <4>2 DEF Settled
      <4> QED BY <2>1, <2>3, <3>4, <4>3, <1>2, <1>4, <1>7, Ends, TypesKept
    <3>5. CASE q # NoRequest
      <4>1. Halfway(q, x)' BY <3>3, <3>5, <1>3, <1>9, <1>10 DEF Halfway
      <4> QED BY <2>1, <2>3, <3>5, <4>1, <1>2, <1>4, <1>7, <1>10, GoesOn, TypesKept
    <3> QED BY <3>4, <3>5
  <2> QED BY <2>2, <2>3
<1> QED BY <1>1, <1>13, <1>15, <1>18 DEF WInv

LEMMA InList ==
    ASSUME NEW S, NEW s \in Seq(S), s # <<>>
    PROVE  /\ Head(s) \in S /\ Tail(s) \in Seq(S)
           /\ \A x : x \in Listed(s) <=> x = Head(s) \/ x \in Listed(Tail(s))
           /\ Len(s) = 1 => Listed(Tail(s)) = {}
<1>1. /\ Len(s) \in Nat \ {0} /\ DOMAIN s = 1..Len(s) /\ Head(s) = s[1] /\ Head(s) \in S
      /\ Tail(s) \in Seq(S) /\ Len(Tail(s)) = Len(s) - 1
      /\ DOMAIN Tail(s) = 1..(Len(s) - 1)
      /\ \A n \in 1..(Len(s) - 1) : Tail(s)[n] = s[n + 1]
  BY HeadTailProperties
<1>2. ASSUME NEW x, x \in Listed(s)
      PROVE  x = Head(s) \/ x \in Listed(Tail(s))
  <2>1. PICK n \in DOMAIN s : x = s[n]
    BY <1>2 DEF Listed
  <2>2. CASE n = 1
    BY <2>1, <2>2, <1>1
  <2>3. CASE n # 1
    <3>1. n - 1 \in 1..(Len(s) - 1) /\ (n - 1) + 1 = n
      BY <2>1, <2>3, <1>1
    <3>2. Tail(s)[n - 1] = x
      BY <2>1, <3>1, <1>1
    <3> QED
      BY <3>1, <3>2, <1>1 DEF Listed
  <2> QED
    BY <2>2, <2>3
<1>3. ASSUME NEW x, x = Head(s) \/ x \in Listed(Tail(s))
      PROVE  x \in Listed(s)
  <2>1. CASE x = Head(s)
    BY <2>1, <1>1 DEF Listed
  <2>2. CASE x \in Listed(Tail(s))
    <3>1. PICK n \in 1..(Len(s) - 1) : x = Tail(s)[n]
      BY <2>2, <1>1 DEF Listed
    <3>2. n + 1 \in DOMAIN s /\ s[n + 1] = x
      BY <3>1, <1>1
    <3> QED
      BY <3>2 DEF Listed
  <2> QED
    BY <1>3, <2>1, <2>2
<1>4. Len(s) = 1 => Listed(Tail(s)) = {}
  BY <1>1 DEF Listed
<1> QED
  BY <1>1, <1>2, <1>3, <1>4

LEMMA StripKeeps ==
    ASSUME WInv, NEW d \in Desks, Strip(d)
    PROVE  WInv'
<1>1. IInv' BY StripPreserves DEF WInv
<1>2. PICK o : o = request[d]
  OBVIOUS
<1>3. o.kind # "none" /\ ~o.open /\ o.strip # <<>> /\ users' = users
  BY <1>2 DEF Strip
<1>4. d \in Working /\ o \in Request /\ Planned(o)
  BY <1>2, <1>3, RequestWorks DEF NoRequest
<1>5. o.kind # "ensure"
  BY <1>3, <1>4 DEF Planned
<1>6. PICK h : h = Head(o.strip)
  OBVIOUS
<1>7. PICK t : t = Tail(o.strip)
  OBVIOUS
<1>8. /\ t \in Seq(Emails)
      /\ \A x : x \in Stripped(o) <=> x = h \/ x \in Listed(t)
      /\ Len(o.strip) = 1 => Listed(t) = {}
  <2>1. o.strip \in Seq(Emails) BY <1>4 DEF Request
  <2> QED BY <2>1, <1>3, <1>6, <1>7, InList DEF Stripped
<1>9. PICK r : r = IF Len(o.strip) = 1 THEN NoRequest ELSE [o EXCEPT !.strip = t]
  OBVIOUS
<1>10. request' = [request EXCEPT ![d] = r]
  BY <1>2, <1>7, <1>9 DEF Strip
<1>11. \/ identities' = identities \ {h} /\ unsure' = unsure
       \/ unsure' = unsure \cup {h} /\ identities' = identities
  BY <1>2, <1>6 DEF Strip
<1>12. [o EXCEPT !.strip = t] \in Request BY <1>4, <1>8 DEF Request
<1>13. r # NoRequest =>
           /\ r \in Request /\ r.strip = t
           /\ r.kind = o.kind /\ r.open = o.open /\ r.register = o.register /\ r.old = o.old
           /\ r.email = o.email /\ r.active = o.active
  BY <1>4, <1>9, <1>12 DEF Request
<1>14. r = NoRequest => Listed(t) = {}
  BY <1>8, <1>9, <1>12, KindsWork
<1>15. r # NoRequest => About(r) = About(o) /\ Stripped(r) = Listed(t)
  BY <1>13 DEF About, Stripped
<1>16. r # NoRequest => Planned(r)
  BY <1>3, <1>4, <1>5, <1>8, <1>13, <1>15 DEF Planned
<1>17. AddressesUnique' BY <1>3, UniqueStays
<1>18. PlansMade'
  BY <1>3, <1>10, <1>13, <1>16, KindsWork, PlansStay
<1>19. ASSUME NEW x \in Emails \ unsure' PROVE AddressKept(x)'
  <2>1. AddressKept(x) /\ (ActiveAt(x)' <=> ActiveAt(x))
    BY <1>3, <1>11, <1>19, ActiveStays DEF WInv
  <2>2. x \in identities' <=> x \in identities /\ x # h
    BY <1>11, <1>19
  <2>3. CASE x \notin About(o)
    <3>1. x # h BY <2>3, <1>4, <1>8 DEF Planned
    <3>2. r = NoRequest \/ x \notin About(r) BY <2>3, <1>15
    <3> QED BY <2>1, <2>2, <2>3, <3>1, <3>2, <1>2, <1>4, <1>10, Elsewhere, TypesKept DEF Working
  <2>4. CASE x \in About(o)
    <3>1. Halfway(o, x) BY <2>1, <2>4, <1>2, <1>4 DEF AddressKept
    <3>2. ~o.register /\ (ActiveAt(x)' <=> x \in identities' /\ x \notin Listed(t))
      BY <2>1, <2>2, <3>1, <1>3, <1>5, <1>8 DEF Halfway
    <3>3. CASE r = NoRequest
      <4>1. Settled(x)' BY <3>2, <3>3, <1>14 DEF Settled
      <4> QED BY <2>1, <2>4, <3>3, <4>1, <1>2, <1>4, <1>10, Ends, TypesKept
    <3>4. CASE r # NoRequest
      <4>1. Halfway(r, x)' BY <3>2, <3>4, <1>3, <1>5, <1>13, <1>15 DEF Halfway
      <4> QED BY <2>1, <2>4, <3>4, <4>1, <1>2, <1>4, <1>10, <1>15, GoesOn, TypesKept
    <3> QED BY <3>3, <3>4
  <2> QED BY <2>3, <2>4
<1> QED BY <1>1, <1>17, <1>18, <1>19 DEF WInv

-----------------------------------------------------------------------------
LEMMA InitWInv == AccountsInit => WInv
<1> SUFFICES ASSUME AccountsInit PROVE WInv OBVIOUS
<1>1. IInv BY InitIInv
<1>2. Working = {} BY DEF AccountsInit, Working
<1>3. AddressesUnique
  BY AccountsAssumption DEF AccountsInit, AddressesUnique, Holders, NoUser
<1>4. PlansMade BY <1>2 DEF PlansMade
<1>5. \A e \in Emails : AddressKept(e)
  BY <1>2 DEF AccountsInit, AddressKept, Settled, ActiveAt, Registrars, NoUser
<1> QED BY <1>1, <1>3, <1>4, <1>5 DEF WInv

LEMMA NextWInv == WInv /\ [AccountsNext]_accountsVars => WInv'
<1> SUFFICES ASSUME WInv, [AccountsNext]_accountsVars PROVE WInv' OBVIOUS
<1>1. CASE AccountsNext
  <2>1. PICK d \in Desks : Served(d) BY <1>1 DEF AccountsNext
  <2> QED
    BY <2>1, CreateKeeps, UpdateKeeps, DeleteKeeps, LoginKeeps, BootstrapKeeps,
       RegisterKeeps, StripKeeps, FailKeeps, CommitKeeps DEF Served
<1>2. CASE UNCHANGED accountsVars
  <2>1. IInv' BY <1>2, NextIInv DEF WInv
  <2> QED
    BY <1>2, <2>1 DEF accountsVars, WInv, AddressesUnique, Holders, PlansMade, Working, Claims,
       AddressKept, Halfway, Settled, ActiveAt, Registrars
<1> QED BY <1>1, <1>2

\* An address has an identity exactly when an active registrar has the address, whatever
\* the order of requests, for any number of rows, addresses and desks; apart from
\* addresses two requests were about at a time, or one that failed.
THEOREM WalletsFollow == AccountsSpec => []WalletsFollowAccounts
<1>1. WInv => WalletsFollowAccounts
  BY DEF WInv, AddressKept, Settled, ActiveAt, WalletsFollowAccounts
<1> QED BY <1>1, InitWInv, NextWInv, PTL DEF AccountsSpec
=============================================================================
