------------------------------ MODULE MCPortal ------------------------------
(* The pages and the ledger service's pool, parts that share no state; which  *)
(* of them a behavior is about is chosen at its start.                        *)
(*   "sectioning"  two registrars, two students, two sections (Sectioning)    *)
(*   "roles"       two requests of a person with certificates of two          *)
(*                 organisations (GatewayCache)                               *)
(*   "reader"      two requests for which another identity stands in          *)
(*                 (GatewayCache)                                             *)
(*   "encoding"    a professor's page for one student, with two loads at a    *)
(*                 time that may fail and announcements that may be lost      *)
(*                 (GradeEncoding)                                            *)
(*   "saving"      the same page for two students whose saves can fail apart, *)
(*                 with one load at a time (GradeEncoding)                    *)
(*   "clicking"    the same page for one student with two saves or            *)
(*                 submissions at a time (GradeEncoding)                      *)
(*   "review"      chairperson and registrar over a section of two            *)
(*                 (ReviewPages)                                              *)
(*   "chat"        a tab and two conversations (Chat)                         *)
(*   "accounts"    two desks, three registrars' rows and two addresses        *)
(*                 (Accounts)                                                 *)
EXTENDS Pages, GatewayCache, Accounts

\* The part a behavior is about.
VARIABLE part

portalVars == <<part, allVars, gatewayVars, encodingVars, reviewVars, chatVars, accountsVars>>

MCFiles == {{1}, {1, 2}}

Faculty == [user |-> "ana", role |-> "faculty"]
TwoRoles == {Faculty, [user |-> "ana", role |-> "department_admin"]}

RequestersOf == [roles |-> TwoRoles, reader |-> {Faculty}]
RouteOf == [roles |-> "own", reader |-> "all"]

\* The identities that matter there: only these are enrolled.
PeopleOf == [roles |-> {IdentityOf(a) : a \in TwoRoles},
             reader |-> {IdentityOf(Faculty), IdentityOf(Reader)}]

\* What the part "reader" is confined to: no contract grows idle (in "roles" they do), and
\* the identity service does one thing at a time.
OneNotice == pool'.idle = {} /\ Cardinality(enrolling') <= 1 /\ Cardinality(notices') <= 1

\* What "encoding" is confined to: one student, one job at a time and two clicks that
\* count.  Only after those the period moves or something is lost; not both, and nothing
\* is lost during a job.
OneJob == Cardinality({j \in Jobs : jobs'[j] # NoJob}) <= 1
Losing == missed' \/ \E l \in Loads : ~loads'[l].whole
Loading ==
    /\ enrolled' \subseteq {"eve"} /\ OneJob /\ encodingActs' <= 2
    /\ Losing => period' = "midterm" /\ \A j \in Jobs : jobs'[j] = NoJob
    /\ Losing \/ period' # "midterm" => encodingActs' = 2

\* What "saving" and "clicking" are confined to: one term, one load at a time, nothing
\* of a load lost; a class that enrolls together and one job, or one student.
OneLoad == Cardinality({l \in Loads : loads'[l].stage # "none"}) <= 1
Calm == period' = "midterm" /\ changes' <= 2 /\ OneLoad /\ ~Losing
Saving == Calm /\ enrolled' \in {{}, Pupils} /\ OneJob
Clicking == Calm /\ enrolled' \subseteq {"eve"}

\* Each part has two interchangeable actors (browsers, requests, loads and jobs, students),
\* which the configuration gives the same names: an exchange is one of all parts.
Symmetry == Permutations(Browsers)

MCInit ==
    /\ part \in {"sectioning", "roles", "reader", "encoding", "saving", "clicking", "review",
                 "chat", "accounts"}
    /\ ClientInit
    /\ GatewayInit
    /\ EncodingInit
    /\ ReviewInit
    /\ ChatInit
    /\ AccountsInit
    /\ \A s \in Students : place[s] = Unassigned

MCNext ==
    \/ /\ part = "sectioning"
       /\ ClientNext
       /\ UNCHANGED <<part, gatewayVars, encodingVars, reviewVars, chatVars, accountsVars>>
    \/ /\ part \in {"roles", "reader"}
       /\ GatewayNext
       /\ \A c \in Calls : call'[c] = NoCall \/ call'[c].actor \in RequestersOf[part]
       /\ \A c \in Calls : call'[c] = NoCall \/ call'[c].route = RouteOf[part]
       /\ \A e \in enrolling' : e.id \in PeopleOf[part]
       /\ part = "reader" => OneNotice
       /\ UNCHANGED <<part, allVars, encodingVars, reviewVars, chatVars, accountsVars>>
    \/ /\ part \in {"encoding", "saving", "clicking"}
       /\ EncodingNext
       /\ part = "encoding" => Loading
       /\ part = "saving" => Saving
       /\ part = "clicking" => Clicking
       /\ UNCHANGED <<part, allVars, gatewayVars, reviewVars, chatVars, accountsVars>>
    \/ /\ part = "review"
       /\ ReviewNext
       /\ UNCHANGED <<part, allVars, gatewayVars, encodingVars, chatVars, accountsVars>>
    \/ /\ part = "chat"
       /\ ChatNext
       /\ UNCHANGED <<part, allVars, gatewayVars, encodingVars, reviewVars, accountsVars>>
    \/ /\ part = "accounts"
       /\ AccountsNext
       /\ UNCHANGED <<part, allVars, gatewayVars, encodingVars, reviewVars, chatVars>>

MCSpec == MCInit /\ [][MCNext]_portalVars
=============================================================================
