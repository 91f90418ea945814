# A formal model of PLV BlockGO

PLV BlockGO keeps a university's grades. Professors encode grades in a web
application, a chairperson and then the registrar approve them, and the final
grade is written to a Hyperledger Fabric ledger by a smart contract. This
directory holds TLA+ modules for the parts where order, concurrency and failure
decide whether a grade is right, TLC configurations that check them on small
instances, and TLAPS proofs.

## 1. The system

| Part | Source | State | Operations |
| --- | --- | --- | --- |
| Grade contract | `chaincode/main.go` | world state: academic records, audit events; history database | issue (one, batch), return, update, approve, finalize, init, reset to genesis, audit event; reads |
| Fabric | external, `middleware/src/services/ledger-service.js` calls it | endorsed transactions, blocks, versions of keys | simulate, order, validate, commit |
| Ledger service | `middleware/src/services/ledger-service.js`, `middleware/src/fabric/gateway-manager.js`, `serialized-contract.js` | one gateway connection per user, with last use and a limit | submit, evaluate, connect, disconnect, prune |
| Identity service | `fabric-identity-service.js`, `wallet-manager.js`, `ca-manager.js` | wallets (CouchDB), certificate authority | ensure, enroll, register, revoke, delete |
| Grade workflow | `client-app/Controllers/GradeController.cs`, `Services/BlockchainService.cs` | `pending_grade_records` (staged rows), `gradecorrectionlogs` | encode, import, submit, approve, forward, return, edit, correct, finalize |
| Accounts | `AuthController.cs`, `AccountProvisioningService.cs`, `auth-service.js` | users, profiles, enrollment requests, student numbers | request, approve, deny, provision, update, delete, reset password, bootstrap |
| Enrollment | `EnrollmentSectioningService.cs`, `AuthController.cs` | enrollments, sections | assign, promote, change of program |
| Sectioning pages | `RegistrarStudentSectioning.jsx`, `RegistrarSectionsCreated.jsx`, `utils/registrarSectioningBackendSync.js`, `utils/sharedClientState.js` | a roster per department in `localStorage`, and shared through the server | edit, generate, import, save, apply, promote, push, pull |
| Professor's page | `FacultyPortal.jsx` | sheet of grades, status per term, loads under way | load, type, save all, submit |
| Review pages | `DeptAdminGradesView.jsx`, `SectionReviewPanel.jsx`, `RegistrarGradesView.jsx` | the grades last loaded | approve, forward, return, commit a section |
| Chat | `Chat.jsx`, `ChatHub.cs`, `ChatCache.cs` | a tab's messages and target; stored messages, groups, presence | connect, join, select, send, load history |
| Curriculum | `CurriculumsController.cs` | curricula, entries, program assignments | edit, submit, approve, return, publish, archive, assign |
| Bulk uploads | `BulkUploadController.cs`, `grade-upload-service.js`, `uploadWorker.js` | staged rows, worker and its process | import, finalize, time out |
| Login | `auth-service.js`, `login-rate-limit.js` | failures per source and account | log in, limit |
| Settings | `SystemSettingsController.cs`, `settings-service.js` | academic period, encoding dates | update, reset season |

How they interact:

* The React frontend calls the ASP.NET application, which keeps PostgreSQL and
  calls the ledger service over HTTP, one request per ledger transaction, with a
  timeout (120 s by default) and no transaction around several of them.
* Every change of grades or enrollments is announced to all browsers over SignalR
  (`AcademicDataChanged`); the pages then load anew. Nothing orders an announcement, the
  load it causes and the requests the page has under way.
* The ledger service opens the gateway of the user it acts for with the
  certificate in the user's wallet; the contract trusts that certificate only:
  its organisation (MSP), its attribute `role` and its common name.
* Fabric simulates the contract, then orders and validates what it wrote. The
  contract's checks happen before, its writes after, the ordering.

What is hard:

* **Check at simulation, write at commit.** Two transactions on a record may both
  pass their checks. Only the version check at commit keeps them apart.
* **Finalization is not one step.** It is a database read, a ledger read, up to
  three ledger transactions and a DELETE. Each may fail, time out and happen
  later, or meet another request in between.
* **A row and its ledger record share an id but not a lifetime.** A bulk upload can
  stage a row under the id of a record that is already final.
* **Long legal sequences.** Return, correction, approval, finalization, reset and a
  new issue can follow each other in any order the contract allows.

* **Pages act on what they saw.** A click of a chairperson or registrar is one request
  per grade or per section, awaited one after the other, on a list loaded earlier; a
  failure in the middle leaves the rest undone.
* **Rosters are copied.** A sectioning roster exists in browsers, on the server and in
  messages at once, and each copy can overwrite another.

What makes each part correct, in one line:

* Contract: every key's history is a path of the life cycle, and a final grade is
  one that an entitled office approved just before.
* Fabric: concurrent transactions cannot be told from transactions run alone.
* Workflow: nothing staged disappears, the ledger holds only forwarded or corrected
  grades, failures can be retried, and what a handler reports is true.
* Gateway cache: a user never acts with another's or a revoked certificate, and a
  connection is lost, or the limit exceeded, only where requests overlap or a channel fails.
* Enrollment: a request takes effect whole or not at all, never moves a student who is
  elsewhere than the request believes, and ends; only promotions can deadlock.
* Pages: what a page says was saved, submitted, forwarded or committed is so, and a page
  that has loaded undisturbed shows what the server has.
* Accounts: the registrars stay within their limit, and an address has an identity exactly
  while it belongs to an active registrar.
* Curriculum, uploads, settings: requests are decided once.

## 2. Modules

| Module | Models | Extends |
| --- | --- | --- |
| `Chaincode` | the contract's functions as operators from a world state and an invocation to an outcome | |
| `GradeLedger` | the ledger as the contract promises it: one transaction at a time | `Chaincode` |
| `GradeLedgerProofs` | theorems about `GradeLedger` | `GradeLedger`, `SetInduction` |
| `FabricLedger` | simulation, ordering, validation and loss; refines `GradeLedger`, whose variables it has | `GradeLedger` |
| `FabricLedgerProofs` | theorems about `FabricLedger`, the refinement among them | `FabricLedger`, `GradeLedgerProofs` |
| `GradeStaging` | the web workflow around the contract | `Chaincode` |
| `GradeStagingProofs` | theorems about `GradeStaging` | `GradeStaging` |
| `GatewayCache` | the ledger service's gateways, requests, wallets and invalidations | |
| `SerializedContract` | one identity's operations in a chain of promises | |
| `LedgerServiceProofs` | theorems about `SerializedContract` and `GatewayCache` | both, `SetInduction` |
| `Enrollments` | the enrollment service as it promises to be: requests that are whole and at once | |
| `EnrollmentTransactions` | the same requests as row-locking transactions; refines `Enrollments` | `Enrollments` |
| `Sectioning` | the registrars' pages over `Enrollments`, and their shared rosters | `Enrollments` |
| `EnrollmentProofs` | theorems about `EnrollmentTransactions`, the refinement among them, and `Sectioning` | both, `SetInduction` |
| `GradeEncoding` | the professor's page over the table of staged grades | |
| `ReviewPages` | the chairperson's and the registrar's page over a section's grades | |
| `Chat` | a chat tab and the hub | |
| `Pages` | the four pages side by side, each going its own way | `Sectioning`, `GradeEncoding`, `ReviewPages`, `Chat` |
| `PagesProofs` | theorems about `GradeEncoding`, `ReviewPages`, `Chat` and `Pages` | `Pages`, `EnrollmentProofs` |
| `Accounts` | the registrars' accounts and their identities | |
| `AccountsProofs` | theorems about `Accounts` | `Accounts` |
| `SetInduction` | induction for the natural numbers, about sets | |
| `MC...` | instances for TLC | |

**Chaincode.** `Execute(w, t, i)` gives for a world state, a transaction id and an
invocation `[ok, writes]`, as a simulation does. `writes` maps the keys written to
their new values; an idempotent repetition is accepted and writes nothing. A record
keeps the fields the checks look at: status, grade, note, version, professor and
submitter. A certificate is `[cn, msp, role]`. Grades and notes are opaque except that
the empty grade is refused. An invocation enumerates what a client may send, including
calls that are refused: wrong roles, empty grades, unconfirmed resets, batches with
duplicates, blanks and existing ids. A record's `student` is there for the student's list;
names match exactly, where the contract ignores case (`EqualFold`).

**GradeLedger.** `world` is the state database, `history` the history database (which
the contract reads for the student's list), `used` the ids in the chain. One action
per writing function. `history` grows at its end; `StudentTransactions` lists it newest first,
as `GetHistoryForKey` of the peers of `network/` (Fabric 2.5.4) hands it out and the contract,
which does not sort, passes it on, without deletions and entries of another student.

**FabricLedger.** A call is `Endorse`d on the current world: its writes and the
versions of the keys in its `ReadSet` are kept in `inflight`. It is then ordered at any
later time, and committed if the versions are unchanged (`CommitValid`), else marked
invalid (`CommitInvalid`), or lost (`Lose`). The reset reads the range of all keys, so
its read set is all of them.

**GradeStaging.** `staged` is the table of pending grades by slot: student, subject,
school year, semester and section, as in its unique constraint. A handler that is one
SQL statement (or one SQL transaction) is one action. A handler that reads, waits
and writes is a request in `requests`, and takes one step per statement or ledger call:
`StartFinalize` reads the row, `PlanFinalize` reads the ledger, `CallAccepted` makes the
next call, `DeleteStaged` ends it. A call that times out stays in `late` and may still
commit if what it read is current. The history variables `forwarded`, `written`,
`everFinal` are for the properties; `log` is the table of corrections for those on the
ledger and in staged rows. The professor's correction of a staged row is three statements:
the row is looked up, updated by its id, and the correction logged, whether or not the
update found the row. Only handlers of one section are modelled, and access checks are left
out: the actors of the model are those who pass them.

**GatewayCache.** The service is one JavaScript thread, so what lies between two
awaits is one step: `Find` (the wallet is read), `Missing`, `Hit` or `Miss` (what
follows the read in `contractForUser`), `Connect`, `Store`, and the end of the ledger
call. `pool` is the map of gateways: `entry` is what is cached, `order` stands for
`lastAccessed` (least recent first), `idle` holds the users past the idle time, `open` the
gateways connected. Certificates are numbered; one is `Retired` when the wallet no
longer holds it. A peer may refuse a retired certificate or not, as revocation lists are
not part of the repository. A request may fall back on `ReadIdentity`
(`contractWithReadFallback`, and a second time in `/api/all-grades`). The identity
service enrolls (`EnrollIdentity`, `PutIdentity`, so two enrolments may cross), removes, and
invalidates or fails to. `call[c].absent` and `call[c].crowded` are history variables:
a request is crowded when, while it was opening a gateway, another one cached a gateway of the
same user. Room is made before an await and the entry stored after it, so such a request
replaces an entry it never saw and nothing disconnects that gateway; nor one whose channel
cannot be had once it is connected. Those are the two ways in which `NoGatewayLeaks` lets a
gateway go `Astray`, each named with the step that does it, and `CacheWithinCapacity` bounds the
excess by the requests that overlap. One replica of the
ledger service is modelled; an invalidation that another replica receives is one that
is lost.

**SerializedContract.** Each call records the promise it is chained to (`after`) and
becomes the `tail`. `turn` is a history variable. `gateway-manager.js` does not
use this wrapper today: only its test does, and the properties are what that test says.

**Enrollments, EnrollmentTransactions.** A request is `[kind, to, expects]`: the
students it names and where each is expected. `Enrollments` serves it in one step. In
`EnrollmentTransactions` a transaction takes the students by ascending number (`Row`),
waits for whoever holds one, checks it against the committed enrollments and commits at
the end; a check that fails, or a crash, rolls everything back. Rows of sections are locked,
too: an assignment first shares its target (`FOR SHARE`), a promotion takes the row of each
student's next section for itself (`INSERT ... ON CONFLICT DO UPDATE`) as it comes to the
student, and both keep them to their commit (`SectionRows`, `LockSection`). Students go up by
number but their sections do not, so two promotions of different students can wait in a
circle. The code does not catch that: PostgreSQL's detector stops one of them
(`DeadlockDetected`, external), which is rolled back and answered with an error. `place` and
`ahead` are the enrollment of this period and the one a promotion writes; a student may also
be enrolled, moved to another program and back meanwhile. The direct assignment of one student
(`PUT students/{id}/assign`, an unconditional upsert without an expected section), the import of
students and changes of the next period's program are not modelled.

**Sectioning.** Each browser has a `local` roster, a `handler` it awaits in, and a `list` of
unassigned students on its way. A roster entry has the section shown and the one believed
saved (`academicSectionId`). Edits change the local roster; the page of created sections
also puts the whole roster on the server after each. `StartSave`, `StartGenerate`,
`StartImport`, `StartApply` and `StartPromote` begin the handlers; each request of a handler
is granted, refused or lost (`SyncGranted`, `SyncRefused`, `SyncLost`), and the roster the handler
started with is written at its end (`KeepNext`), over whatever was edited or pulled meanwhile.
`mine` names the students whose objects the handler's roster shares with the page's, as
JavaScript's in-place marks show in both. `past` is a history variable. A promotion sends the
students who have a next year level (`Rising`): those of the final year (`FinalYear`) and those
taken off go to a list of graduating students, which is left out, and the roster is marked
promoted all the same, with no request if none rises. Left out, too, are the new rosters the
promotion makes for the next period, and, since a handler waits for the one before, an import's
requests or Apply Changes beside another handler.

**GradeEncoding.** `loads` are the runs of `loadFacultyData` under way: rows are read first,
the roster later, and the answer is merged with the page (`Overlaid`, `Merged`). A request that
fails counts as an empty answer: without grades the section looks like an unlocked draft
(`NoRows`), without a roster it is empty, without sections it is forgotten (`Forget`) and the page
has to be opened anew (`Reopen`). An announcement sent while the connection is down is lost
(`AnnouncementLost`); a later one, or a return to the window (`Focus`), makes up for it. `jobs` are
the saves and submissions under way: Save Draft and Yes, Submit stay enabled, so they overlap. Of a
`Promise.all` that fails the other requests stay on their way (`Rest`), and a submission may
arrive after the page has given it up (`Left`). Dates of rows matter by their order only.
`missed`, `fresh`, `newest`, `whole` and `alone` are history variables.

**ReviewPages.** A click takes the grades its page last loaded that fit (`Takes`) and sends one
request each (`Granted`); the first that fails ends it (`Failed`). `shown` is the one status
the chairperson's page gives the section: that of its latest grade. Two dates without
a time compare as midnight does (`Today`).

**Chat.** The hub works through a tab's calls in order, `inbox` delivers in order; a message is
stored, then pushed to connections that have joined. After a break the tab joins again and
asks for the open conversation's history. A history the hub cannot read is answered all the same
with what the cache has (`ChatHub.cs:806-809`); in the model such a call fails (`HubCallFails`).

**Accounts.** A request carries what it registers before and strips after its commit. Creation
and deletion hold the advisory lock from count to commit, updates and deletions the row. The
bootstrap job takes no lock. `unsure` holds the addresses two requests were about at a
time, or one that failed: of these nothing is claimed, so `WalletsFollowAccounts` says nothing
of an overlap or a failure itself, only that they harm no other address.

## 3. Runs

| Run | Result | What it shows |
| --- | --- | --- |
| `ledger_lifecycle` | pass | 5 transactions of four certificates (one in the wrong organisation, one a student), batches, resets: `TypeOK`, `FinalGradesWereApproved`, `HistoryIsLegal`, `StudentSeesALegalPath` |
| `ledger_finality` | violation | `FinalizedIsImmutable` |
| `fabric_concurrency` | pass | 4 concurrent transactions: `FabricTypeOK`, `ImplementsGradeLedger`, `NoLostUpdate`, `ResetIsComplete`, `BatchIsAllOrNothing` |
| `staging_interleaving` | pass | one handler at a time and a fault, or two at once without another: `TypeOK`, `NothingVanishes`, `LedgerGradesWereForwarded`, `LoggedCorrectionsHappened` |
| `staging_retry` | pass | 2 requests, 2 faults, fairness: `RetryFinishes` |
| `staging_stale`, `staging_partial`, `staging_edit` | violation | findings 2 to 4 below |
| `services` | pass | three parts: the chain of promises (`ContractTypeOK`, `Serialized`, `RunsInCallOrder`, `EveryCallAnswered`); a person whose certificate is replaced (`RefusalsEnd`); competing enrollment requests (`TxTypeOK`, `StaleRosterMovesNobody`, `CirclesNeedPromotions`, `ImplementsEnrollments`, `RequestsEnd`) |
| `portal` | pass | nine parts: the gateway cache with a person of two roles and with a stand-in reader (`GatewayTypeOK`, `CachedAreConnected`, `ContractFitsRole`, `RemovedGetsNothing`, `NoGatewayLeaks`, `CacheWithinCapacity`); sectioning (`SavedWasTrue`, `SuccessPlacesEveryone`, `PromotedTogether`); encoding with loads that fail, with saves that fail apart, with clicks that overlap (`LoadsRepair`, `SubmittedAsSent`); review (`CommitIsTrue`); chat (`NothingMissed`); accounts (`RegistrarsWithinLimit`, `WalletsFollowAccounts`); `PagesTypeOK` for the pages |
| `encoding_gaps` | violation | finding 5 |
| `review_partial` | violation | finding 6 |

`MCServices` and `MCPortal` put parts that share no state into one run: a behavior is about
one part, chosen at its start, and the others stay as they began. The next-state relation
of such a part is a conjunction, so TLC counts it as a single action; run alone with the
same bounds and `-coverage`, every action of each of these modules fires.

Every passing property has a mutated definition beside the one it guards (the
operators commented "Mutant of"), with which TLC finds it violated.

**Bounds.** The ledger is checked with two record ids, one of them the genesis record,
since the contract never relates two records except in a batch or a reset; two
grades, so that a change shows; and five transactions: enough for a full life and a
return or a reset after it; the theorems need no bound. Ids of
transactions are handed out in order, which only removes renamings. Two students have the
names a record can carry, so that an id can change hands over a reset. For the
workflow one slot and one id besides the genesis suffice for every hazard of a row and
its record; two requests are the least that race. `MaxVersion = 4` lets a registrar
reopen a final grade once, `MaxFaults` counts crashes, timeouts and failed reads.
Two faults (`staging_retry`) cover a timeout and a crash of the retry; `FaultsOrCompany`
splits `staging_interleaving`, which would have too many states: a second handler runs where the fault
is used up, no late call is left and nothing is logged yet, and at most two corrections are logged
where handlers run one by one; a correction that logs nothing done meets its finalization
within that. In `GatewayCache` two requests
race, two certificates are enough for one to be replaced, and a user and the
fallback identity compete for a cache of one; requests, faults, pruning and restarts are not
bounded (but a contract grows idle only in the part of two roles, and in the other the identity
service does one thing at a time; in each part only the identities it uses are enrolled). `Gateways` is as many as can be open before a request waits for a number; it
limits leaks only. Four operations give every order of calls around a failure.
Two transactions that name the same two students are the least that can wait for each other
or overwrite each other; two sections, an assignment one level up and promotions of both students
or of one are the least that close a circle; a request whose student is elsewhere is one that is
refused.
Sectioning has two browsers, students and sections, two things people do
(`MaxActs`) and one roster on its way at a time (`MaxMessages`): enough for one browser's
handler to meet the other's edit, pull or handler. Both students start enrolled and without a section. The year level is one that has a next
(`FinalYear` is FALSE); who does not rise are those taken off, and the theorem is for both.
The professor's page is three parts: two loads at a time for one student (`Loading`, with one job
at a time, and failed requests, lost announcements and the other term only after two acts), one load and one job for two students whose saves fail apart
(`Saving`), and two saves or submissions at a time for one student (`Clicking`). Three acts are a
grade typed, saved and submitted (two with two loads), three (two) changes an enrollment, a
submission and a review or a change of period.
A section of two students can be half forwarded or committed; three saves or submissions let
the professor come between. Two conversations and two messages, two clicks and two breaks
give every order of push, history and reconnection. Accounts: two desks and four
requests race at one address and fill the limit, which is 1 rather than the code's 2
so that two addresses exceed it; `WithinLimit` is proved for every limit.
Interchangeable actors of each part have the same names and are a symmetry set. The runs whose
configuration says `CHECK_DEADLOCK FALSE` end because such bounds run out.

**Fairness.** `FairSpec` lets every running request go on (WF on `Proceed`): an
ASP.NET handler is not abandoned while the process lives, and a crash is an action
of its own. It also lets the registrar press "finalize" on a row that is again and
again ready (SF on `StartFinalize`). That is a promise of a person, not of the code:
`RetryFinishes` says that a person who keeps trying succeeds. Nothing is assumed of
the other handlers. `RefusalsEnd` needs no fairness: it says that something does not
happen forever. `SerializedContract` assumes that reactions to promises run, as the
event loop ensures, and that ledger calls end, as the Fabric client's timeouts ensure.
`RequestsEnd` assumes that PostgreSQL goes on with a transaction that is not blocked, and
grants a lock that becomes free again and again (SF on `Step`): lock queues are served in
order; and that its detector stops a transaction that waits in a circle (WF on `DeadlockDetected`),
as it does after `deadlock_timeout`. Without the detector `RequestsEnd` fails. `RetryFinishes` leaves out records in `Suspect` (see below) and records that were final
before: a registrar's correction that stops half-way leaves such a record Returned, a bulk
upload may stage a row under its id, and the ledger then refuses to finalize it, however
often it is tried. The run has no corrections, which only matter there.

**What the violations show.**

1. `FinalizedIsImmutable`: the application tells users that finalized ledger records
   are immutable. The contract lets a registrar return one, and the registrar's
   correction uses that.
2. `CleanedUpRowsAreStale`: a bulk upload for an entry whose grade is final stages the
   new grade under the final record's id. It is approved, forwarded, and then
   deleted as "stale" with a success message; the new grade is gone.
3. `FinalizedGradeIsOnLedger`: a finalization issues the grade and fails. The
   row is returned and corrected, comes back, and finalizing skips the issue as the
   record exists: the old grade becomes final and the new one is deleted.
4. `ApprovedGradesStay`: flagging a grade reads the payload and writes it back without
   looking again. A row approved in between gets its old grade back as approved.
5. `SubmittedAreGraded`: the page checks that every student has a grade when the dialog opens. A
   student enrolled, or a change of the term, before "Yes, Submit" is submitted without.
6. `ForwardedSectionsAreWhole`: forwarding stops at the first failure. The grades already
   forwarded are the latest, so the section shows as forwarded, its buttons are disabled,
   and the approved grades that are left cannot be forwarded from the page.

## 4. Proofs

Every invariant and every action property that a passing run checks is also a theorem, for
all values of the constants that satisfy the assumptions; only liveness is left to TLC
(4.7). The larger inductive invariants (`IInv` of
the workflow, `OrderInv`, `SecInv`, `EncodingInv`, `ChatInv`, `WInv`) were given to TLC before they were
proved. The assumptions on the constants are facts of the code or of
the model's encoding (the empty string is neither a grade nor a name, audit events live
under their own prefix, a section's name is no "unassigned"), and say that bounds are
numbers; TLC evaluates them in every run of the module.

### 4.1 The ledger

`GradeLedgerProofs`, for any certificates, records, batches and number of transactions:

| Theorem | States |
| --- | --- |
| `TypeCorrect` | `Spec => []TypeOK` |
| `LegalHistory` | `Spec => []HistoryIsLegal` |
| `FinalGradesApproved` | `Spec => []FinalGradesWereApproved` |
| `StudentsSeeALegalPath` | `Spec => []StudentSeesALegalPath` |

`HistoryIsLegal` is not inductive: the next entry is compared with the entry before it,
but the contract looks at the world state. The invariant `IInv` therefore adds
`WorldIsLastEntry` (the world holds the last value of each history). For
`FinalGradesWereApproved` it adds `EntriesAreSigned` (who may have signed an entry of
each status) and `UnusedAreAbsent` (a key without history is absent). For each function
of the contract a lemma says that what it writes may follow what it read
and is signed by someone entitled; `CommitPreserves` shows that a commit of such
writes preserves `IInv`; `NextPreserves` goes through the actions.
`FinalGradesWereApproved` then follows from `IInv` alone: the entry before a final one
is `DepartmentApproved` with the same grade, and the first entry of a record is signed by
one who may issue, who is not a registrar.

What the student sees is the history, newest first, without its deletions and the entries of
another student. `LiveIsAPath` goes along the history by induction: what is left out of a legal
history leaves a path, since only after a deletion can an id come to another student, and then by
an issue, as at the start. Turned round, the path ends with that issue and begins with the record
as it is.

`FabricLedgerProofs`, under the same assumptions:

| Theorem | States |
| --- | --- |
| `FabricIsAtomic` | `FabricSpec => ImplementsGradeLedger` |
| `NothingLost` | `FabricSpec => []NoLostUpdate` |
| `FinalGradesApprovedInFlight` | `FabricSpec => []FinalGradesWereApproved` |
| `ResetsLeaveGenesis` | `FabricSpec => ResetIsComplete` |
| `BatchesAreWhole` | `FabricSpec => BatchIsAllOrNothing` |
| `FabricTypeCorrect` | `FabricSpec => []FabricTypeOK` |

An endorsed transaction carries what the contract made of a world that may be gone. The
invariant (`Outstanding`) says that there is a world `w` on which the contract accepts
the call with exactly these writes, and that `w` still agrees with the present world on every
key whose version is the one read. Versions make that inductive: a commit gives each key it
writes a version larger than any read before it, or version 0 where it deletes, and
0 was only ever read of an absent key (`Written` supplies that a key that exists was written).
`ReadsOnlyReadSet` shows that each function of the contract looks at nothing outside
`ReadSet`; so a transaction whose versions are all current carries what the contract would
do now (`ValidIsCurrent`) and its commit is a step of `GradeLedger`. `NothingLost` and
`FinalGradesApprovedInFlight` are `LegalHistory` and `FinalGradesApproved` carried over by the
refinement `FabricIsAtomic`.

### 4.2 The grade workflow

`GradeStagingProofs`, for any certificates, records, grades, slots, handlers at once and faults:

| Theorem | States |
| --- | --- |
| `TypeCorrect` | `Spec => []TypeOK` |
| `NoRecordVanishes` | `Spec => []NothingVanishes` |
| `LedgerIsForwarded` | `Spec => []LedgerGradesWereForwarded` |
| `LogIsTrue` | `Spec => []LoggedCorrectionsHappened` |

None of these is inductive, for a handler acts on what it read several steps ago. `Knows` says what
each handler still knows between two steps, by the calls it has left: a finalization carries a grade
that was forwarded (`Finalizes`); before it deletes the row, the record has been final (`CleansUp`), so the
deleted row does not vanish; a correction past its second call has its grade on the ledger
(`Corrects`); one that logs a row it did not find knows that the row's record has been final, since a
row that went has been (`Logs`, from `NothingVanishes`). What is known stays true because it speaks of sets that only grow (`Grows`). `LateInv`
says the same of calls that timed out and may still be committed: an issue among them is of a
forwarded grade (`Backed`). `TableInv` keeps a row in the slot its id was made for, so that a
row is found again by its id whatever happened meanwhile.

### 4.3 The ledger service

`LedgerServiceProofs`, for any set of operations, and for any users, requests, faults, number of
certificates and capacity:

| Theorem | States |
| --- | --- |
| `ContractTypeCorrect` | `ContractSpec => []ContractTypeOK` |
| `InCallOrder` | `ContractSpec => []RunsInCallOrder` |
| `OneAtATime` | `ContractSpec => []Serialized` |
| `CacheConnected` | `GatewaySpec => []CachedAreConnected` |
| `RolesKept` | `GatewaySpec => []ContractFitsRole` |
| `RemovedStayOut` | `GatewaySpec => []RemovedGetsNothing` |
| `NothingLeaks` | `GatewaySpec => []NoGatewayLeaks` |
| `GatewayTypeCorrect` | `GatewaySpec => []GatewayTypeOK` |
| `CapacityKept` | `GatewaySpec => []CacheWithinCapacity` |

An operation waits only for the one called just before it. `ContractInv` makes
that enough: calls are numbered without gaps or repetitions (`Numbered`), each hangs on the
one with the number before (`Chained`), so when that one has ended, everything earlier has,
by `RunsInCallOrder` itself. `Serialized` follows, since of two running operations
one was called earlier.

The cache is inductive only together with the requests that have connected and not cached
yet: `PoolSound` says that cached gateways are open, that each belongs to one user, and that
none is the gateway of such a request; `PendingApart` that two such requests have gateways of their own.
`AbsentStays` is that a request which began without a certificate has found none since,
and so never connects. `NothingLeaks` is about steps: of each step but the two it names
it is shown that a gateway that is open after it was open or belongs to a request before, and is
disconnected whenever its entry goes (`RequestLeaks`, `OthersLeakNothing`). When `Store` replaces an
entry, the requests that were opening for that user are crowded from then on, and `Miss` took the user's
entry out: so a request that is not crowded has none to replace (`OnlyRivalsCache`).

Those theorems do without the order of use. The last two need it, since what is evicted is read off
the order: `OrderInv` says that it lists the cached users and each of them once (`Ordered`), so that
evicting its head makes room (`EvictMakesRoom`), and that what is cached and opening together is within
the bound, which is inductive then: a request that opens has just left room for one and finds at
most all the others opening, and one that stores stops opening.

### 4.4 Enrollment and sectioning

`EnrollmentProofs`, for any students, sections, number of transactions, browsers and messages:

| Theorem | States |
| --- | --- |
| `TxTypeCorrect` | `TxSpec => []TxTypeOK` |
| `LockingIsSound` | `TxSpec => []TxInv` |
| `StaleRostersStop` | `TxSpec => []StaleRosterMovesNobody` |
| `CirclesArePromotions` | `TxSpec => []CirclesNeedPromotions` |
| `RequestsAreAtomic` | `TxSpec => ImplementsEnrollments` |
| `MarksAreTrue` | `ClientSpec => []SavedWasTrue` |
| `NobodyLeftOut` | `ClientSpec => []SuccessPlacesEveryone` |
| `PromotedAreAhead` | `ClientSpec => []PromotedTogether` |

`TxInv` says that locks exclude each other (`LocksExclusive`), that what a transaction has
checked still holds (`ChecksHold`), and that students are locked in order (`LocksAscend`).
The first makes the second inductive: a commit writes only students the transaction has locked, which
no other has checked. From `ChecksHold` a commit, seen from the committed enrollments, is
`Serve` of the whole request, every other step a change of one student or a stutter. From
`LocksAscend` whoever is waited for because of a student waits for a higher number, so in
a circle somebody waits for a section, and that is held or wanted by a promotion.

A roster is copied from browser to server to message to browser, so nothing about one copy is
inductive. `SecInv` says of every copy there is that it is `Sane`: what it calls saved was saved
(`SavedIn`), and who rises in a promoted roster and has a section is promoted (`PromotedIn`). An edit leaves a
copy sane because it takes over what was called saved (`From`), a request of any browser because sections
once had and levels once reached stay reached (`Grows`). The roster a handler is still at work on need
not be sane before it is kept; of it `MarksOK` says that whoever is in a section already done is
marked as saved there, from which the success it reports at the end follows.

### 4.5 The pages

`PagesProofs`, for any number of students, grades, loads, clicks, conversations and messages; a section
has finitely many students:

| Theorem | States |
| --- | --- |
| `CommitsAreTrue` | `ReviewSpec => []CommitIsTrue` |
| `SubmissionsAreTrue` | `EncodingSpec => SubmittedAsSent` |
| `LoadsDoRepair` | `EncodingSpec => []LoadsRepair` |
| `NothingIsMissed` | `ChatSpec => []NothingMissed` |
| `PagesTypeCorrect` | `PagesSpec => []PagesTypeOK` |

Review: only the registrar makes rows final, and a row that is final stays so, since the handlers of the
other pages refuse it. So the rows a page has committed only grow more true while the page
works off the rest of its batch.

Encoding: a submission that was `alone` finds on the server what was sent with it, because every save
that was answered left its row as sent (`SentIsStaged`) and no other save has been on its way since it
began. Submissions that overlap a save of another click are exempt, for there the property is
false: the older save may be the last to reach a row, which then has the older grade in a submitted
section. A load sets the page right because the newest one is for the page's term and, once it has
read the rows, they change only with an announcement (`NewestIsCurrent`), whose merge keeps no lock the rows do not have (`MergedLocks`). That needs the
load to be answered whole and every announcement to be heard: until the next such load, a page whose
request for the grades failed shows a submitted section as a draft that can be edited.

Chat: a message is stored, pushed and read at different times. `AllComing` follows each stored message of
the open conversation: the tab has it, or it is yet to be pushed to a tab that has joined, or in a
history that is asked for, read or on its way, or in the inbox. `JoinsFirst` is what makes a history asked for at the
connection come after the join, and so miss nothing that is pushed before it.

`PagesSpec` is the four specifications at once, so `PagesTypeOK` is the conjunction of four theorems.
`SheetStatus` and `SectionStatus` choose the furthest status among the latest rows; that there is one
is proved from the order of the statuses (`SheetStatusIsOne`, `SectionStatusIsOne`).

### 4.6 Accounts

`AccountsProofs`, for any limit, addresses, desks and number of requests; there are finitely many
rows, and the word the model writes for "no address" is none:

| Theorem | States |
| --- | --- |
| `WithinLimit` | `AccountsSpec => []RegistrarsWithinLimit` |
| `WalletsFollow` | `AccountsSpec => []WalletsFollowAccounts` |

A creation counts the registrars long before it inserts, so the limit is not inductive. `IInv` adds
that whoever is about to insert or delete holds the lock and nobody else does (`LockHeld`), that
an update's row is still the registrar's it read, since it is locked (`RowsClaimed`), and that while a
creation is under way there is room for it (`RoomLeft`). A bootstrap
adds one to both sides of the inequality.

An identity is registered before the commit of an account and stripped after it, so an address's identity
and its account disagree in between. `WInv` describes that between: at an address that is not `unsure`,
at most one request is at work (`AddressKept`); it has planned to strip all of its addresses but the one that will be active
(`Planned`); and of each address it is about, `Halfway` says how the identity, the account
and what is left to strip fit together. Without such a request they agree (`Settled`).

### 4.7 Out of reach, and how induction is done

Only model-checked are the liveness properties `RetryFinishes`, `EveryCallAnswered`, `RefusalsEnd` and
`RequestsEnd`. Three of them assume fairness, and the prover does not know ENABLED; `RefusalsEnd` assumes
none, but that something stops is an argument about a whole behavior that counts certificates, which
temporal logic without induction does not give.

The library's induction theorems take the predicate as an operator, which the provers cannot
instantiate. `SetInduction` therefore derives induction about sets from the well-foundedness of the
finite subsets of a set: `InductiveSet` (a set with 0 that is closed under successor has every number) and
`LeastExists`. With these, facts about recursive functions are proved: `LiveIsAPath`
about a history without its deletions, `KeptExists` about what is kept of a sequence. RECURSIVE
operators, and library operators defined by them, are out of reach; the modules with theorems
have none.

## 5. Not modelled

* Reads of the contract other than the student's list, which only format.
* A revision note sent along with a new grade, since no check reads it.
* The content of audit events; the five types are one supported and one unsupported.
* A registrar's network failures inside PostgreSQL transactions: a transaction is
  atomic, as PostgreSQL guarantees.
* Two sections in one request of `GradeStaging`, the access checks, e-mail and chat
  notifications, PDF and IPFS.
* The season reset, which deletes staged rows by design.
* Staff and student accounts, registration requests, student numbers and password resets:
  one transaction each, guarded by unique indexes; the older route by which a registrar
  can be registered (`RequestAccess`) passes the limit by, as the bootstrap job does, but no page
  offers it.
* Curriculum, support tickets, settings: every transition is one handler that writes one
  row. Bulk uploads other than of grades are upserts row by row.
* The login limiter keeps its counts in a library, in memory or in Redis; tokens are
  stateless.
* Groups, presence, delivered and seen marks, files and deletions of the chat.
* Dashboards, reports, printing, CSV formats, forms and layout of the frontend.

Most of the JavaScript is the last: the share of it the modules stand for is what keeps
state of its own against the server's. Some of it cannot run at all and is left
out for that reason: `App.jsx`, `pages/`, `GradeFinalization`, `GradingTable`,
`BulkUploadModal` and `sessionRecovery` are imported by nothing that is mounted;
`RegistrarStudentSectioning.jsx:1311-1836` and `1843-2495` follow a `return`, as
does most of `chairperson/StudentSectioning.jsx` (740-1840); `FacultyLoading.jsx` imports two
functions `services/api.js` does not export and passes the wrong arguments when it
removes an assignment.

`Suspect` stands for a flaw of the ledger read in `FinalizeGrade`: it takes any answer
that contains the word "error" for a failure, so a record with such a note cannot be
finalized by a retry once it exists. The safety runs include such records.

## 6. Plan

What is worth adding next, in this order:

1. The season reset joined to `GradeStaging`, with the proof carried over: a row may then
   vanish by a reset.
2. `Sectioning` over `EnrollmentTransactions` instead of `Enrollments`, which the refinement
   allows, with a third student.
3. Staff accounts with their one chairperson per program, registration requests that are
   approved and denied at once, and student numbers.
4. Groups of the chat, and its delivered and seen marks.
5. Curriculum versions against publication and assignment; the upload worker.
