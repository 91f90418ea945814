----------------------------- MODULE Sectioning -----------------------------
(***************************************************************************)
(* The registrars' sectioning pages (RegistrarStudentSectioning,           *)
(* RegistrarSectionsCreated) over the enrollment service.                  *)
(*                                                                         *)
(* Each browser keeps a roster of the department in localStorage and shows *)
(* it.  Edits change that copy; saving sends one assignment request per    *)
(* section, in order, and awaits each.  Saved rosters are also put, whole, *)
(* under a key the server shares; every change the server makes is         *)
(* announced to every browser, which then pulls the shared roster over its *)
(* own.  Requests and answers pass each other on the way.                  *)
(*                                                                         *)
(* Navigating away between the start and the end of a handler is left out, *)
(* and so is a handler started while another awaits.  The roster is that   *)
(* of one year level: a browser's others, and the new ones a promotion     *)
(* makes for the next period, live by the same rules beside it.            *)
(***************************************************************************)
EXTENDS Enrollments, FiniteSets, FiniteSetsExt

CONSTANTS
    Browsers,     \* registrars' browsers
    Off,          \* taken out of its section by hand: no year level either
    FinalYear,    \* the year level is the last: nobody goes higher
    Files,        \* the students an imported file may hold
    MaxActs,      \* bound: edits, handlers started, enrollments changed elsewhere
    MaxMessages   \* bound: rosters and lists on their way at one time

ASSUME SectioningAssumption ==
    /\ Sections \subseteq Nat \ {0}
    /\ Off \notin Sections \cup {Unassigned, NotEnrolled}
    /\ FinalYear \in BOOLEAN
    /\ Files \subseteq (SUBSET Ids) \ {{}}
    /\ MaxActs \in Nat /\ MaxMessages \in Nat

\* A student in a roster: the section the page shows, and academicSectionId, the one
\* it believes is saved.
Entry == [id : Ids, sec : Sections \cup {Unassigned, Off}, saved : Sections \cup {Unassigned}]

Rosters == [status : {"none", "Sectioning", "Promoted"}, plans : SUBSET Sections,
            here : SUBSET Entry, gone : SUBSET [id : Ids, from : Sections \cup {Unassigned, Off}]]

NoRoster == [status |-> "none", plans |-> {}, here |-> {}, gone |-> {}]

\* Mutant of New: a student that enters a section counts as saved there.
NewSaved(id, c) == [id |-> id, sec |-> c, saved |-> c]

\* A student that enters a roster: nothing is saved yet.
New(id, c) == [id |-> id, sec |-> c, saved |-> Unassigned]

IdsOf(entries) == {e.id : e \in entries}

\* The pages do not show promoted rosters.
Shown(r) == r.status = "Sectioning"

VARIABLES
    past,       \* history: the sections each student has been in
    local,      \* the roster of each browser
    list,       \* unassigned students on their way to a browser, None if none are
    handler,    \* the handler each browser awaits in
    shared,     \* the roster the server shares
    puts,       \* rosters on their way to the server
    stale,      \* browsers that were told to pull
    answers,    \* rosters on their way to browsers
    acts        \* what people have done so far

clientVars == <<past, local, list, handler, shared, puts, stale, answers, acts>>
allVars == <<place, ahead, clientVars>>

\* mine: students whose objects the handler's roster shares with the page's.
\* touched: the registrar has edited the page's roster since.
NoHandler == [kind |-> "none", todo |-> {}, next |-> NoRoster, mine |-> {}, touched |-> FALSE]

None == [asked |-> FALSE, ids |-> {}]

-----------------------------------------------------------------------------
(* Edits of a roster.                                                      *)

\* The enrolled students without a section join those a section was given to; the
\* others the roster had go.
Merge(r, ids) ==
    LET kept == {e \in r.here : e.sec # Unassigned}
    IN  IF r.status = "none" /\ ids = {}
        THEN r
        ELSE [r EXCEPT !.status = IF @ = "none" THEN "Sectioning" ELSE @,
                       !.here = kept \cup {New(id, Unassigned) : id \in ids \ IdsOf(kept)}]

Move(r, id, c) == [r EXCEPT !.here = {IF e.id = id THEN [e EXCEPT !.sec = c] ELSE e : e \in @}]

\* A removal keeps the section; it forgets what was saved only when restored.
RemoveStudent(r, e) ==
    [r EXCEPT !.here = {f \in @ : f.id # e.id},
              !.gone = @ \cup {[id |-> e.id, from |-> e.sec]}]

Back(r, g, c) == [r EXCEPT !.here = @ \cup {New(g.id, IF g.from \in r.plans THEN g.from ELSE c)},
                           !.gone = {h \in @ : h.id # g.id}]

\* RegistrarStudentSectioning restores a student who is not in the roster.
Restore(r, g) == IF g.id \in IdsOf(r.here) THEN r ELSE Back(r, g, Off)

\* RegistrarSectionsCreated restores, if need be into the section it shows.
RestoreShown(r, g, c) == Back(r, g, c)

DeleteSection(r, c) ==
    [r EXCEPT !.plans = @ \ {c}, !.here = {e \in @ : e.sec # c}, !.gone = {g \in @ : g.from # c}]

\* The file's students replace the section's.
ImportSection(r, c, ids) ==
    [r EXCEPT !.here = {e \in @ : e.sec # c /\ e.id \notin ids} \cup {New(id, c) : id \in ids}]

\* automaticStudentId: one more than any number the page knows of.
NextId(r) == Max(Students \cup IdsOf(r.here) \cup {g.id : g \in r.gone} \cup {0}) + 1

Add(r, c) == [r EXCEPT !.here = @ \cup {New(NextId(r), c)}]

\* Students are dealt to sections in turn.
Deals(ids, cs) ==
    {f \in [ids -> cs] :
        \A c, d \in cs : Cardinality({i \in ids : f[i] = c}) <= Cardinality({i \in ids : f[i] = d}) + 1}

Dealt(r, f) ==
    [r EXCEPT !.here = {IF e.id \in DOMAIN f THEN [e EXCEPT !.sec = f[e.id]] ELSE e : e \in @}]

\* The sections 1..n are made unless they exist; who has none of the roster's gets one.
WithSections(r, n) ==
    [r EXCEPT !.status = "Sectioning", !.plans = @ \cup (Sections \cap 1..n)]

Needing(r) == {e.id : e \in {f \in r.here : f.sec \notin r.plans}}

-----------------------------------------------------------------------------
(* Sharing.                                                                *)

\* Where a put of b's roster r goes.  Two that are alike are one.
asking == {b \in Browsers : list[b].asked}

Put(b, r) == puts \cup {[by |-> b, roster |-> r]}

CanSend == Cardinality(puts) + Cardinality(answers) + Cardinality(asking) < MaxMessages

CanPut(b, r) == CanSend \/ [by |-> b, roster |-> r] \in puts

\* The server tells everybody, whoever made the change.
Announce == stale' = Browsers

\* The server stores the roster, over any other.
PutArrives(m) ==
    /\ m \in puts
    /\ shared' = m.roster
    /\ puts' = puts \ {m}
    /\ Announce
    /\ UNCHANGED <<place, ahead, past, local, list, handler, answers, acts>>

\* A failed put is only logged.
PutFails(m) ==
    /\ m \in puts
    /\ puts' = puts \ {m}
    /\ UNCHANGED <<place, ahead, past, local, list, handler, shared, stale, answers, acts>>

PullRead(b) ==
    /\ b \in stale
    /\ CanSend
    /\ stale' = stale \ {b}
    /\ answers' = answers \cup {[to |-> b, roster |-> shared]}
    /\ UNCHANGED <<place, ahead, past, local, list, handler, shared, puts, acts>>

\* The browser takes the shared roster for its own; if there is none it offers its own.
PullAnswered(m) ==
    LET b == m.to
    IN  /\ m \in answers
        /\ answers' = answers \ {m}
        /\ IF m.roster # NoRoster
           THEN /\ local' = [local EXCEPT ![b] = m.roster]
                /\ handler' = [handler EXCEPT ![b].mine = {}]
                /\ UNCHANGED puts
           ELSE /\ IF local[b] # NoRoster
                   THEN puts' = Put(b, local[b])
                   ELSE UNCHANGED puts
                /\ UNCHANGED <<local, handler>>
        /\ UNCHANGED <<place, ahead, past, list, shared, stale, acts>>

-----------------------------------------------------------------------------
(* The pages.                                                              *)

Act == acts < MaxActs /\ acts' = acts + 1

\* The effect asks for the unassigned students; an earlier question is forgotten.  It
\* may while an import is saved.
ListRead(b) ==
    /\ handler[b].kind \in {"none", "import"}
    /\ CanSend \/ list[b].asked
    /\ list' = [list EXCEPT ![b] = [asked |-> TRUE, ids |-> {s \in Students : place[s] = Unassigned}]]
    /\ UNCHANGED <<place, ahead, past, local, handler, shared, puts, stale, answers, acts>>

ListAnswered(b) ==
    /\ list[b].asked
    /\ local' = [local EXCEPT ![b] = Merge(@, list[b].ids)]
    /\ list' = [list EXCEPT ![b] = None]
    /\ UNCHANGED <<place, ahead, past, handler, shared, puts, stale, answers, acts>>

\* The registrar makes r of the roster, which concerns the students in ids.
Edit(b, r, ids) ==
    /\ r # local[b]
    /\ Act
    /\ local' = [local EXCEPT ![b] = r]
    /\ handler' = [handler EXCEPT ![b].mine = @ \ ids, ![b].touched = handler[b].kind # "none"]
    /\ UNCHANGED <<place, ahead, past, list, shared, stale, answers>>

\* Edits both pages have: a student moves or is removed, a section is deleted, a new
\* student comes to a section.
CommonEdit(b) ==
    LET r == local[b]
    IN  \/ \E e \in r.here, c \in r.plans : Edit(b, Move(r, e.id, c), {e.id})
        \/ \E e \in r.here : Edit(b, RemoveStudent(r, e), {e.id})
        \/ \E c \in r.plans : Edit(b, DeleteSection(r, c), {})
        \/ \E c \in r.plans : NextId(r) \in Ids /\ Edit(b, Add(r, c), {NextId(r)})

\* RegistrarStudentSectioning: edits stay in the browser.  There a student can also be
\* taken off, and all be dealt anew.
EditSectioning(b) ==
    LET r == local[b]
    IN  /\ Shown(r)
        /\ \/ CommonEdit(b)
           \/ \E e \in r.here : Edit(b, Move(r, e.id, Off), {e.id})
           \/ \E g \in r.gone : Edit(b, Restore(r, g), {g.id})
           \/ /\ Cardinality(r.plans) >= 2 /\ Cardinality(IdsOf(r.here)) >= 2
              /\ \E f \in Deals(IdsOf(r.here), r.plans) : Edit(b, Dealt(r, f), IdsOf(r.here))
        /\ UNCHANGED puts

\* RegistrarSectionsCreated: each edit is shared at once.
EditCreated(b) ==
    LET r == local[b]
    IN  /\ Shown(r) /\ r.plans # {}
        /\ \/ CommonEdit(b)
           \/ \E g \in r.gone, c \in r.plans : Edit(b, RestoreShown(r, g, c), {g.id})
           \/ \E c \in r.plans, ids \in Files : Edit(b, ImportSection(r, c, ids), Ids)
        /\ CanPut(b, local'[b])
        /\ puts' = Put(b, local'[b])

-----------------------------------------------------------------------------
(* Handlers.                                                               *)

Start(b, kind, next, mine) ==
    /\ handler[b].kind = "none"
    /\ Act
    /\ handler' = [handler EXCEPT ![b] =
           [kind |-> kind, todo |-> next.plans, next |-> next, mine |-> mine, touched |-> FALSE]]
    /\ UNCHANGED <<place, ahead, past, list, shared, stale, answers>>

StartSave(b) ==
    /\ Shown(local[b]) /\ local[b].plans # {}
    /\ Start(b, "save", local[b], IdsOf(local[b].here))
    /\ UNCHANGED <<local, puts>>

\* The roster is made before the requests and kept after them.
StartGenerate(b) ==
    /\ ~list[b].asked
    /\ local[b].status # "Promoted"
    /\ \E n \in Sections :
          LET r == WithSections(local[b], n)
          IN  \E f \in Deals(Needing(r), r.plans) :
                 Start(b, "generate", Dealt(r, f), IdsOf(r.here) \ Needing(r))
    /\ UNCHANGED <<local, puts>>

\* A file's students are kept and shared first; the requests follow.
StartImport(b) ==
    /\ Shown(local[b])
    /\ \E c \in local[b].plans, ids \in Files :
          LET r == ImportSection(local[b], c, ids)
          IN  /\ CanPut(b, r)
              /\ Start(b, "import", r, IdsOf(r.here))
              /\ local' = [local EXCEPT ![b] = r]
              /\ puts' = Put(b, r)

\* Apply Changes.
StartApply(b) ==
    /\ Shown(local[b]) /\ local[b].plans # {}
    /\ CanPut(b, local[b])
    /\ Start(b, "apply", local[b], IdsOf(local[b].here))
    /\ puts' = Put(b, local[b])
    /\ UNCHANGED local

\* Promote Academic Year: one request, then the roster is kept as promoted.
StartPromote(b) ==
    /\ Shown(local[b]) /\ local[b].plans # {} /\ local[b].here # {}
    /\ Start(b, "promote", [local[b] EXCEPT !.status = "Promoted"], {})
    /\ UNCHANGED <<local, puts>>

Syncing(b) == handler[b].kind \notin {"none", "promote"} /\ handler[b].todo # {}

\* The section whose request is next, and its students.
Turn(b) == Min(handler[b].todo)
Group(b) == {e \in handler[b].next.here : e.sec = Turn(b)}

\* The section the roster believes saved is named when it is another one.
Assignment(es, c) ==
    [kind |-> "assign", to |-> c,
     expects |-> [id \in IdsOf(es) |->
         LET other == {e.saved : e \in {f \in es : f.id = id}} \ {c, Unassigned}
         IN  IF other = {} THEN Unassigned ELSE CHOOSE d \in other : TRUE]]

Promotion(es) ==
    [kind |-> "promote", to |-> NotEnrolled,
     expects |-> [id \in IdsOf(es) |-> (CHOOSE e \in es : e.id = id).sec]]

\* The server grants the request, and remembers where students have been.
Grant(req) ==
    /\ Serve(req)
    /\ past' = [s \in Students |-> past[s] \cup ({place'[s]} \cap Sections)]
    /\ Announce

Marked(entries, ids, c) ==
    {IF e.id \in ids /\ e.sec = c THEN [e EXCEPT !.saved = c] ELSE e : e \in entries}

\* A section without students needs no request.
SyncEmpty(b) ==
    /\ Syncing(b) /\ Group(b) = {}
    /\ handler' = [handler EXCEPT ![b].todo = @ \ {Turn(b)}]
    /\ UNCHANGED <<place, ahead, past, local, list, shared, puts, stale, answers, acts>>

\* The request is granted: the students are marked saved, also on the page as far as
\* the objects are the same.
SyncGranted(b) ==
    LET c   == Turn(b)
        ids == IdsOf(Group(b))
    IN  /\ Syncing(b) /\ Group(b) # {}
        /\ Grant(Assignment(Group(b), c))
        /\ handler' = [handler EXCEPT ![b].todo = @ \ {c},
                                      ![b].next.here = Marked(@, ids, c)]
        /\ local' = [local EXCEPT ![b].here = Marked(@, ids \cap handler[b].mine, c)]
        /\ UNCHANGED <<list, shared, puts, answers, acts>>

\* Mutant of GiveUp: the next section is tried.
GiveUpOne(b) ==
    /\ handler' = IF handler[b].todo = {} \/ handler[b].kind = "promote"
                  THEN [handler EXCEPT ![b] = NoHandler]
                  ELSE [handler EXCEPT ![b].todo = @ \ {Turn(b)}]
    /\ UNCHANGED <<local, list, shared, puts, answers, acts>>

\* The handler ends with an alert; sections before this one stay saved.
GiveUp(b) ==
    /\ handler' = [handler EXCEPT ![b] = NoHandler]
    /\ UNCHANGED <<local, list, shared, puts, answers, acts>>

SyncRefused(b) ==
    /\ Syncing(b) /\ Group(b) # {}
    /\ ~Acceptable(place, ahead, Assignment(Group(b), Turn(b)))
    /\ GiveUp(b)
    /\ UNCHANGED <<place, ahead, past, stale>>

\* The request is lost, or its answer after it was granted.
SyncLost(b) ==
    /\ Syncing(b) /\ Group(b) # {}
    /\ \/ UNCHANGED <<place, ahead, past, stale>>
       \/ Grant(Assignment(Group(b), Turn(b)))
    /\ GiveUp(b)

\* The roster the handler started from replaces whatever the page has by now.
KeepNext(b) ==
    /\ CanPut(b, handler[b].next)
    /\ local' = [local EXCEPT ![b] = handler[b].next]
    /\ puts' = Put(b, handler[b].next)
    /\ handler' = [handler EXCEPT ![b] = NoHandler]

Finish(b) ==
    /\ handler[b].kind \notin {"none", "promote"} /\ handler[b].todo = {}
    /\ IF handler[b].kind \in {"save", "generate"}
       THEN KeepNext(b) /\ UNCHANGED <<list, shared, answers, acts>>
       ELSE GiveUp(b)
    /\ UNCHANGED <<place, ahead, past, stale>>

\* Students with a next year level.  The others go on a list for graduation.
Rising(es) == {e \in es : ~FinalYear /\ e.sec # Off}

Promotable(es) ==
    /\ \A e \in es : e.sec \in Sections
    /\ Cardinality(IdsOf(es)) = Cardinality(es)

\* The rising students are promoted at once, with no request if there are none; the
\* roster is kept as promoted.
PromoteGranted(b) ==
    LET es == Rising(handler[b].next.here)
    IN  /\ handler[b].kind = "promote"
        /\ \/ es = {} /\ UNCHANGED <<place, ahead, past, stale>>
           \/ es # {} /\ Promotable(es) /\ Grant(Promotion(es))
        /\ KeepNext(b)
        /\ UNCHANGED <<list, shared, answers, acts>>

\* Mutant of PromoteFails: the roster is kept as promoted before the request.
PromoteFailsKept(b) ==
    /\ handler[b].kind = "promote"
    /\ KeepNext(b)
    /\ UNCHANGED <<place, ahead, past, list, shared, stale, answers, acts>>

\* The request, which may hold students of other year levels, is refused or lost, or its
\* answer is.
PromoteFails(b) ==
    LET es == Rising(handler[b].next.here)
    IN  /\ handler[b].kind = "promote"
        /\ \/ UNCHANGED <<place, ahead, past, stale>>
           \/ es # {} /\ Promotable(es) /\ Grant(Promotion(es))
        /\ GiveUp(b)

\* The student's enrollment changes elsewhere.
Registry(s) ==
    /\ Enroll(s) \/ Leave(s)
    /\ Act
    /\ UNCHANGED <<past, local, list, handler, shared, puts, stale, answers>>

-----------------------------------------------------------------------------
ClientInit ==
    /\ Init
    /\ past = [s \in Students |-> {}]
    /\ local = [b \in Browsers |-> NoRoster]
    /\ list = [b \in Browsers |-> None]
    /\ handler = [b \in Browsers |-> NoHandler]
    /\ shared = NoRoster
    /\ puts = {}
    /\ stale = {}
    /\ answers = {}
    /\ acts = 0

Page(b) ==
    \/ ListRead(b)
    \/ ListAnswered(b)
    \/ EditSectioning(b)
    \/ EditCreated(b)
    \/ StartSave(b) \/ StartGenerate(b) \/ StartImport(b) \/ StartApply(b) \/ StartPromote(b)
    \/ SyncEmpty(b) \/ SyncGranted(b) \/ SyncRefused(b) \/ SyncLost(b)
    \/ Finish(b)
    \/ PromoteGranted(b) \/ PromoteFails(b)
    \/ PullRead(b)

ClientNext ==
    \/ \E b \in Browsers : Page(b)
    \/ \E m \in puts : PutArrives(m) \/ PutFails(m)
    \/ \E m \in answers : PullAnswered(m)
    \/ \E s \in Students : Registry(s)

ClientSpec == ClientInit /\ [][ClientNext]_allVars

-----------------------------------------------------------------------------
(* Properties.                                                             *)

\* Every roster that exists somewhere.
AllRosters ==
    {local[b] : b \in Browsers} \cup {handler[b].next : b \in Browsers} \cup {shared}
        \cup {m.roster : m \in puts \cup answers}

\* Enrollments and rosters have their types; what is on its way is a roster.
ClientTypeOK ==
    /\ TypeOK
    /\ past \in [Students -> SUBSET Sections]
    /\ AllRosters \subseteq Rosters
    /\ \A b \in Browsers :
        /\ list[b] \in [asked : BOOLEAN, ids : SUBSET Students]
        /\ handler[b].todo \subseteq handler[b].next.plans
        /\ handler[b].mine \subseteq Ids
    /\ stale \subseteq Browsers

\* What a roster calls a student's saved section, the server did give the student,
\* however the roster travelled since and whichever request failed half way.
SavedWasTrue ==
    \A r \in AllRosters : \A e \in r.here : e.saved # Unassigned => e.saved \in past[e.id]

\* "Sections saved and synced successfully" is not said of a roster of which a student
\* of a finished section was left out.
SuccessPlacesEveryone ==
    \A b \in Browsers :
        handler[b].kind \notin {"none", "promote"} =>
            \A e \in handler[b].next.here :
                e.sec \in handler[b].next.plans \ handler[b].todo => e.saved = e.sec

\* A roster that any page, the server or a message has as promoted: each student it
\* has in a section, other than of the final year, is enrolled one level up.
PromotedTogether ==
    \A r \in AllRosters \ {handler[b].next : b \in Browsers} :
        r.status = "Promoted" =>
            \A e \in Rising(r.here) : e.sec \in Sections => ahead[e.id] # NotEnrolled
=============================================================================
