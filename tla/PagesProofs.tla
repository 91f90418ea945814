---------------------------- MODULE PagesProofs ----------------------------
(***************************************************************************)
(* The pages of the web application, each for any number of students,      *)
(* grades, requests and messages: what the registrar's page reports as     *)
(* committed is on the ledger; what a professor's page submits is what was *)
(* sent with it, and its locks follow the server; a chat at rest is whole. *)
(***************************************************************************)
EXTENDS Pages, EnrollmentProofs, Functions, SequenceTheorems

-----------------------------------------------------------------------------
(* The registrar's and the chairperson's pages (ReviewPages).              *)

\* Every grade has a status; when it was dated does not matter here.
RowsHaveStatus ==
    /\ rows = [s \in Class |-> rows[s]]
    /\ \A s \in Class : rows[s] = [status |-> rows[s].status, at |-> rows[s].at]

\* A click never has more to do than it took; only the registrar commits.
BatchesShrink ==
    /\ batch = [p \in Pages |-> batch[p]]
    /\ \A p \in Pages :
        /\ batch[p] = [kind |-> batch[p].kind, took |-> batch[p].took, todo |-> batch[p].todo]
        /\ batch[p].kind \in {"none", "approve", "forward", "return", "commit"}
        /\ batch[p].took \subseteq Class
        /\ batch[p].todo \subseteq batch[p].took
        /\ batch[p].kind = "none" => batch[p].todo = {}
        /\ batch[p].kind = "commit" => p = "registrar"

ReviewInv == RowsHaveStatus /\ BatchesShrink /\ CommitIsTrue

\* A grade on the ledger stays there.
FinalStays == \A s \in Class : rows[s].status = "final" => rows'[s].status = "final"

-----------------------------------------------------------------------------
(* The server.                                                             *)

\* Dating some rows anew leaves the statuses of the others alone.
LEMMA DatedKeepsOthers ==
    ASSUME RowsHaveStatus, NEW S, NEW st, NEW at, Dated(S, st, at),
           \A s \in S \cap Class : rows[s].status = "final" => st = "final"
    PROVE  /\ RowsHaveStatus' /\ FinalStays
           /\ \A s \in S \cap Class : rows'[s].status = st
<1>1. rows' = [s \in Class |-> rows'[s]] BY DEF Dated
<1>2. ASSUME NEW s \in Class, s \in S PROVE rows'[s] = [status |-> st, at |-> at]
  BY <1>2 DEF Dated
<1>3. ASSUME NEW s \in Class, s \notin S
      PROVE  rows'[s] = [rows[s] EXCEPT !.at = Rank(S, s)]
  BY <1>3 DEF Dated
<1>4. ASSUME NEW s \in Class, s \notin S
      PROVE  rows'[s] = [status |-> rows[s].status, at |-> Rank(S, s)]
  <2> DEFINE n == Rank(S, s)
  <2>1. rows'[s] = [rows[s] EXCEPT !.at = n] BY <1>3, <1>4
  <2>2. rows[s] = [status |-> rows[s].status, at |-> rows[s].at] BY DEF RowsHaveStatus
  <2> HIDE DEF n
  <2>3. rows'[s] = [status |-> rows[s].status, at |-> n] BY <2>1, <2>2
  <2> QED BY <2>3 DEF n
<1>5. \A s \in Class : rows'[s] = [status |-> rows'[s].status, at |-> rows'[s].at]
  <2> SUFFICES ASSUME NEW s \in Class
               PROVE  rows'[s] = [status |-> rows'[s].status, at |-> rows'[s].at]
    OBVIOUS
  <2> DEFINE n == Rank(S, s)
  <2>1. rows'[s] = [status |-> st, at |-> at]
        \/ rows'[s] = [status |-> rows[s].status, at |-> n]
    BY <1>2, <1>4
  <2> HIDE DEF n
  <2> QED BY <2>1
<1>6. \A s \in Class : rows'[s].status = IF s \in S THEN st ELSE rows[s].status
  <2> SUFFICES ASSUME NEW s \in Class
               PROVE  rows'[s].status = IF s \in S THEN st ELSE rows[s].status
    OBVIOUS
  <2> DEFINE n == Rank(S, s)
  <2>1. s \notin S => rows'[s] = [status |-> rows[s].status, at |-> n] BY <1>4
  <2> HIDE DEF n
  <2> QED BY <1>2, <2>1
<1> QED BY <1>1, <1>5, <1>6 DEF RowsHaveStatus, FinalStays

LEMMA NowKeepsOthers ==
    ASSUME RowsHaveStatus, NEW S, NEW st, Now(S, st) \/ Today(S, st),
           \A s \in S \cap Class : rows[s].status = "final" => st = "final"
    PROVE  /\ RowsHaveStatus' /\ FinalStays
           /\ \A s \in S \cap Class : rows'[s].status = st
BY DatedKeepsOthers DEF Now, Today

\* Whatever is granted, a grade on the ledger stays, and a commit puts one there.
LEMMA ServeKeepsFinal ==
    ASSUME RowsHaveStatus, NEW s \in Class, NEW kind, ServeGrade(kind, s),
           kind \in {"approve", "forward", "return", "commit"}
    PROVE  /\ RowsHaveStatus' /\ FinalStays
           /\ kind = "commit" => rows'[s].status = "final"
<1>1. CASE kind = "approve"
  <2>1. rows[s].status # "final" /\ (Now({s}, "approved") \/ rows' = rows)
    BY <1>1 DEF ServeGrade, Accepts
  <2> QED BY <1>1, <2>1, NowKeepsOthers DEF RowsHaveStatus, FinalStays
<1>2. CASE kind = "forward"
  <2>1. rows[s].status # "final" /\ (Now({s}, "forwarded") \/ rows' = rows)
    BY <1>2 DEF ServeGrade, Accepts
  <2> QED BY <1>2, <2>1, NowKeepsOthers DEF RowsHaveStatus, FinalStays
<1>3. CASE kind = "return"
  <2>1. rows[s].status # "final" /\ Now({s}, "returned") BY <1>3 DEF ServeGrade, Accepts
  <2> QED BY <1>3, <2>1, NowKeepsOthers
<1>4. CASE kind = "commit"
  <2>1. \/ Today({s}, "final")
        \/ rows[s].status = "final" /\ rows' = rows
    BY <1>4 DEF ServeGrade, Accepts
  <2> QED BY <2>1, NowKeepsOthers DEF RowsHaveStatus, FinalStays
<1> QED BY <1>1, <1>2, <1>3, <1>4

-----------------------------------------------------------------------------
LEMMA ReviewInvInit == ReviewInit => ReviewInv
BY DEF ReviewInit, ReviewInv, RowsHaveStatus, BatchesShrink, CommitIsTrue, NoRow, NoBatch, Pages

\* Nothing a page is working on changes.
LEMMA RowsChange ==
    ASSUME ReviewInv, RowsHaveStatus', FinalStays, batch' = batch
    PROVE  ReviewInv'
<1>1. BatchesShrink' BY DEF ReviewInv, BatchesShrink
<1>2. CommitIsTrue'
  <2>1. batch["registrar"].took \subseteq Class BY DEF ReviewInv, BatchesShrink, Pages
  <2> QED BY <2>1 DEF ReviewInv, CommitIsTrue, FinalStays
<1> QED BY <1>1, <1>2 DEF ReviewInv

LEMMA SavePreserves ==
    ASSUME ReviewInv, NEW s \in Class, Save(s)
    PROVE  ReviewInv'
<1>1. RowsHaveStatus' /\ FinalStays
  BY NowKeepsOthers DEF Save, ReviewInv
<1> QED BY <1>1, RowsChange DEF Save

LEMMA SubmitPreserves ==
    ASSUME ReviewInv, Submit
    PROVE  ReviewInv'
<1> DEFINE S == {s \in Class : rows[s].status \notin {"none", "final"}}
<1>1. Now(S, "submitted") BY DEF Submit
<1>2. \A s \in S \cap Class : rows[s].status # "final" OBVIOUS
<1> HIDE DEF S
<1>3. RowsHaveStatus' /\ FinalStays BY <1>1, <1>2, NowKeepsOthers DEF ReviewInv
<1> QED BY <1>3, RowsChange DEF Submit

\* One page's click becomes b, of which all is done that a commit has no more to do.
LEMMA BatchChanges ==
    ASSUME ReviewInv, RowsHaveStatus', FinalStays, NEW p \in Pages,
           NEW kind \in {"none", "approve", "forward", "return", "commit"},
           NEW took \in SUBSET Class, NEW todo \in SUBSET took,
           kind = "none" => todo = {}, kind = "commit" => p = "registrar",
           batch' = [batch EXCEPT ![p] = [kind |-> kind, took |-> took, todo |-> todo]],
           kind = "commit" => \A s \in took \ todo : rows'[s].status = "final"
    PROVE  ReviewInv'
<1> DEFINE b == [kind |-> kind, took |-> took, todo |-> todo]
<1>1. b.kind = kind /\ b.took = took /\ b.todo = todo OBVIOUS
<1> HIDE DEF b
<1>2. batch' = [batch EXCEPT ![p] = b] BY DEF b
<1>3. batch'[p] = b /\ \A q \in Pages \ {p} : batch'[q] = batch[q]
  BY <1>2 DEF ReviewInv, BatchesShrink
<1>4. batch' = [q \in Pages |-> batch'[q]] BY <1>2 DEF ReviewInv, BatchesShrink
<1>5. b = [kind |-> b.kind, took |-> b.took, todo |-> b.todo] BY <1>1 DEF b
<1>6. BatchesShrink' BY <1>1, <1>3, <1>4, <1>5 DEF ReviewInv, BatchesShrink
<1>7. CommitIsTrue'
  <2>1. CASE p = "registrar" BY <1>1, <1>3, <2>1 DEF CommitIsTrue
  <2>2. CASE p # "registrar"
    <3>1. batch'["registrar"] = batch["registrar"] /\ batch["registrar"].took \subseteq Class
      BY <1>3, <2>2 DEF ReviewInv, BatchesShrink, Pages
    <3> QED BY <3>1 DEF ReviewInv, CommitIsTrue, FinalStays
  <2> QED BY <2>1, <2>2
<1> QED BY <1>6, <1>7 DEF ReviewInv

LEMMA BeginPreserves ==
    ASSUME ReviewInv, NEW p \in Pages, NEW kind \in {"approve", "forward", "return", "commit"},
           BeginClick(p, kind), kind = "commit" => p = "registrar"
    PROVE  ReviewInv'
<1> DEFINE took == {s \in Class : seen[p][s] \in Takes(kind)}
<1>1. /\ batch' = [batch EXCEPT ![p] = [kind |-> kind, took |-> took, todo |-> took]]
      /\ rows' = rows
  BY DEF BeginClick
<1>2. took \in SUBSET Class OBVIOUS
<1> HIDE DEF took
<1>3. RowsHaveStatus' /\ FinalStays BY <1>1 DEF ReviewInv, RowsHaveStatus, FinalStays
<1> QED BY <1>1, <1>2, <1>3, BatchChanges

LEMMA GrantedPreserves ==
    ASSUME ReviewInv, NEW p \in Pages, Granted(p)
    PROVE  ReviewInv'
<1> DEFINE kind == batch[p].kind
           took == batch[p].took
           todo == batch[p].todo
<1>1. PICK s \in todo : ServeGrade(kind, s) /\ batch' = [batch EXCEPT ![p].todo = todo \ {s}]
  BY DEF Granted
<1>2. /\ kind \in {"approve", "forward", "return", "commit"} /\ took \subseteq Class
      /\ todo \subseteq took /\ batch[p] = [kind |-> kind, took |-> took, todo |-> todo]
      /\ batch = [q \in Pages |-> batch[q]]
      /\ kind = "commit" => p = "registrar"
  BY <1>1 DEF ReviewInv, BatchesShrink
<1>3. RowsHaveStatus' /\ FinalStays /\ (kind = "commit" => rows'[s].status = "final")
  BY <1>1, <1>2, ServeKeepsFinal DEF ReviewInv
<1>4. batch' = [batch EXCEPT ![p] = [kind |-> kind, took |-> took, todo |-> todo \ {s}]]
  <2>1. batch' = [batch EXCEPT ![p] = [batch[p] EXCEPT !.todo = todo \ {s}]] BY <1>1
  <2>2. [batch[p] EXCEPT !.todo = todo \ {s}] = [kind |-> kind, took |-> took, todo |-> todo \ {s}]
    BY <1>2
  <2> QED BY <2>1, <2>2
<1>5. kind = "commit" => \A r \in took \ (todo \ {s}) : rows'[r].status = "final"
  <2> SUFFICES ASSUME kind = "commit", NEW r \in took \ (todo \ {s})
               PROVE  rows'[r].status = "final"
    OBVIOUS
  <2>1. CASE r = s BY <1>3, <2>1
  <2>2. CASE r # s
    <3>1. p = "registrar" BY <1>2
    <3>2. rows[r].status = "final" BY <2>2, <3>1 DEF ReviewInv, CommitIsTrue
    <3> QED BY <1>2, <1>3, <3>2 DEF FinalStays
  <2> QED BY <2>1, <2>2
<1> DEFINE left == todo \ {s}
<1>6. left \in SUBSET took /\ took \in SUBSET Class BY <1>2
<1>7. kind \in {"none", "approve", "forward", "return", "commit"} /\ (kind = "none" => left = {})
  BY <1>2
<1>8. /\ batch' = [batch EXCEPT ![p] = [kind |-> kind, took |-> took, todo |-> left]]
      /\ kind = "commit" => \A r \in took \ left : rows'[r].status = "final"
  BY <1>4, <1>5
<1>9. kind = "commit" => p = "registrar" BY <1>2
<1> HIDE DEF kind, took, todo, left
<1> QED BY <1>3, <1>6, <1>7, <1>8, <1>9, BatchChanges

\* The click is over, after one more request at most.
LEMMA EndPreserves ==
    ASSUME ReviewInv, NEW p \in Pages, RowsHaveStatus', FinalStays,
           batch' = [batch EXCEPT ![p] = NoBatch]
    PROVE  ReviewInv'
<1> DEFINE kind == "none"
           took == {}
           todo == {}
<1>1. batch' = [batch EXCEPT ![p] = [kind |-> kind, took |-> took, todo |-> todo]] BY DEF NoBatch
<1>2. took \in SUBSET Class /\ todo \in SUBSET took /\ (kind = "none" => todo = {}) OBVIOUS
<1>3. kind \in {"none", "approve", "forward", "return", "commit"} OBVIOUS
<1>4. kind = "commit" => p = "registrar" OBVIOUS
<1>5. kind = "commit" => \A s \in took \ todo : rows'[s].status = "final" OBVIOUS
<1> HIDE DEF kind, took, todo
<1> QED BY <1>1, <1>2, <1>3, <1>4, <1>5, BatchChanges

LEMMA FailedPreserves ==
    ASSUME ReviewInv, NEW p \in Pages, Failed(p)
    PROVE  ReviewInv'
<1>1. PICK s \in batch[p].todo : UNCHANGED rows \/ ServeGrade(batch[p].kind, s) BY DEF Failed
<1>2. batch[p].kind \in {"approve", "forward", "return", "commit"} /\ s \in Class
  BY <1>1 DEF ReviewInv, BatchesShrink
<1>3. RowsHaveStatus' /\ FinalStays
  <2>1. CASE UNCHANGED rows BY <2>1 DEF ReviewInv, RowsHaveStatus, FinalStays
  <2>2. CASE ServeGrade(batch[p].kind, s) BY <1>2, <2>2, ServeKeepsFinal DEF ReviewInv
  <2> QED BY <1>1, <2>1, <2>2
<1> QED BY <1>3, EndPreserves DEF Failed

LEMMA ReportedPreserves ==
    ASSUME ReviewInv, NEW p \in Pages, Reported(p)
    PROVE  ReviewInv'
<1>1. RowsHaveStatus' /\ FinalStays BY DEF Reported, ReviewInv, RowsHaveStatus, FinalStays
<1> QED BY <1>1, EndPreserves DEF Reported

LEMMA ReviewInvNext == ReviewInv /\ [ReviewNext]_reviewVars => ReviewInv'
<1> SUFFICES ASSUME ReviewInv, [ReviewNext]_reviewVars PROVE ReviewInv' OBVIOUS
<1>1. ASSUME NEW kind \in {"approve", "forward", "return"}, Click(kind) PROVE ReviewInv'
  BY <1>1, BeginPreserves DEF Click, Pages
<1>2. CASE ClickCommit BY <1>2, BeginPreserves DEF ClickCommit, Pages
<1>3. ASSUME rows' = rows, batch' = batch PROVE ReviewInv'
  BY <1>3, RowsChange DEF ReviewInv, RowsHaveStatus, FinalStays
<1>4. ASSUME NEW p \in Pages, Load(p) PROVE ReviewInv'
  <2>1. rows' = rows /\ batch' = batch BY <1>4 DEF Load
  <2> QED BY <1>3, <2>1
<1>5. CASE UNCHANGED reviewVars BY <1>3, <1>5 DEF reviewVars
<1> QED BY <1>1, <1>2, <1>4, <1>5, SavePreserves, SubmitPreserves, GrantedPreserves,
           FailedPreserves, ReportedPreserves DEF ReviewNext

\* Every grade the registrar's click has committed is on the ledger, for any section and
\* whatever the professor and the chairperson do between the load and each request.
THEOREM CommitsAreTrue == ReviewSpec => []CommitIsTrue
<1>1. ReviewInv => CommitIsTrue BY DEF ReviewInv
<1> QED BY <1>1, ReviewInvInit, ReviewInvNext, PTL DEF ReviewSpec

-----------------------------------------------------------------------------
(* Types of the lists: ranks of dates stay within the section's size, and  *)
(* every section has one status.                                           *)

ShownStatuses == {"none", "pending", "returned", "submitted", "approved", "forwarded"}

ListTypes ==
    /\ rows \in [Class -> Rows]
    /\ seen \in [Pages -> [Class -> Statuses \cup {"none"}]]
    /\ shown \in ShownStatuses

\* A rank counts dates of grades, of which there are no more than grades.
LEMMA RankIsBounded ==
    ASSUME rows \in [Class -> Rows], NEW S, NEW s \in Class
    PROVE  /\ Rank(S, s) \in 0..LastRank
           /\ rows[s].at = 0 => Rank(S, s) = 0
<1> DEFINE earlier == {r \in Class \ S : 0 < rows[r].at /\ rows[r].at <= rows[s].at}
           dates == {rows[r].at : r \in earlier}
           f == [r \in earlier |-> rows[r].at]
<1>1. Rank(S, s) = Cardinality(dates) BY DEF Rank
<1>2. IsFiniteSet(earlier) /\ Cardinality(earlier) <= Cardinality(Class)
  <2>1. earlier \in SUBSET Class OBVIOUS
  <2> QED BY <2>1, ReviewConstants, FS_Subset
<1>3. f \in Surjection(earlier, dates)
  <2>1. f \in [earlier -> dates] /\ \A t \in dates : \E r \in earlier : f[r] = t OBVIOUS
  <2> QED BY <2>1 DEF Surjection
<1>4. rows[s].at = 0 => dates = {}
  <2>1. \A r \in Class : rows[r].at \in Nat BY DEF Rows, NoRow
  <2> QED BY <2>1
<1> HIDE DEF f, earlier, dates
<1>5. IsFiniteSet(dates) /\ Cardinality(dates) <= Cardinality(earlier)
  BY <1>2, <1>3, FS_Surjection
<1>6. Cardinality(dates) \in Nat /\ Cardinality(earlier) \in Nat /\ Cardinality(Class) \in Nat
  BY <1>2, <1>5, ReviewConstants, FS_CardinalityType
<1>7. dates = {} => Cardinality(dates) = 0 BY FS_EmptySet
<1> QED BY <1>1, <1>2, <1>4, <1>5, <1>6, <1>7 DEF LastRank

LEMMA LastRankIs == LastRank \in Nat
BY ReviewConstants, FS_CardinalityType DEF LastRank

LEMMA DatedIsTyped ==
    ASSUME rows \in [Class -> Rows], NEW S, NEW st \in Statuses, NEW at \in 0..LastRank,
           Dated(S, st, at)
    PROVE  rows' \in [Class -> Rows]
<1>1. ASSUME NEW s \in Class PROVE rows'[s] \in Rows
  <2>1. CASE s \in S
    <3>1. rows'[s] = [status |-> st, at |-> at] BY <2>1 DEF Dated
    <3> QED BY <3>1 DEF Rows
  <2>2. CASE s \notin S
    <3>1. PICK n \in 0..LastRank : n = Rank(S, s) BY RankIsBounded
    <3>2. PICK r \in Rows : r = rows[s] OBVIOUS
    <3>3. rows'[s] = [r EXCEPT !.at = n] BY <2>2, <3>1, <3>2 DEF Dated
    <3>4. CASE r = NoRow
      <4>1. rows[s].at = 0 BY <3>2, <3>4 DEF NoRow
      <4>2. n = 0 BY <3>1, <4>1, RankIsBounded
      <4>3. rows'[s] = NoRow BY <3>3, <3>4, <4>2 DEF NoRow
      <4> QED BY <4>3 DEF Rows
    <3>5. CASE r # NoRow BY <3>3, <3>5 DEF Rows
    <3> QED BY <3>4, <3>5
  <2> QED BY <2>1, <2>2
<1> QED BY <1>1 DEF Dated

LEMMA NowIsTyped ==
    ASSUME rows \in [Class -> Rows], NEW S, NEW st \in Statuses, Now(S, st) \/ Today(S, st)
    PROVE  rows' \in [Class -> Rows]
BY DatedIsTyped, LastRankIs DEF Now, Today

LEMMA ServeIsTyped ==
    ASSUME rows \in [Class -> Rows], NEW s, NEW kind, ServeGrade(kind, s)
    PROVE  rows' \in [Class -> Rows]
<1>1. \/ \E st \in {"approved", "forwarded", "returned"} : Now({s}, st)
      \/ Today({s}, "final") \/ rows' = rows
  BY DEF ServeGrade
<1> QED BY <1>1, NowIsTyped DEF Statuses

LEMMA SectionStatusIsOne ==
    ASSUME NEW rs \in [Class -> Rows]
    PROVE  SectionStatus(rs) \in ShownStatuses
<1> DEFINE latest == {s \in Present(rs) : \A r \in Present(rs) : rs[r].at <= rs[s].at}
           found == {Reads(rs[s].status) : s \in latest}
           five == {"pending", "returned", "submitted", "approved", "forwarded"}
<1>1. \A s \in latest : Reads(rs[s].status) \in five
  <2> SUFFICES ASSUME NEW s \in latest PROVE Reads(rs[s].status) \in five OBVIOUS
  <2>1. rs[s] \in Rows /\ rs[s] # NoRow BY DEF Present
  <2>2. rs[s].status \in Statuses BY <2>1 DEF Rows
  <2> QED BY <2>2 DEF Reads, Statuses
<1>2. CASE latest = {} BY <1>2 DEF SectionStatus, ShownStatuses
<1>3. CASE latest # {}
  <2> DEFINE First(st) == \A r \in latest : Priority(Reads(rs[r].status)) <= Priority(st)
  <2>1. SectionStatus(rs) = CHOOSE st \in found : First(st) BY <1>3 DEF SectionStatus
  <2>2. found # {} /\ found \subseteq five BY <1>1, <1>3
  <2>3. \A r \in latest : Reads(rs[r].status) \in found OBVIOUS
  <2> HIDE DEF latest, found
  <2>4. \E st \in found : First(st)
    <3>1. CASE "forwarded" \in found BY <1>1, <3>1 DEF Priority
    <3>2. CASE "forwarded" \notin found /\ "approved" \in found
      BY <1>1, <2>3, <3>2 DEF Priority
    <3>3. CASE found \cap {"approved", "forwarded"} = {} /\ "submitted" \in found
      BY <1>1, <2>3, <3>3 DEF Priority
    <3>4. CASE found \cap {"submitted", "approved", "forwarded"} = {} /\ "returned" \in found
      BY <1>1, <2>3, <3>4 DEF Priority
    <3>5. CASE found \cap {"returned", "submitted", "approved", "forwarded"} = {}
      <4>1. "pending" \in found BY <2>2, <3>5
      <4> QED BY <1>1, <2>3, <3>5, <4>1 DEF Priority
    <3> QED BY <3>1, <3>2, <3>3, <3>4, <3>5
  <2> HIDE DEF First
  <2>5. SectionStatus(rs) \in found BY <2>1, <2>4
  <2> QED BY <2>2, <2>5 DEF ShownStatuses
<1> QED BY <1>2, <1>3

LEMMA ListTypesInit == ReviewInit => ListTypes
<1> SUFFICES ASSUME ReviewInit PROVE ListTypes OBVIOUS
<1>1. rows \in [Class -> Rows] /\ seen \in [Pages -> [Class -> Statuses \cup {"none"}]]
  BY DEF ReviewInit, Rows
<1> QED BY <1>1 DEF ReviewInit, ListTypes, ShownStatuses

LEMMA LoadIsTyped ==
    ASSUME ListTypes, NEW p \in Pages, Load(p)
    PROVE  ListTypes'
<1> DEFINE unread == [s \in Class |-> IF rows[s].status = "final" THEN NoRow ELSE rows[s]]
<1>1. PICK rs \in (IF p = "chair" THEN {rows, unread} ELSE {rows}) :
          /\ seen' = [seen EXCEPT ![p] = [s \in Class |-> rs[s].status]]
          /\ shown' = IF p = "chair" THEN SectionStatus(rs) ELSE shown
          /\ UNCHANGED <<rows, batch, saves>>
  BY DEF Load
<1>2. rows \in [Class -> Rows] BY DEF ListTypes
<1>3. unread \in [Class -> Rows] BY <1>2 DEF Rows
<1>4. rs \in [Class -> Rows] BY <1>1, <1>2, <1>3
<1> HIDE DEF unread
<1>5. [s \in Class |-> rs[s].status] \in [Class -> Statuses \cup {"none"}]
  <2>1. \A r \in Rows : r.status \in Statuses \cup {"none"} BY DEF Rows, NoRow
  <2> QED BY <1>4, <2>1
<1>6. seen' \in [Pages -> [Class -> Statuses \cup {"none"}]] BY <1>1, <1>5 DEF ListTypes
<1>7. shown' \in ShownStatuses BY <1>1, <1>4, SectionStatusIsOne DEF ListTypes
<1> QED BY <1>1, <1>2, <1>6, <1>7 DEF ListTypes

LEMMA ListTypesNext == ListTypes /\ [ReviewNext]_reviewVars => ListTypes'
<1> SUFFICES ASSUME ListTypes, [ReviewNext]_reviewVars PROVE ListTypes' OBVIOUS
<1>1. ASSUME rows' \in [Class -> Rows], UNCHANGED <<seen, shown>> PROVE ListTypes'
  BY <1>1 DEF ListTypes
<1>2. ASSUME NEW s \in Class, Save(s) PROVE ListTypes'
  BY <1>1, <1>2, NowIsTyped DEF ListTypes, Save, Statuses
<1>3. CASE Submit
  <2> DEFINE S == {s \in Class : rows[s].status \notin {"none", "final"}}
  <2>1. Now(S, "submitted") /\ UNCHANGED <<seen, shown>> BY <1>3 DEF Submit
  <2> HIDE DEF S
  <2> QED BY <1>1, <2>1, NowIsTyped DEF ListTypes, Statuses
<1>4. ASSUME NEW p \in Pages, Granted(p) \/ Failed(p) PROVE ListTypes'
  <2>1. UNCHANGED <<seen, shown>> /\ (rows' = rows \/ \E kind, s : ServeGrade(kind, s))
    BY <1>4 DEF Granted, Failed
  <2> QED BY <1>1, <2>1, ServeIsTyped DEF ListTypes
<1>5. ASSUME NEW kind, Click(kind) \/ ClickCommit PROVE ListTypes'
  BY <1>1, <1>5 DEF Click, ClickCommit, BeginClick, ListTypes
<1>6. ASSUME NEW p \in Pages, Reported(p) PROVE ListTypes'
  BY <1>1, <1>6 DEF Reported, ListTypes
<1>7. CASE UNCHANGED reviewVars BY <1>1, <1>7 DEF reviewVars, ListTypes
<1> QED BY <1>2, <1>3, <1>4, <1>5, <1>6, <1>7, LoadIsTyped DEF ReviewNext

\* The lists of both pages, the section's one status and the clicks keep their types.
THEOREM ReviewTypeCorrect == ReviewSpec => []ReviewTypeOK
<1>1. ReviewInv /\ ListTypes => ReviewTypeOK
  BY DEF ReviewInv, BatchesShrink, ListTypes, ReviewTypeOK, ShownStatuses
<1> QED BY <1>1, ReviewInvInit, ReviewInvNext, ListTypesInit, ListTypesNext, PTL DEF ReviewSpec
-----------------------------------------------------------------------------
(* The tab of a chat (Chat).                                               *)

HubCalls == {Join} \cup {GetHistory(p) : p \in Partners}
Events == [event : {"ReceiveMessage", "ChatHistory"}, rows : SUBSET Messages]

\* What is on its way, and the hub's own state.
ChatTypes ==
    /\ ChatTypeOK
    /\ IsFiniteSet(stored)
    /\ hub \in Seq(HubCalls) /\ inbox \in Seq(Events)
    /\ history.read \in BOOLEAN /\ history.rows \subseteq stored
    /\ link # "up" => hub = <<>> /\ ~history.read
    /\ history.read => hub # <<>> /\ hub[1].method = "GetChatHistory"

\* A history is on order for the conversation the tab shows.
Asked == \E n \in DOMAIN hub : hub[n] = GetHistory(selected) /\ ~(history.read /\ n = 1)

\* The tab that waits to join joins first and asks for the history afterwards.
JoinsFirst ==
    link = "up" /\ ~missing /\ ~joined =>
        /\ hub # <<>> /\ hub[1] = Join
        /\ selected # Nobody => Asked

\* The history it waits for is that of the conversation it shows.
TargetIsSelected == selected # Nobody /\ link \in {"up", "broken"} => target = selected

\* A message the tab has, or that is bound to reach it.
Coming(m) ==
    \/ m \in messages
    \/ m \in unsent /\ joined
    \/ Asked
    \/ history.read /\ m \in history.rows
    \/ \E n \in DOMAIN inbox : m \in inbox[n].rows

AllComing ==
    link = "up" /\ ~missing /\ selected # Nobody => \A m \in With(stored, selected) : Coming(m)

ChatInv == ChatTypes /\ JoinsFirst /\ TargetIsSelected /\ AllComing

-----------------------------------------------------------------------------
LEMMA TailShifts ==
    ASSUME NEW S, NEW q \in Seq(S), q # <<>>
    PROVE  /\ Tail(q) \in Seq(S) /\ Head(q) = q[1] /\ 1 \in DOMAIN q /\ q[1] \in S
           /\ \A n \in DOMAIN Tail(q) : n + 1 \in DOMAIN q /\ n + 1 # 1 /\ Tail(q)[n] = q[n + 1]
           /\ \A n \in DOMAIN q : n # 1 => n - 1 \in DOMAIN Tail(q) /\ Tail(q)[n - 1] = q[n]
OBVIOUS

LEMMA AppendKeeps ==
    ASSUME NEW S, NEW q \in Seq(S), NEW e \in S
    PROVE  /\ Append(q, e) \in Seq(S) /\ Append(q, e) # <<>>
           /\ \A n \in DOMAIN q : n \in DOMAIN Append(q, e) /\ Append(q, e)[n] = q[n]
           /\ Len(q) + 1 \in DOMAIN Append(q, e) /\ Append(q, e)[Len(q) + 1] = e
           /\ \A n \in DOMAIN Append(q, e) : n \in DOMAIN q \/ Append(q, e)[n] = e
OBVIOUS

LEMMA ChatInvInit == ChatInit => ChatInv
<1> SUFFICES ASSUME ChatInit PROVE ChatInv OBVIOUS
<1>1. IsFiniteSet(stored) BY FS_EmptySet DEF ChatInit
<1>2. <<>> \in Seq(HubCalls) /\ <<>> \in Seq(Events) OBVIOUS
<1>3. history.read = FALSE /\ history.rows = {} BY DEF ChatInit, Unread
<1>4. ChatTypes
  <2>1. DOMAIN hub = {} /\ DOMAIN inbox = {} BY DEF ChatInit
  <2>2. ChatTypeOK BY <2>1 DEF ChatInit, ChatTypeOK
  <2> QED BY <1>1, <1>2, <1>3, <2>2 DEF ChatInit, ChatTypes
<1> QED BY <1>4 DEF ChatInit, ChatInv, JoinsFirst, TargetIsSelected, AllComing

-----------------------------------------------------------------------------
(* The server.                                                             *)

LEMMA StorePreserves ==
    ASSUME ChatInv, NEW p \in Partners, StoreMessage(p)
    PROVE  ChatInv'
<1> DEFINE m == [id |-> Cardinality(stored) + 1, with |-> p]
<1>1. /\ Cardinality(stored) + 1 <= MaxChatMessages
      /\ stored' = stored \cup {m} /\ unsent' = unsent \cup {m}
      /\ UNCHANGED linkVars /\ UNCHANGED tabVars
  BY DEF StoreMessage
<1>2. m \in Messages
  <2>1. Cardinality(stored) \in Nat BY FS_CardinalityType DEF ChatInv, ChatTypes
  <2>2. Cardinality(stored) + 1 \in 1..MaxChatMessages BY <1>1, <2>1
  <2> QED BY <2>2 DEF Messages
<1>3. IsFiniteSet(stored') BY <1>1, FS_AddElement DEF ChatInv, ChatTypes
<1> HIDE DEF m
<1>4. ChatTypes'
  <2>1. ChatTypeOK' BY <1>1, <1>2 DEF ChatInv, ChatTypes, ChatTypeOK, linkVars, tabVars
  <2> QED BY <1>1, <1>3, <2>1 DEF ChatInv, ChatTypes, linkVars, tabVars
<1>5. Asked' <=> Asked BY <1>1 DEF Asked, linkVars, tabVars
<1>6. JoinsFirst' /\ TargetIsSelected'
  BY <1>1, <1>5 DEF ChatInv, JoinsFirst, TargetIsSelected, linkVars, tabVars
<1>7. AllComing'
  <2> SUFFICES ASSUME link = "up", ~missing, selected # Nobody, NEW k \in With(stored', selected)
               PROVE  Coming(k)'
    BY <1>1 DEF AllComing, linkVars, tabVars
  <2>1. CASE k \in stored
    <3>1. Coming(k) BY <2>1 DEF ChatInv, AllComing, With
    <3> QED BY <1>1, <1>5, <3>1 DEF Coming, linkVars, tabVars
  <2>2. CASE k = m
    <3>1. k \in unsent' BY <1>1, <2>2
    <3>2. joined \/ Asked BY DEF ChatInv, JoinsFirst
    <3> QED BY <1>1, <1>5, <3>1, <3>2 DEF Coming, linkVars, tabVars
  <2> QED BY <1>1, <2>1, <2>2 DEF With
<1> QED BY <1>4, <1>6, <1>7 DEF ChatInv

LEMMA PushPreserves ==
    ASSUME ChatInv, NEW m \in unsent, Push(m)
    PROVE  ChatInv'
<1> DEFINE e == [event |-> "ReceiveMessage", rows |-> {m}]
<1>1. /\ unsent' = unsent \ {m} /\ inbox' = IF joined THEN Append(inbox, e) ELSE inbox
      /\ UNCHANGED <<stored, link, joined, hub, history, missing, breaks, tabVars>>
  BY DEF Push
<1>2. m \in stored /\ m \in Messages BY DEF ChatInv, ChatTypes, ChatTypeOK
<1>3. e \in Events /\ e.rows = {m} BY <1>2 DEF Events
<1> HIDE DEF e
<1>4. inbox' \in Seq(Events) /\ \A n \in DOMAIN inbox : n \in DOMAIN inbox' /\ inbox'[n] = inbox[n]
  BY <1>1, <1>3, AppendKeeps DEF ChatInv, ChatTypes
<1>5. \A n \in DOMAIN inbox' : inbox'[n].rows \subseteq stored
  <2>1. CASE joined
    <3>1. \A n \in DOMAIN inbox' : (n \in DOMAIN inbox /\ inbox'[n] = inbox[n]) \/ inbox'[n] = e
      BY <1>1, <1>3, <1>4, <2>1, AppendKeeps DEF ChatInv, ChatTypes
    <3> QED BY <1>2, <1>3, <3>1 DEF ChatInv, ChatTypes, ChatTypeOK
  <2>2. CASE ~joined BY <1>1, <2>2 DEF ChatInv, ChatTypes, ChatTypeOK
  <2> QED BY <2>1, <2>2
<1>6. joined => \E n \in DOMAIN inbox' : m \in inbox'[n].rows
  BY <1>1, <1>3, AppendKeeps DEF ChatInv, ChatTypes
<1>7. link # "up" => inbox' = inbox BY <1>1 DEF ChatInv, ChatTypes, ChatTypeOK
<1>8. ChatTypes'
  <2>1. ChatTypeOK' BY <1>1, <1>5 DEF ChatInv, ChatTypes, ChatTypeOK, tabVars
  <2> QED BY <1>1, <1>4, <2>1 DEF ChatInv, ChatTypes, tabVars
<1>9. Asked' <=> Asked BY <1>1 DEF Asked, tabVars
<1>10. JoinsFirst' /\ TargetIsSelected'
  BY <1>1, <1>9 DEF ChatInv, JoinsFirst, TargetIsSelected, tabVars
<1>11. AllComing'
  <2> SUFFICES ASSUME link = "up", ~missing, selected # Nobody, NEW k \in With(stored, selected)
               PROVE  Coming(k)'
    BY <1>1 DEF AllComing, tabVars
  <2>1. Coming(k) BY DEF ChatInv, AllComing
  <2>2. CASE k = m
    <3>1. joined \/ Asked BY DEF ChatInv, JoinsFirst
    <3> QED BY <1>6, <1>9, <2>2, <3>1 DEF Coming
  <2>3. CASE k # m
    <3>1. k \in unsent /\ joined => k \in unsent' /\ joined' BY <1>1, <2>3
    <3>2. (\E n \in DOMAIN inbox : k \in inbox[n].rows)
            => \E n \in DOMAIN inbox' : k \in inbox'[n].rows
      BY <1>4
    <3> QED BY <1>1, <1>9, <2>1, <3>1, <3>2 DEF Coming, tabVars
  <2> QED BY <2>2, <2>3
<1> QED BY <1>8, <1>10, <1>11 DEF ChatInv

\* The hub's call is done and no history of it is left.
LEMMA CallDone ==
    ASSUME ChatInv, hub # <<>>, hub' = Tail(hub), ~history'.read,
           selected' = selected
    PROVE  /\ link = "up" /\ hub' \in Seq(HubCalls)
           /\ Asked /\ (hub[1] # GetHistory(selected) \/ history.read) => Asked'
<1>1. hub \in Seq(HubCalls) /\ link = "up" BY DEF ChatInv, ChatTypes
<1>2. /\ Tail(hub) \in Seq(HubCalls)
      /\ \A n \in DOMAIN hub : n # 1 => n - 1 \in DOMAIN Tail(hub) /\ Tail(hub)[n - 1] = hub[n]
  BY <1>1, TailShifts
<1>3. ASSUME Asked, hub[1] # GetHistory(selected) \/ history.read PROVE Asked'
  <2>1. PICK n \in DOMAIN hub : hub[n] = GetHistory(selected) /\ ~(history.read /\ n = 1)
    BY <1>3 DEF Asked
  <2>2. n # 1 BY <1>3, <2>1
  <2>3. n - 1 \in DOMAIN hub' /\ hub'[n - 1] = GetHistory(selected) BY <1>2, <2>1, <2>2
  <2> QED BY <2>3 DEF Asked, GetHistory
<1> QED BY <1>1, <1>2, <1>3

LEMMA HubTypes ==
    ASSUME NEW q \in Seq(HubCalls)
    PROVE  \A n \in DOMAIN q : q[n] = Join \/ \E p \in Partners : q[n] = GetHistory(p)
BY DEF HubCalls

LEMMA JoinPreserves ==
    ASSUME ChatInv, JoinChat
    PROVE  ChatInv'
<1>1. /\ hub # <<>> /\ hub[1].method = "JoinChat" /\ joined' = TRUE /\ hub' = Tail(hub)
      /\ UNCHANGED <<serverVars, link, history, inbox, missing, breaks, tabVars>>
  BY TailShifts DEF JoinChat, ChatInv, ChatTypes
<1>2. ~history.read /\ hub[1] # GetHistory(selected)
  BY <1>1 DEF ChatInv, ChatTypes, GetHistory
<1>3. link = "up" /\ hub' \in Seq(HubCalls) /\ (Asked => Asked')
  BY <1>1, <1>2, CallDone DEF tabVars
<1>4. ChatTypes'
  <2>1. ChatTypeOK'
    BY <1>1, <1>3, HubTypes DEF ChatInv, ChatTypes, ChatTypeOK, serverVars, tabVars
  <2> QED BY <1>1, <1>2, <1>3, <2>1 DEF ChatInv, ChatTypes, serverVars
<1>5. JoinsFirst' /\ TargetIsSelected'
  BY <1>1 DEF ChatInv, JoinsFirst, TargetIsSelected, tabVars
<1>6. AllComing'
  <2> SUFFICES ASSUME ~missing, selected # Nobody, NEW k \in With(stored, selected)
               PROVE  Coming(k)'
    BY <1>1 DEF AllComing, tabVars, serverVars
  <2>1. Coming(k) BY <1>3 DEF ChatInv, AllComing
  <2> QED BY <1>1, <1>3, <2>1 DEF Coming, serverVars, tabVars
<1> QED BY <1>4, <1>5, <1>6 DEF ChatInv

LEMMA ReadPreserves ==
    ASSUME ChatInv, ReadHistory
    PROVE  ChatInv'
<1> DEFINE h == [read |-> TRUE, rows |-> With(stored, hub[1].with)]
<1>1. /\ hub # <<>> /\ hub[1].method = "GetChatHistory" /\ ~history.read /\ history' = h
      /\ UNCHANGED <<serverVars, link, joined, hub, inbox, missing, breaks, tabVars>>
  BY TailShifts DEF ReadHistory, ChatInv, ChatTypes
<1>2. h.read = TRUE /\ h.rows = With(stored, hub[1].with) OBVIOUS
<1> HIDE DEF h
<1>3. link = "up" /\ h.rows \subseteq stored /\ hub[1] # Join
  BY <1>1, <1>2 DEF ChatInv, ChatTypes, With, Join
<1>4. ChatTypes'
  <2>1. ChatTypeOK' BY <1>1 DEF ChatInv, ChatTypes, ChatTypeOK, serverVars, tabVars
  <2> QED BY <1>1, <1>2, <1>3, <2>1 DEF ChatInv, ChatTypes, serverVars
<1>5. ~missing => joined BY <1>3 DEF ChatInv, JoinsFirst
<1>6. JoinsFirst' /\ TargetIsSelected'
  BY <1>1, <1>5 DEF ChatInv, JoinsFirst, TargetIsSelected, tabVars
<1>7. AllComing'
  <2> SUFFICES ASSUME ~missing, selected # Nobody, NEW k \in With(stored, selected)
               PROVE  Coming(k)'
    BY <1>1 DEF AllComing, tabVars, serverVars
  <2>1. Coming(k) BY <1>3 DEF ChatInv, AllComing
  <2>2. Asked => Asked' \/ k \in history'.rows
    <3> SUFFICES ASSUME Asked PROVE Asked' \/ k \in history'.rows OBVIOUS
    <3>1. PICK n \in DOMAIN hub : hub[n] = GetHistory(selected) BY DEF Asked
    <3>2. CASE n = 1
      <4>1. hub[1].with = selected BY <3>1, <3>2 DEF GetHistory
      <4> QED BY <1>1, <1>2, <4>1
    <3>3. CASE n # 1
      <4>1. n \in DOMAIN hub' /\ hub'[n] = GetHistory(selected)' /\ ~(history'.read /\ n = 1)
        BY <1>1, <3>1, <3>3 DEF GetHistory, tabVars
      <4> QED BY <4>1 DEF Asked
    <3> QED BY <3>2, <3>3
  <2>3. ~(history.read /\ k \in history.rows) /\ history'.read BY <1>1, <1>2
  <2> QED BY <1>1, <2>1, <2>2, <2>3 DEF Coming, serverVars, tabVars
<1> QED BY <1>4, <1>6, <1>7 DEF ChatInv

LEMMA SendPreserves ==
    ASSUME ChatInv, SendHistory
    PROVE  ChatInv'
<1> DEFINE e == [event |-> "ChatHistory", rows |-> history.rows]
<1>1. /\ history.read /\ inbox' = Append(inbox, e) /\ history' = Unread /\ hub' = Tail(hub)
      /\ UNCHANGED <<serverVars, link, joined, missing, breaks, tabVars>>
  BY DEF SendHistory
<1>2. hub # <<>> /\ hub[1].method = "GetChatHistory" /\ hub[1] # Join
  BY <1>1 DEF ChatInv, ChatTypes, Join
<1>3. ~history'.read /\ history'.rows = {} /\ history'.read \in BOOLEAN BY <1>1 DEF Unread
<1>4. link = "up" /\ hub' \in Seq(HubCalls) /\ (Asked => Asked')
  BY <1>1, <1>2, <1>3, CallDone DEF tabVars
<1>5. e \in Events /\ e.rows = history.rows /\ history.rows \subseteq stored
  BY DEF Events, ChatInv, ChatTypes, ChatTypeOK
<1> HIDE DEF e
<1>6. /\ inbox' \in Seq(Events)
      /\ \A n \in DOMAIN inbox : n \in DOMAIN inbox' /\ inbox'[n] = inbox[n]
      /\ Len(inbox) + 1 \in DOMAIN inbox' /\ inbox'[Len(inbox) + 1] = e
      /\ \A n \in DOMAIN inbox' : (n \in DOMAIN inbox /\ inbox'[n] = inbox[n]) \/ inbox'[n] = e
  BY <1>1, <1>5, AppendKeeps DEF ChatInv, ChatTypes
<1>7. ChatTypes'
  <2>1. \A n \in DOMAIN inbox' : inbox'[n].rows \subseteq stored
    BY <1>5, <1>6 DEF ChatInv, ChatTypes, ChatTypeOK
  <2>2. ChatTypeOK'
    BY <1>1, <1>4, <2>1, HubTypes DEF ChatInv, ChatTypes, ChatTypeOK, serverVars, tabVars
  <2> QED BY <1>1, <1>3, <1>4, <1>6, <2>2 DEF ChatInv, ChatTypes, serverVars
<1>8. ~missing => joined BY <1>2, <1>4 DEF ChatInv, JoinsFirst
<1>9. JoinsFirst' /\ TargetIsSelected'
  BY <1>1, <1>8 DEF ChatInv, JoinsFirst, TargetIsSelected, tabVars
<1>10. AllComing'
  <2> SUFFICES ASSUME ~missing, selected # Nobody, NEW k \in With(stored, selected)
               PROVE  Coming(k)'
    BY <1>1 DEF AllComing, tabVars, serverVars
  <2>1. Coming(k) BY <1>4 DEF ChatInv, AllComing
  <2>2. (\E n \in DOMAIN inbox : k \in inbox[n].rows)
          => \E n \in DOMAIN inbox' : k \in inbox'[n].rows
    BY <1>6
  <2>3. k \in history.rows => \E n \in DOMAIN inbox' : k \in inbox'[n].rows
    BY <1>5, <1>6
  <2> QED BY <1>1, <1>4, <2>1, <2>2, <2>3 DEF Coming, serverVars, tabVars
<1> QED BY <1>7, <1>9, <1>10 DEF ChatInv

LEMMA FailPreserves ==
    ASSUME ChatInv, HubCallFails
    PROVE  ChatInv'
<1>1. /\ hub # <<>> /\ missing' = TRUE /\ history' = Unread /\ hub' = Tail(hub)
      /\ UNCHANGED <<serverVars, link, joined, inbox, tabVars>>
  BY DEF HubCallFails
<1>2. ~history'.read /\ history'.rows = {} /\ history'.read \in BOOLEAN BY <1>1 DEF Unread
<1>3. link = "up" /\ hub' \in Seq(HubCalls) BY <1>1, <1>2, CallDone DEF tabVars
<1>4. ChatTypes'
  <2>1. ChatTypeOK'
    BY <1>1, <1>3, HubTypes DEF ChatInv, ChatTypes, ChatTypeOK, serverVars, tabVars
  <2> QED BY <1>1, <1>2, <1>3, <2>1 DEF ChatInv, ChatTypes, serverVars
<1> QED BY <1>1, <1>4 DEF ChatInv, JoinsFirst, TargetIsSelected, AllComing, tabVars

-----------------------------------------------------------------------------
(* The connection.                                                         *)

LEMMA ConnectPreserves ==
    ASSUME ChatInv, ConnectTab
    PROVE  ChatInv'
<1>1. /\ link \in {"never", "broken"} /\ link' = "up" /\ hub' = Greeting(selected)
      /\ target' = IF link = "never" /\ selected # Nobody THEN selected ELSE target
      /\ missing' = FALSE
      /\ UNCHANGED <<serverVars, joined, history, inbox, breaks, selected, messages, clicks>>
  BY DEF ConnectTab
<1>2. ~joined /\ ~history.read BY <1>1 DEF ChatInv, ChatTypes, ChatTypeOK
<1>3. CASE selected = Nobody
  <2>1. hub' = <<Join>> BY <1>1, <1>3 DEF Greeting
  <2>2. hub' \in Seq(HubCalls) /\ hub' # <<>> /\ hub'[1] = Join BY <2>1 DEF HubCalls
  <2>3. ChatTypeOK'
    BY <1>1, <1>2, <2>2, HubTypes DEF ChatInv, ChatTypes, ChatTypeOK, serverVars
  <2>4. ChatTypes' BY <1>1, <1>2, <2>2, <2>3 DEF ChatInv, ChatTypes, serverVars
  <2> QED BY <1>1, <1>3, <2>2, <2>4 DEF ChatInv, JoinsFirst, TargetIsSelected, AllComing
<1>4. CASE selected # Nobody
  <2> DEFINE a == Join
             b == GetHistory(selected)
  <2>1. hub' = <<a>> \o <<b>> BY <1>1, <1>4 DEF Greeting
  <2>2. a \in HubCalls /\ b \in HubCalls
    BY <1>4 DEF ChatInv, ChatTypes, ChatTypeOK, HubCalls
  <2>3. /\ hub' \in Seq(HubCalls) /\ hub' # <<>> /\ hub'[1] = Join
        /\ 2 \in DOMAIN hub' /\ hub'[2] = GetHistory(selected)
    <3> HIDE DEF a, b
    <3>1. <<a>> \in Seq(HubCalls) /\ Len(<<a>>) = 1 /\ <<a>>[1] = a BY <2>2
    <3>2. hub' = Append(<<a>>, b) BY <2>1, <2>2, <3>1, AppendIsConcat
    <3>3. PICK q \in Seq(HubCalls) : q = <<a>> BY <3>1
    <3>4. Len(q) = 1 /\ q[1] = a /\ hub' = Append(q, b) BY <3>1, <3>2, <3>3
    <3>5. hub' \in Seq(HubCalls) /\ hub' # <<>> /\ hub'[1] = a /\ 2 \in DOMAIN hub' /\ hub'[2] = b
      BY <2>2, <3>4, AppendKeeps
    <3> QED BY <3>5 DEF a, b
  <2>4. target' = selected /\ target' \in Partners
    BY <1>1, <1>4 DEF ChatInv, ChatTypes, ChatTypeOK, TargetIsSelected
  <2>5. ChatTypeOK'
    BY <1>1, <1>2, <2>3, <2>4, HubTypes DEF ChatInv, ChatTypes, ChatTypeOK, serverVars
  <2>6. ChatTypes' BY <1>1, <1>2, <2>3, <2>5 DEF ChatInv, ChatTypes, serverVars
  <2>7. Asked' BY <1>1, <1>2, <2>3 DEF Asked, GetHistory
  <2> QED BY <1>1, <2>3, <2>4, <2>6, <2>7
          DEF ChatInv, JoinsFirst, TargetIsSelected, AllComing, Coming
<1> QED BY <1>3, <1>4

LEMMA BreakPreserves ==
    ASSUME ChatInv, Break
    PROVE  ChatInv'
<1>1. /\ link = "up" /\ link' = "broken" /\ joined' = FALSE
      /\ hub' = <<>> /\ history' = Unread /\ inbox' = <<>>
      /\ UNCHANGED <<serverVars, missing, tabVars>>
  BY DEF Break
<1>2. history'.read = FALSE /\ history'.rows = {} BY <1>1 DEF Unread
<1>3. hub' \in Seq(HubCalls) /\ inbox' \in Seq(Events) /\ DOMAIN hub' = {} /\ DOMAIN inbox' = {}
  BY <1>1
<1>4. ChatTypeOK' BY <1>1, <1>3 DEF ChatInv, ChatTypes, ChatTypeOK, serverVars, tabVars
<1>5. ChatTypes' BY <1>1, <1>2, <1>3, <1>4 DEF ChatInv, ChatTypes, serverVars
<1> QED BY <1>1, <1>5 DEF ChatInv, JoinsFirst, TargetIsSelected, AllComing, tabVars

LEMMA GiveUpPreserves ==
    ASSUME ChatInv, GiveUpLink
    PROVE  ChatInv'
<1>1. /\ link # "up" /\ link' = "given up"
      /\ UNCHANGED <<serverVars, joined, hub, history, inbox, missing, breaks, tabVars>>
  BY DEF GiveUpLink
<1>2. ChatTypeOK' BY <1>1 DEF ChatInv, ChatTypes, ChatTypeOK, serverVars, tabVars
<1>3. ChatTypes' BY <1>1, <1>2 DEF ChatInv, ChatTypes, serverVars
<1> QED BY <1>1, <1>3 DEF ChatInv, JoinsFirst, TargetIsSelected, AllComing

-----------------------------------------------------------------------------
(* The tab.                                                                *)

LEMMA SelectPreserves ==
    ASSUME ChatInv, NEW p \in Partners, Select(p)
    PROVE  ChatInv'
<1> DEFINE e == GetHistory(p)
<1>1. /\ selected' = p /\ target' = IF link = "never" THEN target ELSE p
      /\ hub' = IF link = "up" THEN Append(hub, e) ELSE hub
      /\ UNCHANGED <<serverVars, link, joined, history, inbox, missing, breaks, messages>>
  BY DEF Select
<1>2. e \in HubCalls /\ e = GetHistory(p) BY DEF HubCalls
<1> HIDE DEF e
<1>3. /\ hub' \in Seq(HubCalls) /\ (hub # <<>> => hub' # <<>> /\ hub'[1] = hub[1])
      /\ link = "up" => Asked'
  <2>1. CASE link = "up"
    <3>1. /\ hub' \in Seq(HubCalls) /\ hub' # <<>>
          /\ \A n \in DOMAIN hub : n \in DOMAIN hub' /\ hub'[n] = hub[n]
          /\ Len(hub) + 1 \in DOMAIN hub' /\ hub'[Len(hub) + 1] = e
      BY <1>1, <1>2, <2>1, AppendKeeps DEF ChatInv, ChatTypes
    <3>2. hub # <<>> => 1 \in DOMAIN hub /\ Len(hub) + 1 # 1 BY DEF ChatInv, ChatTypes
    <3>3. hub'[Len(hub) + 1] = GetHistory(selected)' BY <1>1, <1>2, <3>1 DEF GetHistory
    <3>4. ~(history'.read /\ Len(hub) + 1 = 1) BY <1>1, <3>2 DEF ChatInv, ChatTypes
    <3>5. Asked' BY <3>1, <3>3, <3>4 DEF Asked
    <3> QED BY <3>1, <3>2, <3>5
  <2>2. CASE link # "up" BY <1>1, <2>2 DEF ChatInv, ChatTypes
  <2> QED BY <2>1, <2>2
<1>4. ChatTypes'
  <2>1. selected' \in Partners /\ target' \in Partners \cup {Nobody}
    BY <1>1 DEF ChatInv, ChatTypes, ChatTypeOK
  <2>2. ChatTypeOK' BY <1>1, <1>3, <2>1, HubTypes DEF ChatInv, ChatTypes, ChatTypeOK, serverVars
  <2> QED BY <1>1, <1>3, <2>2 DEF ChatInv, ChatTypes, serverVars
<1>5. JoinsFirst' BY <1>1, <1>3 DEF ChatInv, JoinsFirst
<1>6. TargetIsSelected' BY <1>1 DEF TargetIsSelected
<1>7. AllComing' BY <1>1, <1>3 DEF AllComing, Coming
<1> QED BY <1>4, <1>5, <1>6, <1>7 DEF ChatInv

LEMMA DeselectPreserves ==
    ASSUME ChatInv, Deselect
    PROVE  ChatInv'
<1>1. /\ selected' = Nobody /\ target' \in {target, Nobody}
      /\ UNCHANGED serverVars /\ UNCHANGED linkVars /\ messages' = messages
  BY DEF Deselect
<1>2. ChatTypeOK' BY <1>1 DEF ChatInv, ChatTypes, ChatTypeOK, serverVars, linkVars
<1>3. ChatTypes' BY <1>1, <1>2 DEF ChatInv, ChatTypes, serverVars, linkVars
<1> QED BY <1>1, <1>3 DEF ChatInv, JoinsFirst, TargetIsSelected, AllComing, linkVars

\* The first event of the inbox is applied; of its messages those with the selected
\* conversation are now in the tab.
LEMMA EventApplied ==
    ASSUME ChatInv, inbox # <<>>, inbox' = Tail(inbox),
           messages \subseteq messages', messages' \subseteq messages \cup inbox[1].rows,
           selected # Nobody => With(inbox[1].rows, selected) \subseteq messages',
           UNCHANGED <<serverVars, link, joined, hub, history, missing, breaks, selected, target>>
    PROVE  ChatInv'
<1>1. inbox \in Seq(Events) BY DEF ChatInv, ChatTypes
<1>2. /\ inbox' \in Seq(Events) /\ 1 \in DOMAIN inbox
      /\ \A n \in DOMAIN inbox' : n + 1 \in DOMAIN inbox /\ inbox'[n] = inbox[n + 1]
      /\ \A n \in DOMAIN inbox : n # 1 => n - 1 \in DOMAIN inbox' /\ inbox'[n - 1] = inbox[n]
  BY <1>1, TailShifts
<1>3. ChatTypes'
  <2>1. messages' \subseteq stored BY <1>2 DEF ChatInv, ChatTypes, ChatTypeOK
  <2>2. \A n \in DOMAIN inbox' : inbox'[n].rows \subseteq stored
    BY <1>2 DEF ChatInv, ChatTypes, ChatTypeOK
  <2>3. ChatTypeOK' BY <2>1, <2>2 DEF ChatInv, ChatTypes, ChatTypeOK, serverVars
  <2> QED BY <1>2, <2>3 DEF ChatInv, ChatTypes, serverVars
<1>4. Asked' <=> Asked BY DEF Asked
<1>5. JoinsFirst' /\ TargetIsSelected' BY <1>4 DEF ChatInv, JoinsFirst, TargetIsSelected
<1>6. AllComing'
  <2> SUFFICES ASSUME link = "up", ~missing, selected # Nobody, NEW k \in With(stored, selected)
               PROVE  Coming(k)'
    BY DEF AllComing, serverVars
  <2>1. Coming(k) BY DEF ChatInv, AllComing
  <2>2. ASSUME NEW n \in DOMAIN inbox, k \in inbox[n].rows
        PROVE  k \in messages' \/ \E i \in DOMAIN inbox' : k \in inbox'[i].rows
    <3>1. CASE n = 1
      <4>1. k \in With(inbox[1].rows, selected) BY <2>2, <3>1 DEF With
      <4> QED BY <4>1
    <3>2. CASE n # 1 BY <1>2, <2>2, <3>2
    <3> QED BY <3>1, <3>2
  <2> QED BY <1>4, <2>1, <2>2 DEF Coming, serverVars
<1> QED BY <1>3, <1>5, <1>6 DEF ChatInv

LEMMA ReceivePreserves ==
    ASSUME ChatInv, Receive
    PROVE  ChatInv'
<1>1. /\ inbox # <<>> /\ inbox' = Tail(inbox) /\ messages' = messages \cup inbox[1].rows
      /\ UNCHANGED <<serverVars, link, joined, hub, history, missing, breaks, selected, target>>
  BY TailShifts DEF Receive, ChatInv, ChatTypes
<1> QED BY <1>1, EventApplied DEF With

LEMMA ReceiveHistoryPreserves ==
    ASSUME ChatInv, ReceiveHistory
    PROVE  ChatInv'
<1> DEFINE active == IF target # Nobody THEN target ELSE selected
<1>1. /\ inbox # <<>> /\ inbox' = Tail(inbox)
      /\ messages' = messages \cup With(inbox[1].rows, active)
      /\ UNCHANGED <<serverVars, link, joined, hub, history, missing, breaks, selected, target>>
  BY TailShifts DEF ReceiveHistory, ChatInv, ChatTypes
<1>2. PICK m : m = messages' OBVIOUS
<1>3. selected # Nobody /\ link = "up" => active = selected
  BY DEF ChatInv, TargetIsSelected
<1>4. With(inbox[1].rows, active) \subseteq inbox[1].rows BY DEF With
<1> HIDE DEF active
<1>5. CASE link = "up" BY <1>1, <1>3, <1>4, <1>5, EventApplied
<1>6. CASE link # "up"
  <2>1. inbox \in Seq(Events) BY DEF ChatInv, ChatTypes
  <2>2. /\ inbox' \in Seq(Events) /\ 1 \in DOMAIN inbox
        /\ \A n \in DOMAIN inbox' : n + 1 \in DOMAIN inbox /\ inbox'[n] = inbox[n + 1]
    BY <1>1, <2>1, TailShifts
  <2>3. messages' \subseteq stored BY <1>1, <1>4, <2>2 DEF ChatInv, ChatTypes, ChatTypeOK
  <2>4. \A n \in DOMAIN inbox' : inbox'[n].rows \subseteq stored
    BY <2>2 DEF ChatInv, ChatTypes, ChatTypeOK
  <2>5. ChatTypeOK' BY <1>1, <2>3, <2>4 DEF ChatInv, ChatTypes, ChatTypeOK, serverVars
  <2>6. ChatTypes' BY <1>1, <2>2, <2>5 DEF ChatInv, ChatTypes, serverVars
  <2> QED BY <1>1, <1>6, <2>6 DEF ChatInv, JoinsFirst, TargetIsSelected, AllComing
<1> QED BY <1>5, <1>6

LEMMA ChatInvNext == ChatInv /\ [ChatNext]_chatVars => ChatInv'
<1> SUFFICES ASSUME ChatInv, [ChatNext]_chatVars PROVE ChatInv' OBVIOUS
<1>1. CASE UNCHANGED chatVars
  <2>1. UNCHANGED serverVars /\ UNCHANGED linkVars /\ UNCHANGED tabVars BY <1>1 DEF chatVars
  <2>2. ChatTypeOK' BY <2>1 DEF ChatInv, ChatTypes, ChatTypeOK, serverVars, linkVars, tabVars
  <2>3. ChatTypes' BY <2>1, <2>2 DEF ChatInv, ChatTypes, serverVars, linkVars
  <2>4. Asked' <=> Asked BY <2>1 DEF Asked, linkVars, tabVars
  <2>5. JoinsFirst' /\ TargetIsSelected'
    BY <2>1, <2>4 DEF ChatInv, JoinsFirst, TargetIsSelected, linkVars, tabVars
  <2>6. AllComing'
    BY <2>1, <2>4 DEF ChatInv, AllComing, Coming, serverVars, linkVars, tabVars
  <2> QED BY <2>3, <2>5, <2>6 DEF ChatInv
<1>2. ASSUME NEW p \in Partners, StoreMessage(p) \/ Select(p) PROVE ChatInv'
  BY <1>2, StorePreserves, SelectPreserves
<1>3. ASSUME NEW m \in unsent, Push(m) PROVE ChatInv' BY <1>3, PushPreserves
<1> QED BY <1>1, <1>2, <1>3, JoinPreserves, ReadPreserves, SendPreserves, FailPreserves,
           ConnectPreserves, BreakPreserves, GiveUpPreserves, DeselectPreserves,
           ReceivePreserves, ReceiveHistoryPreserves DEF ChatNext

\* The tab of a chat is in a state of its types: it has only messages that are stored.
THEOREM ChatTypeCorrect == ChatSpec => []ChatTypeOK
<1>1. ChatInv => ChatTypeOK BY DEF ChatInv, ChatTypes
<1> QED BY <1>1, ChatInvInit, ChatInvNext, PTL DEF ChatSpec

\* A connected tab at rest has every message of the conversation it shows, for any
\* number of partners and messages, and however often the connection breaks.
THEOREM NothingIsMissed == ChatSpec => []NothingMissed
<1>1. ChatInv => NothingMissed
  <2> SUFFICES ASSUME ChatInv, link = "up", ~missing, hub = <<>>, inbox = <<>>, unsent = {},
                      selected # Nobody, NEW m \in With(stored, selected)
               PROVE  m \in messages
    BY DEF NothingMissed
  <2>1. Coming(m) BY DEF ChatInv, AllComing
  <2>2. ~Asked /\ ~history.read BY DEF Asked, ChatInv, ChatTypes
  <2> QED BY <2>1, <2>2 DEF Coming
<1> QED BY <1>1, ChatInvInit, ChatInvNext, PTL DEF ChatSpec
-----------------------------------------------------------------------------
(* The professor's page (GradeEncoding).                                   *)

SheetRows == [Pupils -> StagedRows \cup {NoStagedRow}]

\* What is known of one save or submission.
JobOK(d) ==
    /\ d = [kind |-> d.kind, term |-> d.term, sent |-> d.sent, flying |-> d.flying,
            alone |-> d.alone]
    /\ d.kind \in {"none", "save", "submit", "submitted", "late", "failed"} /\ d.term \in Terms
    /\ DOMAIN d.sent \subseteq Pupils
    /\ \A s \in DOMAIN d.sent : d.sent[s] \in Grades
    /\ d.flying \subseteq DOMAIN d.sent

JobsTypeOK == jobs = [j \in Jobs |-> jobs[j]] /\ \A j \in Jobs : JobOK(jobs[j])

LoadRecords ==
    [stage : {"none", "grades", "roster"}, term : Terms, rows : SheetRows \cup {NoLoad.rows},
     whole : BOOLEAN]

LoadsTypeOK ==
    /\ loads \in [Loads -> LoadRecords]
    /\ \A l \in Loads : loads[l].stage = "roster" => loads[l].rows \in SheetRows

EncodingTypes == EncodingTypeOK /\ changes \in 0..MaxEncodingChanges /\ JobsTypeOK /\ LoadsTypeOK

\* The page still answers for a job, or the server has yet to.
Active(d) == d.kind \notin {"none", "failed"}

\* A job that has been alone: nothing else is on its way, and once a save of it is answered
\* the row is as it was sent.
SentIsStaged ==
    \A j \in Jobs : jobs[j].alone /\ Active(jobs[j]) =>
        /\ \A k \in Jobs \ {j} : jobs[k].flying = {}
        /\ \A s \in DOMAIN jobs[j].sent \ jobs[j].flying :
              stagedRows[s].grades = jobs[j].sent[s]

\* The newest load is for the page's term, and no row has changed since it was read
\* unless the page has been told or should have been.
NewestIsCurrent ==
    newest \in Loads /\ loads[newest].stage # "none" =>
        /\ loads[newest].term = term
        /\ loads[newest].stage = "roster" /\ loads[newest].whole /\ ~told /\ ~missed =>
              loads[newest].rows = stagedRows

EncodingInv == EncodingTypes /\ SentIsStaged /\ NewestIsCurrent /\ LoadsRepair

-----------------------------------------------------------------------------
(* What a load makes of the rows.                                          *)

\* The rows that are the latest have a status of their own that is the furthest on.
LEMMA SheetStatusIsOne ==
    ASSUME NEW rs \in SheetRows, NEW t
    PROVE  SheetStatus(rs, t) \in StagedStatuses
<1> DEFINE latest == {s \in Speaking(rs, t) : \A r \in Speaking(rs, t) : rs[r].at <= rs[s].at}
           found == {rs[s].status : s \in latest}
<1>1. \A s \in latest : rs[s].status \in {"returned", "submitted", "approved"}
  <2> SUFFICES ASSUME NEW s \in latest
               PROVE  rs[s].status \in {"returned", "submitted", "approved"}
    OBVIOUS
  <2>1. s \in Pupils /\ rs[s].status \notin {"none", "draft"} BY DEF Speaking, SheetRows
  <2>2. rs[s] \in StagedRows \cup {NoStagedRow} BY <2>1 DEF SheetRows
  <2> QED BY <2>1, <2>2 DEF StagedRows, NoStagedRow, StagedStatuses
<1>2. CASE latest = {} BY <1>2 DEF SheetStatus, StagedStatuses
<1>3. CASE latest # {}
  <2> DEFINE First(st) == \A r \in latest : SheetPriority(rs[r].status) <= SheetPriority(st)
  <2>1. SheetStatus(rs, t) = CHOOSE st \in found : First(st) BY <1>3 DEF SheetStatus
  <2>2. found # {} /\ found \subseteq {"returned", "submitted", "approved"} BY <1>1, <1>3
  <2>3. \A r \in latest : rs[r].status \in found OBVIOUS
  <2> HIDE DEF latest, found
  <2>4. \E st \in found : First(st)
    <3>1. CASE "approved" \in found BY <1>1, <3>1 DEF SheetPriority
    <3>2. CASE "approved" \notin found /\ "submitted" \in found
      BY <1>1, <2>3, <3>2 DEF SheetPriority
    <3>3. CASE "approved" \notin found /\ "submitted" \notin found
      <4>1. "returned" \in found BY <2>2, <3>3
      <4> QED BY <1>1, <2>3, <3>3, <4>1 DEF SheetPriority
    <3> QED BY <3>1, <3>2, <3>3
  <2> HIDE DEF First
  <2>5. SheetStatus(rs, t) \in found BY <2>1, <2>4
  <2> QED BY <2>2, <2>5 DEF StagedStatuses
<1> QED BY <1>2, <1>3

\* The page locks as the rows it has read do, whatever it showed before.
LEMMA MergedLocks ==
    ASSUME NEW old, NEW new \in StagedStatuses
    PROVE  /\ Locked(Merged(old, new)) <=> Locked(new)
           /\ old \in StagedStatuses => Merged(old, new) \in StagedStatuses
BY DEF Merged, Locked, StagedStatuses

LEMMA GradesAre ==
    /\ Grades = [Terms -> Marks \cup {Unset}]
    /\ Blank \in Grades
<1>1. Blank \in Grades BY DEF Blank, Grades
<1>2. ASSUME NEW g \in Grades PROVE g \in [Terms -> Marks \cup {Unset}]
  BY DEF Grades, Terms
<1>3. ASSUME NEW g \in [Terms -> Marks \cup {Unset}] PROVE g \in Grades
  <2>1. g = [t \in Terms |-> g[t]] /\ g["midterm"] \in Marks \cup {Unset}
        /\ g["finals"] \in Marks \cup {Unset}
    BY DEF Terms
  <2>2. g = [midterm |-> g["midterm"], finals |-> g["finals"]]
    BY <2>1 DEF Terms
  <2> QED BY <2>1, <2>2 DEF Grades
<1> QED BY <1>1, <1>2, <1>3

LEMMA RowIs ==
    ASSUME NEW r \in StagedRows \cup {NoStagedRow}
    PROVE  r.grades \in Grades /\ r = [grades |-> r.grades, status |-> r.status, at |-> r.at]
BY GradesAre DEF StagedRows, NoStagedRow

-----------------------------------------------------------------------------
LEMMA NoLoadIs == NoLoad \in LoadRecords /\ NoLoad.stage = "none" /\ NoLoad.whole = TRUE
<1> DEFINE rs == NoLoad.rows
<1>1. NoLoad = [stage |-> "none", term |-> "midterm", rows |-> rs, whole |-> TRUE] BY DEF NoLoad
<1>2. rs \in SheetRows \cup {NoLoad.rows} OBVIOUS
<1> HIDE DEF rs
<1>3. NoLoad.stage = "none" /\ NoLoad.whole = TRUE BY <1>1
<1>4. NoLoad \in LoadRecords BY <1>1, <1>2 DEF LoadRecords, Terms
<1> QED BY <1>3, <1>4

LEMMA NoJobIs == JobOK(NoJob) /\ NoJob.kind = "none" /\ NoJob.flying = {} /\ ~Active(NoJob)
<1>1. /\ NoJob.kind = "none" /\ NoJob.term = "midterm" /\ DOMAIN NoJob.sent = {}
      /\ NoJob.flying = {}
      /\ NoJob = [kind |-> NoJob.kind, term |-> NoJob.term, sent |-> NoJob.sent,
                  flying |-> NoJob.flying, alone |-> NoJob.alone]
  BY DEF NoJob
<1> QED BY <1>1 DEF JobOK, Terms, Active

\* What is left of a job is nothing or saves nobody awaits.
LEMMA RestIs ==
    ASSUME NEW d, JobOK(d), NEW fl \in SUBSET d.flying
    PROVE  JobOK(Rest(d, fl)) /\ Rest(d, fl).flying = fl /\ ~Active(Rest(d, fl))
<1>1. CASE fl = {} BY <1>1, NoJobIs DEF Rest
<1>2. CASE fl # {}
  <2>1. PICK q : q = Rest(d, fl) OBVIOUS
  <2>2. q = [kind |-> "failed", term |-> "midterm", sent |-> d.sent, flying |-> fl,
             alone |-> FALSE]
    BY <1>2, <2>1 DEF Rest
  <2>3. /\ q.kind = "failed" /\ q.term = "midterm" /\ q.sent = d.sent /\ q.flying = fl
        /\ q = [kind |-> q.kind, term |-> q.term, sent |-> q.sent, flying |-> q.flying,
                alone |-> q.alone]
    BY <2>2
  <2>4. JobOK(q) BY <2>3 DEF JobOK, Terms
  <2> QED BY <2>1, <2>3, <2>4 DEF Active
<1> QED BY <1>1, <1>2

\* A job that takes another kind keeps its types and all else.
LEMMA KindMoves ==
    ASSUME NEW d, JobOK(d), NEW kind \in {"save", "submit", "submitted", "late"},
           NEW q, q = [d EXCEPT !.kind = kind]
    PROVE  /\ JobOK(q) /\ q.kind = kind
           /\ q.flying = d.flying /\ q.sent = d.sent /\ q.alone = d.alone
<1>1. d = [kind |-> d.kind, term |-> d.term, sent |-> d.sent, flying |-> d.flying,
           alone |-> d.alone]
  BY DEF JobOK
<1>2. /\ q.kind = kind /\ q.flying = d.flying /\ q.sent = d.sent /\ q.alone = d.alone
      /\ q.term = d.term
      /\ q = [kind |-> q.kind, term |-> q.term, sent |-> q.sent, flying |-> q.flying,
              alone |-> q.alone]
  BY <1>1
<1>3. JobOK(q) BY <1>2 DEF JobOK
<1> QED BY <1>2, <1>3

LEMMA LeftIs ==
    ASSUME NEW d, JobOK(d)
    PROVE  /\ JobOK(Left(d)) /\ Left(d).flying = d.flying
           /\ \/ ~Active(Left(d))
              \/ Active(d) /\ Left(d).sent = d.sent /\ Left(d).alone = d.alone
<1>1. CASE d.kind \in {"submit", "late"} /\ d.flying = {}
  <2>1. PICK q : q = [d EXCEPT !.kind = "late"] OBVIOUS
  <2>2. /\ JobOK(q) /\ q.kind = "late"
        /\ q.flying = d.flying /\ q.sent = d.sent /\ q.alone = d.alone
    BY <2>1, KindMoves
  <2>3. q = Left(d) BY <1>1, <2>1 DEF Left
  <2> QED BY <1>1, <2>2, <2>3 DEF Active
<1>2. CASE ~(d.kind \in {"submit", "late"} /\ d.flying = {})
  <2>1. Left(d) = Rest(d, d.flying) BY <1>2 DEF Left
  <2> QED BY <2>1, RestIs
<1> QED BY <1>1, <1>2

\* One job changes, the others do not.
LEMMA JobChanges ==
    ASSUME JobsTypeOK, NEW j \in Jobs, NEW d, JobOK(d), jobs' = [jobs EXCEPT ![j] = d]
    PROVE  JobsTypeOK' /\ jobs'[j] = d /\ \A k \in Jobs \ {j} : jobs'[k] = jobs[k]
<1>1. DOMAIN jobs = Jobs BY DEF JobsTypeOK
<1>2. jobs'[j] = d /\ \A k \in Jobs \ {j} : jobs'[k] = jobs[k] BY <1>1
<1>3. jobs' = [k \in Jobs |-> jobs'[k]] BY <1>1
<1>4. \A k \in Jobs : JobOK(jobs'[k]) BY <1>2 DEF JobsTypeOK
<1> QED BY <1>2, <1>3, <1>4 DEF JobsTypeOK

\* Nothing new is on its way, no grade changes, and jobs go on or are given up.
LEMMA SentKept ==
    ASSUME JobsTypeOK, SentIsStaged,
           \A s \in Pupils : stagedRows'[s].grades = stagedRows[s].grades,
           \A j \in Jobs :
              /\ jobs'[j].flying \subseteq jobs[j].flying
              /\ \/ ~Active(jobs'[j])
                 \/ /\ Active(jobs[j]) /\ jobs'[j].flying = jobs[j].flying
                    /\ jobs'[j].sent = jobs[j].sent /\ jobs'[j].alone = jobs[j].alone
    PROVE  SentIsStaged'
<1> SUFFICES ASSUME NEW j \in Jobs, jobs'[j].alone, Active(jobs'[j])
             PROVE  /\ \A k \in Jobs \ {j} : jobs'[k].flying = {}
                    /\ \A s \in DOMAIN jobs'[j].sent \ jobs'[j].flying :
                          stagedRows'[s].grades = jobs'[j].sent[s]
  BY DEF SentIsStaged, Active
<1>1. /\ Active(jobs[j]) /\ jobs'[j].flying = jobs[j].flying
      /\ jobs'[j].sent = jobs[j].sent /\ jobs'[j].alone = jobs[j].alone
  OBVIOUS
<1>2. jobs[j].alone BY <1>1, Zenon
<1>3. /\ \A k \in Jobs \ {j} : jobs[k].flying = {}
      /\ \A s \in DOMAIN jobs[j].sent \ jobs[j].flying : stagedRows[s].grades = jobs[j].sent[s]
  BY <1>1, <1>2 DEF SentIsStaged
<1>4. DOMAIN jobs[j].sent \subseteq Pupils BY DEF JobsTypeOK, JobOK
<1>5. \A k \in Jobs \ {j} : jobs'[k].flying = {} BY <1>3
<1>6. ASSUME NEW s \in DOMAIN jobs'[j].sent \ jobs'[j].flying
      PROVE  stagedRows'[s].grades = jobs'[j].sent[s]
  <2>1. s \in DOMAIN jobs[j].sent \ jobs[j].flying /\ s \in Pupils BY <1>1, <1>4
  <2> QED BY <1>1, <1>3, <2>1
<1> QED BY <1>5, <1>6

\* The same if the jobs stand still.
LEMMA SentStands ==
    ASSUME JobsTypeOK, SentIsStaged, jobs' = jobs,
           \A s \in Pupils : stagedRows'[s].grades = stagedRows[s].grades
    PROVE  JobsTypeOK' /\ SentIsStaged'
<1>1. JobsTypeOK' BY DEF JobsTypeOK
<1>2. SentIsStaged'
  <2> SUFFICES ASSUME NEW j \in Jobs, jobs[j].alone, Active(jobs[j])
               PROVE  /\ \A k \in Jobs \ {j} : jobs[k].flying = {}
                      /\ \A s \in DOMAIN jobs[j].sent \ jobs[j].flying :
                            stagedRows'[s].grades = jobs[j].sent[s]
    BY DEF SentIsStaged, Active
  <2>1. DOMAIN jobs[j].sent \subseteq Pupils BY DEF JobsTypeOK, JobOK
  <2> QED BY <2>1 DEF SentIsStaged
<1> QED BY <1>1, <1>2

LEMMA EncodingInvInit == EncodingInit => EncodingInv
<1> SUFFICES ASSUME EncodingInit PROVE EncodingInv OBVIOUS
<1>1. stagedRows \in SheetRows /\ DOMAIN sheet = {} BY DEF EncodingInit, SheetRows
<1>2. 0 \in 0..MaxEncodingChanges BY EncodingConstants
<1>3. jobs = [j \in Jobs |-> NoJob] /\ \A j \in Jobs : jobs[j] = NoJob BY DEF EncodingInit
<1>4. JobsTypeOK BY <1>3, NoJobIs DEF JobsTypeOK
<1>5. EncodingTypeOK
  BY <1>1, <1>4 DEF EncodingTypeOK, EncodingInit, SheetRows, StagedStatuses, Terms, JobsTypeOK, JobOK
<1>6. SentIsStaged BY <1>3, NoJobIs DEF SentIsStaged
<1>7. loads = [l \in Loads |-> NoLoad] BY DEF EncodingInit
<1>8. \A l \in Loads : loads[l] = NoLoad /\ loads[l].stage = "none" BY <1>7, NoLoadIs
<1>9. LoadsTypeOK BY <1>7, <1>8, NoLoadIs DEF LoadsTypeOK
<1>10. NewestIsCurrent BY <1>8 DEF NewestIsCurrent
<1>11. LoadsRepair BY DEF EncodingInit, LoadsRepair
<1> QED BY <1>2, <1>4, <1>5, <1>6, <1>9, <1>10, <1>11 DEF EncodingInv, EncodingTypes, EncodingInit

-----------------------------------------------------------------------------
(* The server.                                                             *)

\* Only statuses change, and the page is told.
LEMMA SetStatusKeepsGrades ==
    ASSUME EncodingTypes, NEW S, NEW st \in StagedStatuses, SetStatus(S, st)
    PROVE  /\ stagedRows' \in SheetRows /\ changes' \in 0..MaxEncodingChanges /\ told' = TRUE
           /\ UNCHANGED <<enrolled, period>>
           /\ \A s \in Pupils : stagedRows'[s].grades = stagedRows[s].grades
<1>1. changes' \in 0..MaxEncodingChanges
  <2>1. Tick BY DEF SetStatus
  <2> QED BY <2>1, EncodingConstants DEF Tick, EncodingTypes
<1>2. PICK c \in 0..MaxEncodingChanges : c = changes' BY <1>1
<1>3. stagedRows' = [s \in Pupils |->
          IF s \in S THEN [stagedRows[s] EXCEPT !.status = st, !.at = c] ELSE stagedRows[s]]
  BY <1>2 DEF SetStatus
<1>4. ASSUME NEW s \in Pupils
      PROVE  /\ stagedRows'[s] \in StagedRows \cup {NoStagedRow}
             /\ stagedRows'[s].grades = stagedRows[s].grades
  <2>1. stagedRows[s] \in StagedRows \cup {NoStagedRow} BY DEF EncodingTypes, EncodingTypeOK
  <2>2. PICK r \in StagedRows \cup {NoStagedRow} : r = stagedRows[s] BY <2>1
  <2>3. r.grades \in Grades /\ r = [grades |-> r.grades, status |-> r.status, at |-> r.at]
    BY RowIs
  <2>4. [r EXCEPT !.status = st, !.at = c] = [grades |-> r.grades, status |-> st, at |-> c]
    <3>1. PICK q : q = [r EXCEPT !.status = st, !.at = c] OBVIOUS
    <3>2. DOMAIN q = {"grades", "status", "at"} /\ q.grades = r.grades /\ q.status = st /\ q.at = c
      BY <2>3, <3>1
    <3>3. q = [grades |-> q.grades, status |-> q.status, at |-> q.at] BY <3>1, <3>2
    <3> QED BY <3>1, <3>2, <3>3
  <2>5. stagedRows'[s] = [grades |-> r.grades, status |-> st, at |-> c] \/ stagedRows'[s] = r
    BY <1>3, <2>2, <2>4
  <2> QED BY <2>2, <2>3, <2>5 DEF StagedRows
<1>5. stagedRows' \in SheetRows
  <2>1. stagedRows' = [s \in Pupils |-> stagedRows'[s]] BY <1>3
  <2> QED BY <1>4, <2>1 DEF SheetRows
<1> QED BY <1>1, <1>4, <1>5 DEF SetStatus, Tell

\* One row becomes the draft that was sent, and the page is told.
LEMMA RecordReplaces ==
    ASSUME EncodingTypes, NEW s \in Pupils, NEW g \in Grades, Record(s, g)
    PROVE  /\ stagedRows' \in SheetRows /\ told' = TRUE
           /\ UNCHANGED <<enrolled, period, changes>>
           /\ stagedRows'[s].grades = g
           /\ \A r \in Pupils \ {s} : stagedRows'[r] = stagedRows[r]
<1> DEFINE row == [grades |-> g, status |-> "draft", at |-> 0]
<1>1. row \in StagedRows /\ row.grades = g BY EncodingConstants DEF StagedRows, StagedStatuses
<1>2. stagedRows' = [stagedRows EXCEPT ![s] = row] BY DEF Record
<1> HIDE DEF row
<1>3. stagedRows \in SheetRows BY DEF EncodingTypes, EncodingTypeOK, SheetRows
<1>4. /\ stagedRows' \in SheetRows /\ stagedRows'[s] = row
      /\ \A r \in Pupils \ {s} : stagedRows'[r] = stagedRows[r]
  BY <1>1, <1>2, <1>3 DEF SheetRows
<1> QED BY <1>1, <1>4 DEF Record, Tell

\* The page is told of whatever changed; what it knew it still knows.
LEMMA ServerMoves ==
    ASSUME EncodingInv,
           stagedRows' \in SheetRows, changes' \in 0..MaxEncodingChanges,
           enrolled' \subseteq Pupils, period' \in Terms,
           told' = TRUE \/ (told' = told /\ stagedRows' = stagedRows),
           UNCHANGED <<missed, pageVars, loadVars>>, JobsTypeOK', SentIsStaged'
    PROVE  EncodingInv'
<1>1. EncodingTypeOK'
  BY DEF EncodingInv, EncodingTypes, EncodingTypeOK, SheetRows, pageVars, JobsTypeOK, JobOK
<1>2. LoadsTypeOK' BY DEF EncodingInv, EncodingTypes, LoadsTypeOK, loadVars
<1>3. NewestIsCurrent' BY DEF EncodingInv, NewestIsCurrent, pageVars, loadVars
<1>4. LoadsRepair' BY DEF EncodingInv, LoadsRepair, pageVars, loadVars
<1> QED BY <1>1, <1>2, <1>3, <1>4 DEF EncodingInv, EncodingTypes

LEMMA ReviewPreserves ==
    ASSUME EncodingInv, NEW s \in Pupils, Review(s)
    PROVE  EncodingInv'
<1>1. PICK st \in {"approved", "returned"} : SetStatus({s}, st) BY DEF Review, Reviewed
<1>2. /\ stagedRows' \in SheetRows /\ changes' \in 0..MaxEncodingChanges /\ told' = TRUE
      /\ UNCHANGED <<enrolled, period>>
      /\ \A r \in Pupils : stagedRows'[r].grades = stagedRows[r].grades
  BY <1>1, SetStatusKeepsGrades DEF EncodingInv, StagedStatuses
<1>3. UNCHANGED <<missed, pageVars, loadVars>> /\ jobs' = jobs BY DEF Review
<1>4. JobsTypeOK' /\ SentIsStaged' BY <1>2, <1>3, SentStands DEF EncodingInv, EncodingTypes
<1> QED BY <1>2, <1>3, <1>4, ServerMoves DEF EncodingInv, EncodingTypes, EncodingTypeOK

LEMMA RosterPreserves ==
    ASSUME EncodingInv, NEW S \in SUBSET Pupils, RosterChanges(S)
    PROVE  EncodingInv'
<1>1. changes' \in 0..MaxEncodingChanges
  BY EncodingConstants DEF RosterChanges, Tick, EncodingInv, EncodingTypes
<1>2. stagedRows' \in SheetRows
  BY DEF RosterChanges, EncodingInv, EncodingTypes, EncodingTypeOK, SheetRows
<1>3. JobsTypeOK' /\ SentIsStaged'
  BY SentStands DEF RosterChanges, EncodingInv, EncodingTypes
<1> QED BY <1>1, <1>2, <1>3, ServerMoves
        DEF RosterChanges, Tell, EncodingInv, EncodingTypes, EncodingTypeOK

LEMMA PeriodPreserves ==
    ASSUME EncodingInv, PeriodMoves
    PROVE  EncodingInv'
<1>1. changes' \in 0..MaxEncodingChanges
  BY EncodingConstants DEF PeriodMoves, Tick, EncodingInv, EncodingTypes
<1>2. stagedRows' \in SheetRows
  BY DEF PeriodMoves, EncodingInv, EncodingTypes, EncodingTypeOK, SheetRows
<1>3. JobsTypeOK' /\ SentIsStaged'
  BY SentStands DEF PeriodMoves, EncodingInv, EncodingTypes
<1> QED BY <1>1, <1>2, <1>3, ServerMoves DEF PeriodMoves, EncodingInv, EncodingTypes, EncodingTypeOK

-----------------------------------------------------------------------------
(* Loading.                                                                *)

LEMMA LoadChanges ==
    ASSUME LoadsTypeOK, NEW l \in Loads, NEW d \in LoadRecords,
           d.stage = "roster" => d.rows \in SheetRows, loads' = [loads EXCEPT ![l] = d]
    PROVE  /\ LoadsTypeOK' /\ loads'[l] = d
           /\ \A k \in Loads \ {l} : loads'[k] = loads[k]
BY DEF LoadsTypeOK

LEMMA BegunIs ==
    ASSUME NEW t \in Terms
    PROVE  Begun(t) \in LoadRecords /\ Begun(t).stage = "grades" /\ Begun(t).term = t
<1>1. PICK d : d = [NoLoad EXCEPT !.stage = "grades", !.term = t] OBVIOUS
<1>2. d \in LoadRecords /\ d.stage = "grades" /\ d.term = t BY <1>1, NoLoadIs DEF LoadRecords
<1> QED BY <1>1, <1>2 DEF Begun

\* A load begins: the page waits for it, in the term it now is in.
LEMMA LoadBegins ==
    ASSUME EncodingInv, NEW l \in Loads, NEW t \in Terms, BeginLoad(l, t), term' = t,
           told' \in BOOLEAN, UNCHANGED <<sectionVars, sheet, status, confirming, jobs>>
    PROVE  EncodingInv'
<1>1. loads' = [loads EXCEPT ![l] = Begun(t)]
      /\ newest' = l /\ fresh' = FALSE /\ missed' = FALSE
  BY DEF BeginLoad
<1>2. LoadsTypeOK' /\ loads'[l].stage = "grades" /\ loads'[l].term = t
  BY <1>1, BegunIs, LoadChanges DEF EncodingInv, EncodingTypes
<1>3. EncodingTypeOK' BY <1>1 DEF EncodingInv, EncodingTypes, EncodingTypeOK, sectionVars
<1>4. JobsTypeOK' /\ SentIsStaged' BY SentStands DEF EncodingInv, EncodingTypes, sectionVars
<1>5. NewestIsCurrent' BY <1>1, <1>2 DEF NewestIsCurrent
<1>6. LoadsRepair' BY <1>1 DEF LoadsRepair
<1> QED BY <1>2, <1>3, <1>4, <1>5, <1>6 DEF EncodingInv, EncodingTypes, sectionVars

LEMMA LoadBeginPreserves ==
    ASSUME EncodingInv, NEW l \in Loads, Reload(l) \/ Focus(l) \/ FollowPeriod(l)
    PROVE  EncodingInv'
<1>1. term \in Terms /\ period \in Terms /\ told \in BOOLEAN
  BY DEF EncodingInv, EncodingTypes, EncodingTypeOK
<1>2. CASE Reload(l) BY <1>1, <1>2, LoadBegins DEF Reload, pageVars
<1>3. CASE Focus(l) BY <1>1, <1>3, LoadBegins DEF Focus, pageVars
<1>4. CASE FollowPeriod(l) BY <1>1, <1>4, LoadBegins DEF FollowPeriod
<1> QED BY <1>2, <1>3, <1>4

LEMMA LostPreserves ==
    ASSUME EncodingInv, AnnouncementLost
    PROVE  EncodingInv'
<1>1. told' = FALSE /\ missed' = TRUE /\ UNCHANGED <<sectionVars, pageVars, jobs, loadVars>>
  BY DEF AnnouncementLost
<1>2. EncodingTypeOK'
  BY <1>1 DEF EncodingInv, EncodingTypes, EncodingTypeOK, sectionVars, pageVars
<1>3. JobsTypeOK' /\ SentIsStaged'
  BY <1>1, SentStands DEF EncodingInv, EncodingTypes, sectionVars
<1>4. LoadsTypeOK' /\ NewestIsCurrent'
  BY <1>1 DEF EncodingInv, EncodingTypes, LoadsTypeOK, NewestIsCurrent, loadVars, pageVars
<1>5. LoadsRepair' BY <1>1 DEF LoadsRepair
<1> QED BY <1>1, <1>2, <1>3, <1>4, <1>5 DEF EncodingInv, EncodingTypes, sectionVars

LEMMA ReadGradesPreserves ==
    ASSUME EncodingInv, NEW l \in Loads, ReadGrades(l)
    PROVE  EncodingInv'
<1>1. stagedRows \in SheetRows /\ NoRows \in SheetRows
  BY DEF EncodingInv, EncodingTypes, EncodingTypeOK, SheetRows, NoRows
<1>2. UNCHANGED <<sectionVars, told, missed, pageVars, jobs, newest, fresh>> BY DEF ReadGrades
<1>3. loads \in [Loads -> LoadRecords] BY DEF EncodingInv, EncodingTypes, LoadsTypeOK
<1>4. PICK d \in LoadRecords :
          /\ d.stage = "roster" /\ d.rows \in SheetRows /\ d.term = loads[l].term
          /\ d.whole => d.rows = stagedRows
          /\ loads' = [loads EXCEPT ![l] = d]
  <2>1. CASE loads' = [loads EXCEPT ![l].stage = "roster", ![l].rows = stagedRows]
    <3>1. PICK d : d = loads'[l] OBVIOUS
    <3>2. /\ d \in LoadRecords /\ d.stage = "roster" /\ d.rows = stagedRows
          /\ d.term = loads[l].term /\ loads' = [loads EXCEPT ![l] = d]
      BY <1>1, <1>3, <2>1, <3>1 DEF LoadRecords
    <3> QED BY <1>1, <3>2
  <2>2. CASE loads' = [loads EXCEPT ![l].stage = "roster", ![l].rows = NoRows, ![l].whole = FALSE]
    <3>1. PICK d : d = loads'[l] OBVIOUS
    <3>2. /\ d \in LoadRecords /\ d.stage = "roster" /\ d.rows = NoRows /\ d.whole = FALSE
          /\ d.term = loads[l].term /\ loads' = [loads EXCEPT ![l] = d]
      BY <1>1, <1>3, <2>2, <3>1 DEF LoadRecords
    <3> QED BY <1>1, <3>2
  <2> QED BY <2>1, <2>2 DEF ReadGrades
<1>5. /\ LoadsTypeOK' /\ loads'[l] = d /\ \A k \in Loads \ {l} : loads'[k] = loads[k]
  BY <1>4, LoadChanges DEF EncodingInv, EncodingTypes
<1>6. EncodingTypeOK' BY <1>2 DEF EncodingInv, EncodingTypes, EncodingTypeOK, sectionVars, pageVars
<1>7. JobsTypeOK' /\ SentIsStaged'
  BY <1>2, SentStands DEF EncodingInv, EncodingTypes, sectionVars
<1>8. NewestIsCurrent'
  <2>1. CASE newest = l
    <3>1. loads[l].stage = "grades" BY DEF ReadGrades
    <3>2. d.term = term BY <1>4, <2>1, <3>1 DEF EncodingInv, NewestIsCurrent
    <3> QED BY <1>2, <1>4, <1>5, <2>1, <3>2 DEF NewestIsCurrent, sectionVars, pageVars
  <2>2. CASE newest # l
    BY <1>2, <1>5, <2>2 DEF EncodingInv, NewestIsCurrent, sectionVars, pageVars
  <2> QED BY <2>1, <2>2
<1>9. LoadsRepair' BY <1>2 DEF EncodingInv, LoadsRepair, sectionVars, pageVars
<1> QED BY <1>2, <1>5, <1>6, <1>7, <1>8, <1>9 DEF EncodingInv, EncodingTypes, sectionVars

\* What a load brings and what the page showed make grades of one type.
LEMMA OverlaidIsTyped ==
    ASSUME EncodingTypes, NEW s, NEW g \in Grades
    PROVE  Overlaid(s, g) \in Grades
<1>1. g \in [Terms -> Marks \cup {Unset}] BY GradesAre
<1>2. CASE s \in DOMAIN sheet
  <2>1. sheet[s] \in [Terms -> Marks \cup {Unset}]
    BY <1>2, GradesAre DEF EncodingTypes, EncodingTypeOK
  <2>2. Overlaid(s, g) \in [Terms -> Marks \cup {Unset}] BY <1>1, <1>2, <2>1 DEF Overlaid
  <2> QED BY <2>2, GradesAre
<1>3. CASE s \notin DOMAIN sheet BY <1>3 DEF Overlaid
<1> QED BY <1>2, <1>3

\* Whatever rows a load brings, the page shows typed grades and locks as the rows do.
LEMMA ShowIs ==
    ASSUME EncodingTypes, NEW d \in LoadRecords, d.rows \in SheetRows,
           NEW roster \in SUBSET Pupils, Show(d, roster)
    PROVE  /\ DOMAIN sheet' \subseteq Pupils /\ \A s \in DOMAIN sheet' : sheet'[s] \in Grades
           /\ status' \in [Terms -> StagedStatuses]
           /\ Locked(status'[d.term]) <=> Locked(SheetStatus(d.rows, d.term))
<1>1. DOMAIN sheet' \subseteq Pupils /\ \A s \in DOMAIN sheet' : sheet'[s] \in Grades
  <2>1. DOMAIN sheet' = roster BY DEF Show
  <2>2. ASSUME NEW s \in roster PROVE sheet'[s] \in Grades
    <3>1. d.rows[s] \in StagedRows \cup {NoStagedRow} BY <2>2 DEF SheetRows
    <3>2. d.rows[s].grades \in Grades BY <3>1, RowIs
    <3>3. Overlaid(s, d.rows[s].grades) \in Grades BY <3>2, OverlaidIsTyped
    <3> QED BY <2>2, <3>3 DEF Show
  <2> QED BY <2>1, <2>2
<1>2. ASSUME NEW t \in Terms
      PROVE  /\ status'[t] \in StagedStatuses
             /\ t = d.term => (Locked(status'[t]) <=> Locked(SheetStatus(d.rows, t)))
  <2> DEFINE new == IF t = d.term THEN SheetStatus(d.rows, t) ELSE "draft"
  <2>1. new \in StagedStatuses BY SheetStatusIsOne DEF StagedStatuses
  <2>2. status'[t] = Merged(status[t], new) BY DEF Show
  <2>3. status[t] \in StagedStatuses BY DEF EncodingTypes, EncodingTypeOK
  <2>4. t = d.term => new = SheetStatus(d.rows, t) OBVIOUS
  <2> HIDE DEF new
  <2>5. status'[t] \in StagedStatuses /\ (Locked(status'[t]) <=> Locked(new))
    BY <2>1, <2>2, <2>3, MergedLocks
  <2> QED BY <2>4, <2>5
<1>3. status' \in [Terms -> StagedStatuses] BY <1>2 DEF Show
<1>4. d.term \in Terms BY DEF LoadRecords
<1> QED BY <1>1, <1>2, <1>3, <1>4

LEMMA ApplyPreserves ==
    ASSUME EncodingInv, NEW l \in Loads, Apply(l)
    PROVE  EncodingInv'
<1>1. PICK d : d = loads[l] OBVIOUS
<1>2. /\ d.stage = "roster"
      /\ \/ Show(d, enrolled) /\ fresh' = (l = newest /\ d.whole)
         \/ (Show(d, {}) \/ Forget) /\ fresh' = FALSE
      /\ loads' = [loads EXCEPT ![l] = NoLoad]
      /\ UNCHANGED <<sectionVars, told, missed, term, confirming, encodingActs, jobs, newest>>
  BY <1>1 DEF Apply
<1>3. d \in LoadRecords /\ d.rows \in SheetRows
  BY <1>1, <1>2 DEF EncodingInv, EncodingTypes, LoadsTypeOK
<1>4. enrolled \in SUBSET Pupils BY DEF EncodingInv, EncodingTypes, EncodingTypeOK
<1>5. /\ DOMAIN sheet' \subseteq Pupils /\ \A s \in DOMAIN sheet' : sheet'[s] \in Grades
      /\ status' \in [Terms -> StagedStatuses]
  <2>1. CASE \E roster \in SUBSET Pupils : Show(d, roster)
    BY <1>3, <2>1, ShowIs DEF EncodingInv
  <2>2. CASE Forget
    <3>1. DOMAIN sheet' = {} /\ status' = [t \in Terms |-> "draft"] BY <2>2 DEF Forget
    <3> QED BY <3>1 DEF StagedStatuses
  <2> QED BY <1>2, <1>4, <2>1, <2>2
<1>6. EncodingTypeOK'
  BY <1>2, <1>5 DEF EncodingInv, EncodingTypes, EncodingTypeOK, sectionVars
<1>7. JobsTypeOK' /\ SentIsStaged'
  BY <1>2, SentStands DEF EncodingInv, EncodingTypes, sectionVars
<1>8. /\ LoadsTypeOK' /\ loads'[l].stage = "none"
      /\ \A k \in Loads \ {l} : loads'[k] = loads[k]
  BY <1>2, NoLoadIs, LoadChanges DEF EncodingInv, EncodingTypes
<1>9. NewestIsCurrent' BY <1>2, <1>8 DEF EncodingInv, NewestIsCurrent, sectionVars
<1>10. LoadsRepair'
  <2> SUFFICES ASSUME fresh', ~told, ~missed
               PROVE  Locked(status'[term]) <=> Locked(SheetStatus(stagedRows, term))
    BY <1>2 DEF LoadsRepair, sectionVars
  <2>1. l = newest /\ d.whole /\ Show(d, enrolled) BY <1>2
  <2>2. d.term = term /\ d.rows = stagedRows
    BY <1>1, <1>2, <2>1 DEF EncodingInv, NewestIsCurrent
  <2>3. Locked(status'[d.term]) <=> Locked(SheetStatus(d.rows, d.term))
    BY <1>3, <1>4, <2>1, ShowIs DEF EncodingInv
  <2> QED BY <2>2, <2>3
<1> QED BY <1>2, <1>6, <1>7, <1>8, <1>9, <1>10 DEF EncodingInv, EncodingTypes, sectionVars

-----------------------------------------------------------------------------
(* Encoding and saving.                                                    *)

\* The page moves while the server stands still; a status it gives itself is not fresh.
LEMMA PageMoves ==
    ASSUME EncodingInv, UNCHANGED <<sectionVars, told, missed, term, loads, newest>>,
           ~fresh' \/ UNCHANGED <<status, fresh>>,
           status' \in [Terms -> StagedStatuses],
           DOMAIN sheet' \subseteq Pupils, \A s \in DOMAIN sheet' : sheet'[s] \in Grades,
           JobsTypeOK', SentIsStaged'
    PROVE  EncodingInv'
<1>1. EncodingTypeOK'
  BY DEF EncodingInv, EncodingTypes, EncodingTypeOK, sectionVars, JobsTypeOK, JobOK
<1>2. LoadsTypeOK' BY DEF EncodingInv, EncodingTypes, LoadsTypeOK
<1>3. NewestIsCurrent' BY DEF EncodingInv, NewestIsCurrent, sectionVars
<1>4. LoadsRepair' BY DEF EncodingInv, LoadsRepair, sectionVars
<1> QED BY <1>1, <1>2, <1>3, <1>4 DEF EncodingInv, EncodingTypes, sectionVars

\* The jobs stand still too: only the sheet and the dialog move.
LEMMA SheetMoves ==
    ASSUME EncodingInv,
           UNCHANGED <<sectionVars, told, missed, term, status, jobs, loadVars>>,
           DOMAIN sheet' \subseteq Pupils, \A s \in DOMAIN sheet' : sheet'[s] \in Grades
    PROVE  EncodingInv'
<1>1. UNCHANGED <<sectionVars, told, missed, term, loads, newest>> /\ UNCHANGED <<status, fresh>>
  BY DEF loadVars
<1>2. JobsTypeOK' /\ SentIsStaged' BY SentStands DEF EncodingInv, EncodingTypes, sectionVars
<1>3. status' \in [Terms -> StagedStatuses] BY DEF EncodingInv, EncodingTypes, EncodingTypeOK
<1> QED BY <1>1, <1>2, <1>3, PageMoves

LEMMA TypePreserves ==
    ASSUME EncodingInv, NEW s \in Pupils, NEW m \in Marks, Type(s, m)
    PROVE  EncodingInv'
<1>1. s \in DOMAIN sheet /\ sheet' = [sheet EXCEPT ![s][term] = m] /\ term \in Terms
  BY DEF Type, EncodingInv, EncodingTypes, EncodingTypeOK
<1>2. PICK g : g = [sheet[s] EXCEPT ![term] = m] OBVIOUS
<1>3. sheet[s] \in [Terms -> Marks \cup {Unset}]
  BY <1>1, GradesAre DEF EncodingInv, EncodingTypes, EncodingTypeOK
<1>4. g \in [Terms -> Marks \cup {Unset}] BY <1>1, <1>2, <1>3
<1>5. g \in Grades BY <1>4, GradesAre
<1>6. sheet' = [sheet EXCEPT ![s] = g] BY <1>1, <1>2
<1>7. DOMAIN sheet' = DOMAIN sheet BY <1>6
<1>8. \A r \in DOMAIN sheet' : sheet'[r] = IF r = s THEN g ELSE sheet[r] BY <1>6
<1>9. DOMAIN sheet' \subseteq Pupils /\ \A r \in DOMAIN sheet' : sheet'[r] \in Grades
  BY <1>5, <1>7, <1>8 DEF EncodingInv, EncodingTypes, EncodingTypeOK
<1> QED BY <1>9, SheetMoves DEF Type

LEMMA DialogPreserves ==
    ASSUME EncodingInv, AskToSubmit \/ Cancel
    PROVE  EncodingInv'
<1>1. UNCHANGED <<sectionVars, told, missed, term, sheet, status, jobs, loadVars>>
  BY DEF AskToSubmit, Cancel
<1>2. DOMAIN sheet' \subseteq Pupils /\ \A r \in DOMAIN sheet' : sheet'[r] \in Grades
  BY <1>1 DEF EncodingInv, EncodingTypes, EncodingTypeOK
<1> QED BY <1>1, <1>2, SheetMoves

\* A job is alone at first if nothing is on its way, and ends that for every other.
LEMMA StartPreserves ==
    ASSUME EncodingInv, NEW j \in Jobs, NEW kind \in {"save", "submit"}, StartJob(j, kind)
    PROVE  EncodingInv'
<1> DEFINE quiet == \A i \in Jobs : jobs[i].flying = {}
           new == [kind |-> kind, term |-> term, sent |-> sheet, flying |-> DOMAIN sheet,
                   alone |-> quiet]
<1>1. /\ UNCHANGED <<sectionVars, told, missed, term, sheet, status, loadVars>>
      /\ jobs[j] = NoJob
      /\ jobs' = [k \in Jobs |-> IF k = j THEN new
             ELSE IF jobs[k] = NoJob THEN NoJob ELSE [jobs[k] EXCEPT !.alone = FALSE]]
  BY DEF StartJob
<1>2. /\ new.kind = kind /\ new.term = term /\ new.sent = sheet /\ new.flying = DOMAIN sheet
      /\ new = [kind |-> new.kind, term |-> new.term, sent |-> new.sent, flying |-> new.flying,
                alone |-> new.alone]
  OBVIOUS
<1>3. new.alone => quiet BY Zenon
<1>4. JobOK(new)
  <2> HIDE DEF new
  <2> QED BY <1>2 DEF EncodingInv, EncodingTypes, EncodingTypeOK, JobOK
<1> HIDE DEF new
<1>5. jobs'[j] = new BY <1>1
<1>6. ASSUME NEW k \in Jobs \ {j}
      PROVE  /\ JobOK(jobs'[k]) /\ jobs'[k].flying = jobs[k].flying
             /\ ~(jobs'[k].alone /\ Active(jobs'[k]))
  <2>1. CASE jobs[k] = NoJob
    <3>1. jobs'[k] = NoJob BY <1>1, <2>1
    <3> QED BY <2>1, <3>1, NoJobIs
  <2>2. CASE jobs[k] # NoJob
    <3>1. JobOK(jobs[k]) BY DEF EncodingInv, EncodingTypes, JobsTypeOK
    <3>2. PICK q : q = [jobs[k] EXCEPT !.alone = FALSE] OBVIOUS
    <3>3. /\ q = [kind |-> q.kind, term |-> q.term, sent |-> q.sent, flying |-> q.flying,
                  alone |-> q.alone]
          /\ q.kind = jobs[k].kind /\ q.term = jobs[k].term /\ q.sent = jobs[k].sent
          /\ q.flying = jobs[k].flying /\ q.alone = FALSE
      BY <3>1, <3>2 DEF JobOK
    <3>4. JobOK(q) BY <3>1, <3>3 DEF JobOK
    <3>5. jobs'[k] = q BY <1>1, <2>2, <3>2
    <3> QED BY <3>3, <3>4, <3>5
  <2> QED BY <2>1, <2>2
<1>7. JobsTypeOK'
  <2>1. jobs' = [k \in Jobs |-> jobs'[k]] BY <1>1
  <2> QED BY <1>4, <1>5, <1>6, <2>1 DEF JobsTypeOK
<1>8. SentIsStaged'
  <2> SUFFICES ASSUME NEW k \in Jobs, jobs'[k].alone, Active(jobs'[k])
               PROVE  /\ \A i \in Jobs \ {k} : jobs'[i].flying = {}
                      /\ \A s \in DOMAIN jobs'[k].sent \ jobs'[k].flying :
                            stagedRows'[s].grades = jobs'[k].sent[s]
    BY DEF SentIsStaged, Active
  <2>1. k = j BY <1>6
  <2>2. new.alone BY <1>5, <2>1, Zenon
  <2>3. \A i \in Jobs \ {k} : jobs'[i].flying = {} BY <1>3, <1>6, <2>1, <2>2
  <2>4. DOMAIN jobs'[k].sent \ jobs'[k].flying = {} BY <1>2, <1>5, <2>1
  <2> QED BY <2>3, <2>4
<1>9. /\ status' \in [Terms -> StagedStatuses] /\ DOMAIN sheet' \subseteq Pupils
      /\ \A r \in DOMAIN sheet' : sheet'[r] \in Grades
  BY <1>1 DEF EncodingInv, EncodingTypes, EncodingTypeOK
<1>10. UNCHANGED <<sectionVars, told, missed, term, loads, newest>> /\ UNCHANGED <<status, fresh>>
  BY <1>1 DEF loadVars
<1> QED BY <1>7, <1>8, <1>9, <1>10, PageMoves

\* A save on its way is a student's, with grades; no other job that is active is alone.
LEMMA FlyingIs ==
    ASSUME EncodingInv, NEW j \in Jobs, NEW s \in jobs[j].flying
    PROVE  /\ JobOK(jobs[j]) /\ s \in DOMAIN jobs[j].sent /\ s \in Pupils
           /\ jobs[j].sent[s] \in Grades
           /\ \A k \in Jobs \ {j} : ~(jobs[k].alone /\ Active(jobs[k]))
<1>1. JobOK(jobs[j]) BY DEF EncodingInv, EncodingTypes, JobsTypeOK
<1>2. \A k \in Jobs \ {j} : ~(jobs[k].alone /\ Active(jobs[k])) BY DEF EncodingInv, SentIsStaged
<1> QED BY <1>1, <1>2 DEF JobOK

LEMMA SaveArrivesPreserves ==
    ASSUME EncodingInv, NEW j \in Jobs, NEW s \in Pupils, SaveArrives(j, s)
    PROVE  EncodingInv'
<1>1. /\ s \in jobs[j].flying /\ jobs[j].kind # "failed" /\ Record(s, jobs[j].sent[s])
      /\ jobs' = [jobs EXCEPT ![j].flying = jobs[j].flying \ {s}]
      /\ UNCHANGED <<missed, pageVars, loadVars>>
  BY DEF SaveArrives
<1>2. /\ JobOK(jobs[j]) /\ s \in DOMAIN jobs[j].sent /\ jobs[j].sent[s] \in Grades
      /\ \A k \in Jobs \ {j} : ~(jobs[k].alone /\ Active(jobs[k]))
  BY <1>1, FlyingIs
<1>3. /\ stagedRows' \in SheetRows /\ told' = TRUE
      /\ UNCHANGED <<enrolled, period, changes>>
      /\ stagedRows'[s].grades = jobs[j].sent[s]
      /\ \A r \in Pupils \ {s} : stagedRows'[r] = stagedRows[r]
  BY <1>1, <1>2, RecordReplaces DEF EncodingInv
<1>4. PICK q : q = [jobs[j] EXCEPT !.flying = jobs[j].flying \ {s}] OBVIOUS
<1>5. /\ q = [kind |-> q.kind, term |-> q.term, sent |-> q.sent, flying |-> q.flying,
              alone |-> q.alone]
      /\ q.kind = jobs[j].kind /\ q.term = jobs[j].term /\ q.sent = jobs[j].sent
      /\ q.alone = jobs[j].alone /\ q.flying = jobs[j].flying \ {s}
  BY <1>2, <1>4 DEF JobOK
<1>6. JobOK(q) BY <1>2, <1>5 DEF JobOK
<1>7. jobs' = [jobs EXCEPT ![j] = q] BY <1>1, <1>4
<1>8. JobsTypeOK' /\ jobs'[j] = q /\ \A k \in Jobs \ {j} : jobs'[k] = jobs[k]
  BY <1>6, <1>7, JobChanges DEF EncodingInv, EncodingTypes
<1>9. SentIsStaged'
  <2> SUFFICES ASSUME NEW k \in Jobs, jobs'[k].alone, Active(jobs'[k])
               PROVE  /\ \A i \in Jobs \ {k} : jobs'[i].flying = {}
                      /\ \A r \in DOMAIN jobs'[k].sent \ jobs'[k].flying :
                            stagedRows'[r].grades = jobs'[k].sent[r]
    BY DEF SentIsStaged, Active
  <2>1. k = j BY <1>2, <1>8
  <2>2. jobs[j].alone /\ Active(jobs[j])
    <3>1. jobs[j].alone BY <1>5, <1>8, <2>1, Zenon
    <3>2. Active(jobs[j]) BY <1>5, <1>8, <2>1 DEF Active
    <3> QED BY <3>1, <3>2
  <2>3. /\ \A i \in Jobs \ {j} : jobs[i].flying = {}
        /\ \A r \in DOMAIN jobs[j].sent \ jobs[j].flying :
              stagedRows[r].grades = jobs[j].sent[r]
    BY <2>2 DEF EncodingInv, SentIsStaged
  <2>4. ASSUME NEW r \in DOMAIN q.sent \ q.flying PROVE stagedRows'[r].grades = q.sent[r]
    <3>1. CASE r = s BY <1>3, <1>5, <3>1
    <3>2. CASE r # s
      <4>1. r \in DOMAIN jobs[j].sent \ jobs[j].flying /\ r \in Pupils
        BY <1>2, <1>5, <2>4, <3>2 DEF JobOK
      <4> QED BY <1>3, <1>5, <2>3, <3>2, <4>1
    <3> QED BY <3>1, <3>2
  <2> QED BY <1>8, <2>1, <2>3, <2>4
<1>10. /\ changes' \in 0..MaxEncodingChanges /\ enrolled' \subseteq Pupils /\ period' \in Terms
  BY <1>3 DEF EncodingInv, EncodingTypes, EncodingTypeOK
<1> QED BY <1>1, <1>3, <1>8, <1>9, <1>10, ServerMoves

LEMMA SaveFailsPreserves ==
    ASSUME EncodingInv, NEW j \in Jobs, NEW s \in Pupils, SaveFails(j, s)
    PROVE  EncodingInv'
<1> DEFINE q == Rest(jobs[j], jobs[j].flying \ {s})
<1>1. /\ s \in jobs[j].flying
      /\ (UNCHANGED <<sectionVars, told>>) \/ Record(s, jobs[j].sent[s])
      /\ jobs' = [jobs EXCEPT ![j] = q]
      /\ UNCHANGED <<missed, pageVars, loadVars>>
  BY DEF SaveFails
<1>2. /\ JobOK(jobs[j]) /\ jobs[j].sent[s] \in Grades
      /\ \A k \in Jobs \ {j} : ~(jobs[k].alone /\ Active(jobs[k]))
  BY <1>1, FlyingIs
<1>3. JobOK(q) /\ ~Active(q) BY <1>2, RestIs
<1> HIDE DEF q
<1>4. JobsTypeOK' /\ jobs'[j] = q /\ \A k \in Jobs \ {j} : jobs'[k] = jobs[k]
  BY <1>1, <1>3, JobChanges DEF EncodingInv, EncodingTypes
<1>5. SentIsStaged' BY <1>2, <1>3, <1>4 DEF SentIsStaged
<1>6. /\ stagedRows' \in SheetRows /\ UNCHANGED <<enrolled, period, changes>>
      /\ told' = TRUE \/ (told' = told /\ stagedRows' = stagedRows)
  <2>1. CASE UNCHANGED <<sectionVars, told>>
    BY <2>1 DEF EncodingInv, EncodingTypes, EncodingTypeOK, SheetRows, sectionVars
  <2>2. CASE Record(s, jobs[j].sent[s]) BY <1>2, <2>2, RecordReplaces DEF EncodingInv
  <2> QED BY <1>1, <2>1, <2>2
<1>7. changes' \in 0..MaxEncodingChanges /\ enrolled' \subseteq Pupils /\ period' \in Terms
  BY <1>6 DEF EncodingInv, EncodingTypes, EncodingTypeOK
<1> QED BY <1>1, <1>4, <1>5, <1>6, <1>7, ServerMoves

\* The page ends a job and says itself what the section's status is.
LEMMA ConcludePreserves ==
    ASSUME EncodingInv, NEW j \in Jobs, NEW st \in StagedStatuses, Conclude(j, st),
           UNCHANGED <<sectionVars, told, missed, term, sheet, loads, newest>>
    PROVE  EncodingInv'
<1>1. status' \in [Terms -> StagedStatuses] /\ ~fresh' /\ jobs' = [jobs EXCEPT ![j] = NoJob]
  BY DEF Conclude, EncodingInv, EncodingTypes, EncodingTypeOK
<1>2. JobsTypeOK' /\ jobs'[j] = NoJob /\ \A k \in Jobs \ {j} : jobs'[k] = jobs[k]
  BY <1>1, NoJobIs, JobChanges DEF EncodingInv, EncodingTypes
<1>3. SentIsStaged' BY <1>2, NoJobIs DEF EncodingInv, SentIsStaged, sectionVars
<1>4. DOMAIN sheet' \subseteq Pupils /\ \A r \in DOMAIN sheet' : sheet'[r] \in Grades
  BY DEF EncodingInv, EncodingTypes, EncodingTypeOK
<1> QED BY <1>1, <1>2, <1>3, <1>4, PageMoves

LEMMA SubmitArrivesPreserves ==
    ASSUME EncodingInv, NEW j \in Jobs, SubmitArrives(j)
    PROVE  EncodingInv'
<1> DEFINE S == {s \in Pupils : stagedRows[s] # NoStagedRow}
<1>1. /\ SetStatus(S, "submitted") /\ jobs[j].kind \in {"submit", "late"}
      /\ jobs' = [jobs EXCEPT ![j] =
             IF jobs[j].kind = "late" THEN NoJob ELSE [jobs[j] EXCEPT !.kind = "submitted"]]
      /\ UNCHANGED <<missed, pageVars, loadVars>>
  BY DEF SubmitArrives, SubmitRows, AllSaved
<1> HIDE DEF S
<1>2. /\ stagedRows' \in SheetRows /\ changes' \in 0..MaxEncodingChanges /\ told' = TRUE
      /\ UNCHANGED <<enrolled, period>>
      /\ \A s \in Pupils : stagedRows'[s].grades = stagedRows[s].grades
  BY <1>1, SetStatusKeepsGrades DEF EncodingInv, StagedStatuses
<1>3. JobOK(jobs[j]) BY DEF EncodingInv, EncodingTypes, JobsTypeOK
<1>4. PICK q : /\ jobs' = [jobs EXCEPT ![j] = q] /\ JobOK(q) /\ q.flying \subseteq jobs[j].flying
               /\ \/ ~Active(q)
                  \/ /\ Active(jobs[j]) /\ q.flying = jobs[j].flying
                     /\ q.sent = jobs[j].sent /\ q.alone = jobs[j].alone
  <2>1. CASE jobs[j].kind = "late" BY <1>1, <2>1, NoJobIs
  <2>2. CASE jobs[j].kind # "late"
    <3>1. PICK q : q = [jobs[j] EXCEPT !.kind = "submitted"] OBVIOUS
    <3>2. /\ JobOK(q) /\ q.flying = jobs[j].flying /\ q.sent = jobs[j].sent
          /\ q.alone = jobs[j].alone
      BY <1>3, <3>1, KindMoves
    <3>3. Active(jobs[j]) BY <1>1 DEF Active
    <3> QED BY <1>1, <2>2, <3>1, <3>2, <3>3
  <2> QED BY <2>1, <2>2
<1>5. JobsTypeOK' /\ jobs'[j] = q /\ \A k \in Jobs \ {j} : jobs'[k] = jobs[k]
  BY <1>4, JobChanges DEF EncodingInv, EncodingTypes
<1>6. \A k \in Jobs :
         /\ jobs'[k].flying \subseteq jobs[k].flying
         /\ \/ ~Active(jobs'[k])
            \/ /\ Active(jobs[k]) /\ jobs'[k].flying = jobs[k].flying
               /\ jobs'[k].sent = jobs[k].sent /\ jobs'[k].alone = jobs[k].alone
  BY <1>4, <1>5
<1>7. SentIsStaged' BY <1>2, <1>6, SentKept DEF EncodingInv, EncodingTypes
<1>8. enrolled' \subseteq Pupils /\ period' \in Terms
  BY <1>2 DEF EncodingInv, EncodingTypes, EncodingTypeOK
<1> QED BY <1>1, <1>2, <1>5, <1>7, <1>8, ServerMoves

LEMMA SubmitFailsPreserves ==
    ASSUME EncodingInv, NEW j \in Jobs, SubmitFails(j)
    PROVE  EncodingInv'
<1>1. PICK d \in {NoJob, Left(jobs[j])} :
          /\ jobs' = [jobs EXCEPT ![j] = d]
          /\ UNCHANGED <<sectionVars, told, missed, pageVars, loadVars>>
  BY DEF SubmitFails
<1>2. JobOK(jobs[j]) BY DEF EncodingInv, EncodingTypes, JobsTypeOK
<1>3. /\ JobOK(d) /\ d.flying \subseteq jobs[j].flying
      /\ \/ ~Active(d)
         \/ /\ Active(jobs[j]) /\ d.flying = jobs[j].flying
            /\ d.sent = jobs[j].sent /\ d.alone = jobs[j].alone
  BY <1>2, NoJobIs, LeftIs
<1>4. JobsTypeOK' /\ jobs'[j] = d /\ \A k \in Jobs \ {j} : jobs'[k] = jobs[k]
  BY <1>1, <1>3, JobChanges DEF EncodingInv, EncodingTypes
<1>5. \A k \in Jobs :
         /\ jobs'[k].flying \subseteq jobs[k].flying
         /\ \/ ~Active(jobs'[k])
            \/ /\ Active(jobs[k]) /\ jobs'[k].flying = jobs[k].flying
               /\ jobs'[k].sent = jobs[k].sent /\ jobs'[k].alone = jobs[k].alone
  BY <1>3, <1>4
<1>6. SentIsStaged' BY <1>1, <1>5, SentKept DEF EncodingInv, EncodingTypes, sectionVars
<1>7. /\ DOMAIN sheet' \subseteq Pupils /\ \A r \in DOMAIN sheet' : sheet'[r] \in Grades
      /\ status' \in [Terms -> StagedStatuses]
  BY <1>1 DEF EncodingInv, EncodingTypes, EncodingTypeOK, pageVars
<1>8. UNCHANGED <<sectionVars, told, missed, term, loads, newest>> /\ UNCHANGED <<status, fresh>>
  BY <1>1 DEF pageVars, loadVars
<1> QED BY <1>4, <1>6, <1>7, <1>8, PageMoves

\* The page starts over: it awaits nothing but its first load.
LEMMA ReopenPreserves ==
    ASSUME EncodingInv, NEW l \in Loads, Reopen(l)
    PROVE  EncodingInv'
<1>1. /\ term' = "midterm" /\ DOMAIN sheet' = {} /\ jobs' = [j \in Jobs |-> Left(jobs[j])]
      /\ loads' = [k \in Loads |-> IF k = l THEN Begun("midterm") ELSE NoLoad]
      /\ newest' = l /\ fresh' = FALSE /\ told' = FALSE /\ missed' = FALSE
      /\ UNCHANGED <<sectionVars, status>>
  BY DEF Reopen
<1>2. \A j \in Jobs : jobs'[j] = Left(jobs[j]) BY <1>1
<1>3. \A j \in Jobs : JobOK(jobs[j]) BY DEF EncodingInv, EncodingTypes, JobsTypeOK
<1>4. JobsTypeOK' BY <1>1, <1>2, <1>3, LeftIs DEF JobsTypeOK
<1>5. ASSUME NEW j \in Jobs
      PROVE  /\ jobs'[j].flying = jobs[j].flying
             /\ \/ ~Active(jobs'[j])
                \/ /\ Active(jobs[j])
                   /\ jobs'[j].sent = jobs[j].sent /\ jobs'[j].alone = jobs[j].alone
  BY <1>2, <1>3, LeftIs
<1>6. SentIsStaged' BY <1>1, <1>5, SentKept DEF EncodingInv, EncodingTypes, sectionVars
<1>7. "midterm" \in Terms BY DEF Terms
<1>8. LoadsTypeOK' /\ loads'[l].stage = "grades" /\ loads'[l].term = "midterm"
  BY <1>1, <1>7, BegunIs, NoLoadIs DEF LoadsTypeOK
<1>9. EncodingTypeOK'
  BY <1>1, <1>4, <1>7
     DEF EncodingInv, EncodingTypes, EncodingTypeOK, sectionVars, JobsTypeOK, JobOK
<1>10. NewestIsCurrent' BY <1>1, <1>8 DEF NewestIsCurrent
<1>11. LoadsRepair' BY <1>1 DEF LoadsRepair
<1> QED BY <1>1, <1>4, <1>6, <1>8, <1>9, <1>10, <1>11 DEF EncodingInv, EncodingTypes, sectionVars

LEMMA EncodingInvNext == EncodingInv /\ [EncodingNext]_encodingVars => EncodingInv'
<1> SUFFICES ASSUME EncodingInv, [EncodingNext]_encodingVars PROVE EncodingInv' OBVIOUS
<1>1. CASE UNCHANGED encodingVars
  <2>1. UNCHANGED <<sectionVars, told, missed, term, sheet, status, jobs, loadVars>>
    BY <1>1 DEF encodingVars, pageVars
  <2>2. DOMAIN sheet' \subseteq Pupils /\ \A r \in DOMAIN sheet' : sheet'[r] \in Grades
    BY <2>1 DEF EncodingInv, EncodingTypes, EncodingTypeOK
  <2> QED BY <2>1, <2>2, SheetMoves
<1>2. ASSUME NEW l \in Loads,
             \/ Reload(l) \/ Focus(l) \/ FollowPeriod(l) \/ Reopen(l) \/ ReadGrades(l) \/ Apply(l)
      PROVE  EncodingInv'
  BY <1>2, LoadBeginPreserves, ReopenPreserves, ReadGradesPreserves, ApplyPreserves
<1>3. CASE AskToSubmit \/ Cancel BY <1>3, DialogPreserves
<1>4. ASSUME NEW j \in Jobs, SaveSheet(j) \/ Confirm(j) PROVE EncodingInv'
  BY <1>4, StartPreserves DEF SaveSheet, Confirm
<1>5. ASSUME NEW j \in Jobs, Saved(j) \/ Submitted(j) PROVE EncodingInv'
  <2>1. PICK st \in {"draft", "submitted"} :
            Conclude(j, st) /\ UNCHANGED <<sectionVars, told, missed, term, sheet, loads, newest>>
    BY <1>5 DEF Saved, Submitted
  <2> QED BY <2>1, ConcludePreserves DEF StagedStatuses
<1>6. ASSUME NEW j \in Jobs, NEW s \in Pupils, SaveArrives(j, s) \/ SaveFails(j, s)
      PROVE  EncodingInv'
  BY <1>6, SaveArrivesPreserves, SaveFailsPreserves
<1>7. ASSUME NEW j \in Jobs, SubmitArrives(j) \/ SubmitFails(j) PROVE EncodingInv'
  BY <1>7, SubmitArrivesPreserves, SubmitFailsPreserves
<1> QED BY <1>1, <1>2, <1>3, <1>4, <1>5, <1>6, <1>7, ReviewPreserves, RosterPreserves,
           PeriodPreserves, LostPreserves, TypePreserves DEF EncodingNext

\* The page, the staged rows and the requests between them keep their types.
THEOREM EncodingTypeCorrect == EncodingSpec => []EncodingTypeOK
<1>1. EncodingInv => EncodingTypeOK BY DEF EncodingInv, EncodingTypes
<1> QED BY <1>1, EncodingInvInit, EncodingInvNext, PTL DEF EncodingSpec

\* When a submission is granted each of its students has the row that was sent, for any
\* number of students, loads and clicks, unless a save of another click was on its way
\* while the submission was made or went on.
THEOREM SubmissionsAreTrue == EncodingSpec => SubmittedAsSent
<1>1. ASSUME EncodingInv, NEW j \in Jobs, SubmitArrives(j), jobs[j].alone,
             NEW s \in DOMAIN jobs[j].sent
      PROVE  stagedRows'[s].grades = jobs[j].sent[s]
  <2>1. jobs[j].flying = {} /\ Active(jobs[j]) BY <1>1 DEF SubmitArrives, AllSaved, Active
  <2>2. s \in Pupils BY <1>1 DEF EncodingInv, EncodingTypes, JobsTypeOK, JobOK
  <2>3. stagedRows[s].grades = jobs[j].sent[s] BY <1>1, <2>1 DEF EncodingInv, SentIsStaged
  <2> DEFINE S == {r \in Pupils : stagedRows[r] # NoStagedRow}
  <2>4. SetStatus(S, "submitted") BY <1>1 DEF SubmitArrives, SubmitRows
  <2> HIDE DEF S
  <2>5. stagedRows'[s].grades = stagedRows[s].grades
    BY <1>1, <2>2, <2>4, SetStatusKeepsGrades DEF EncodingInv, StagedStatuses
  <2> QED BY <2>3, <2>5
<1>2. EncodingInv /\ [EncodingNext]_encodingVars =>
        [\A j \in Jobs : SubmitArrives(j) /\ jobs[j].alone =>
            \A s \in DOMAIN jobs[j].sent : stagedRows'[s].grades = jobs[j].sent[s]]_encodingVars
  BY <1>1
<1> QED BY <1>2, EncodingInvInit, EncodingInvNext, PTL DEF EncodingSpec, SubmittedAsSent

\* A page whose newest load was answered whole and applied last, with no announcement
\* pending or lost since, locks the section exactly if the server's rows do, however many
\* loads failed or were overtaken before.
THEOREM LoadsDoRepair == EncodingSpec => []LoadsRepair
<1>1. EncodingInv => LoadsRepair BY DEF EncodingInv
<1> QED BY <1>1, EncodingInvInit, EncodingInvNext, PTL DEF EncodingSpec

-----------------------------------------------------------------------------
(* All pages (Pages).                                                      *)

\* The variables of every page have their types in any behavior of the pages.
THEOREM PagesTypeCorrect == PagesSpec => []PagesTypeOK
<1>1. ClientTypeOK /\ EncodingTypeOK /\ ReviewTypeOK /\ ChatTypeOK => PagesTypeOK
  BY DEF PagesTypeOK
<1> QED BY <1>1, ClientTypeCorrect, EncodingTypeCorrect, ReviewTypeCorrect, ChatTypeCorrect, PTL
        DEF PagesSpec
=============================================================================
