-------------------------- MODULE ClientPagesProofs --------------------------
(***************************************************************************)
(* Proofs about ClientPages, for any number of rows, clicks, tokens,       *)
(* failing calls and calls under way.                                      *)
(***************************************************************************)
EXTENDS ClientPages, FiniteSetTheorems, WellFoundedInduction, TLAPS

-----------------------------------------------------------------------------
(***************************************************************************)
(* The inductive invariant.  Outside Pages nothing of ListPages moves.  On *)
(* one of them it is about types, what a call of each kind looks like,     *)
(* room for the rows that calls create, the calls that hold busyId, the    *)
(* discount code, the errors, the administrator's rows that come and go,   *)
(* and what the page shows.                                                *)
(***************************************************************************)

Values == {"none", "draft", "published", "confirmed", "cancelled", "there", "first", "second",
           "off", "on", "free", "mine", "other", "plain", "featured", "active", "admin",
           "suspended", "hidden"}
Kinds == {"none", "load", "reload", "export", "calendar", "check", "rollup"} \cup Acts
Snaps == UNION {[S -> Values] : S \in SUBSET Nat}
Jobs == [kind : Kinds, row : Nat, val : Values, res : {"none", "sent", "ok", "bad"},
         snap : Snaps]
Uis(p) == [copy : [RowsOf(p) -> Values], loading : BOOLEAN, busy : Nat, error : BOOLEAN,
           form : BOOLEAN, axes : BOOLEAN, done : BOOLEAN, exporting : BOOLEAN,
           typed : Values, shown : Values]
Hists == [outrun : BOOLEAN, released : BOOLEAN, stale : BOOLEAN, edited : BOOLEAN]

\* The statuses that a row of each page can have.
RowsTyped(p, f) ==
    /\ f \in [RowsOf(p) -> Values]
    /\ \A r \in RowsOf(p) :
        /\ p = "mine" => f[r] \in {"draft", "published"}
        /\ p \in {"attendees", "tickets"} => f[r] \in {"confirmed", "cancelled"}
        /\ p = "types" => f[r] \in {"none", "there"}
        /\ p \in {"reviews", "rate"} => f[r] \in {"none", "first", "second"}
        /\ p = "toggle" => f[r] \in {"off", "on"}
        /\ p = "claim" => f[r] \in {"free", "mine", "other"}
        /\ p = "discount" => f[r] = "none"
        /\ p = "admin" =>
            /\ TableOf[r] = "events" => f[r] \in {"none", "plain", "featured"}
            /\ TableOf[r] = "users" => f[r] \in {"none", "active", "admin", "suspended"}
            /\ TableOf[r] = "categories" => f[r] \in {"none", "there"}
            /\ TableOf[r] = "reviews" => f[r] \in {"none", "published", "hidden"}

Typed ==
    /\ token \in Nat /\ gen \in Nat /\ clicks \in Nat /\ faults \in Nat
    /\ RowsTyped(page, rows)
    /\ ui \in Uis(page)
    /\ jobs \in [Slots -> Jobs]
    /\ hist \in Hists

\* A call of each kind: the page it belongs to, the row and the value.
ListCall(p, job) ==
    /\ job.kind = "publish" => p = "mine" /\ job.row \in RowsOf(p) /\ job.val = "published"
    /\ job.kind = "remove" => p = "attendees" /\ job.row \in RowsOf(p) /\ job.val = "cancelled"
    /\ job.kind = "cancel" => p = "tickets" /\ job.row \in RowsOf(p) /\ job.val = "cancelled"
    /\ job.kind = "create" => p = "types" /\ job.row = 0 /\ job.val = "there"
    /\ job.kind = "review" => p = "reviews" /\ job.row = 1 /\ job.val \in {"first", "second"}
    /\ job.kind = "toggle" => p = "toggle" /\ job.row = 1 /\ job.val \in {"off", "on"}
    /\ job.kind = "rate" => p = "rate" /\ job.row = 1 /\ job.val \in {"first", "second"}
    /\ job.kind = "claim" => p = "claim" /\ job.row = 1 /\ job.val = "mine"
    /\ job.kind = "check" => p = "discount" /\ job.row = 0
    /\ job.kind = "reload" => p = "mine"

AdminCall(p, job) ==
    /\ job.kind = "deleteEvent" =>
        p = "admin" /\ job.row \in RowsOf(p) /\ TableOf[job.row] = "events" /\ job.val = "none"
    /\ job.kind = "setEventFeatured" =>
        /\ p = "admin" /\ job.row \in RowsOf(p) /\ TableOf[job.row] = "events"
        /\ job.val \in {"featured", "plain"}
    /\ job.kind = "setUserSuspended" =>
        /\ p = "admin" /\ job.row \in RowsOf(p) /\ TableOf[job.row] = "users"
        /\ job.val \in {"suspended", "active"}
    /\ job.kind = "createCategory" => p = "admin" /\ job.row = 0 /\ job.val = "there"
    /\ job.kind = "deleteCategory" =>
        p = "admin" /\ job.row \in RowsOf(p) /\ TableOf[job.row] = "categories" /\ job.val = "none"
    /\ job.kind = "setReviewHidden" =>
        /\ p = "admin" /\ job.row \in RowsOf(p) /\ TableOf[job.row] = "reviews"
        /\ job.val \in {"hidden", "published"}

JobShape(p, job) ==
    /\ ListCall(p, job) /\ AdminCall(p, job)
    /\ job.kind = "none" => job.res = "none"
    /\ job.kind # "none" => job.res # "none"
    /\ DOMAIN job.snap \subseteq RowsOf(p)
    /\ job.kind \in {"load", "reload"} /\ job.res = "ok" => DOMAIN job.snap = RowsOf(p)
Shapes == \A i \in Slots : JobShape(page, jobs[i])

\* Rows that are created: there is one left for every call that has been sent.
Created == {r \in DOMAIN rows : rows[r] # "none"}
FreeCategories == {r \in DOMAIN rows : TableOf[r] = "categories" /\ rows[r] = "none"}
SentCategories == {i \in Slots : jobs[i].kind = "createCategory" /\ jobs[i].res = "sent"}
Room ==
    /\ page = "types" =>
        /\ Cardinality(Created) <= clicks /\ clicks <= MaxClicks
        /\ \A i \in Slots : jobs[i].kind = "create" /\ jobs[i].res = "sent"
                               => Cardinality(Created) < clicks
    /\ page = "admin" => Cardinality(SentCategories) <= Cardinality(FreeCategories)

\* The calls whose handler holds busyId: one at a time, until it is overwritten.
HeldKinds == {"publish", "reload", "remove", "cancel", "create", "review", "toggle", "rate",
              "claim", "check", "deleteEvent", "setEventFeatured", "setUserSuspended",
              "deleteCategory", "setReviewHidden"}
Held(i) == jobs[i].kind \in HeldKinds
OneHeld ==
    /\ hist.released => page \in {"attendees", "tickets", "admin"}
    /\ ~hist.released => \A i \in Slots : Held(i) =>
                            ui.busy # 0 /\ \A j \in Slots : Held(j) => j = i

\* The check under way is about the code in the field.
CheckIsForTheCode ==
    \A i \in Slots : jobs[i].kind = "check" => jobs[i].val = ui.typed \/ hist.edited

\* A refusal has a reason, and without one every call sent will be accepted.
Explained == \/ faults > 0 \/ hist.released \/ hist.stale
             \/ page \in {"reviews", "discount"}
RowActs == Acts \ {"create", "createCategory"}
Errors ==
    /\ ui.error => Explained
    /\ \A i \in Slots : jobs[i].res = "bad" => Explained
    /\ ~Explained => \A i \in Slots :
          jobs[i].kind \in RowActs /\ jobs[i].res = "sent"
              => rows[jobs[i].row] \in Needs(jobs[i].kind)

\* Of the administrator's rows only categories come into being, and only categories
\* and events go away.
Lasting == {"users", "reviews"}
AdminReplacing == {"setEventFeatured", "setUserSuspended", "setReviewHidden"}
Tables ==
    page = "admin" => \A r \in RowsOf(page) :
        /\ TableOf[r] \in Lasting /\ ui.copy[r] # "none" => rows[r] # "none"
        /\ \A i \in Slots : r \in DOMAIN jobs[i].snap =>
              /\ TableOf[r] \in Lasting /\ jobs[i].snap[r] # "none" => rows[r] # "none"
              /\ TableOf[r] # "categories" /\ jobs[i].snap[r] = "none" => rows[r] = "none"
        /\ \A i \in Slots : jobs[i].kind \in AdminReplacing /\ jobs[i].row = r =>
              /\ TableOf[r] \in Lasting => rows[r] # "none"
              /\ ui.copy[r] = "none" => rows[r] = "none"

\* What makes up for a row that the page shows in an older status: a call that the
\* server has executed, whose answer brings the row or starts a load.
Replacing == {"remove", "toggle", "rate", "claim"} \cup AdminReplacing
Reloading == {"publish", "cancel", "create", "review", "deleteEvent", "deleteCategory",
              "createCategory"}
Loads == {i \in Slots : jobs[i].kind \in {"load", "reload"}}
Covers(i, r) ==
    /\ jobs[i].res = "ok"
    /\ \/ jobs[i].kind \in Reloading
       \/ jobs[i].kind \in Replacing /\ jobs[i].row = r /\ rows[r] = jobs[i].val
InOrder == faults = 0 /\ (page = "admin" => ~hist.released)
Shown ==
    InOrder =>
        /\ \A i \in Loads : jobs[i].res # "bad"
        /\ \A i \in Slots : jobs[i].kind \in Replacing /\ jobs[i].res = "ok" =>
              \/ rows[jobs[i].row] = jobs[i].val
              \/ jobs[i].kind = "setEventFeatured" /\ rows[jobs[i].row] = "none"
        /\ (token # 0 \/ page \in {"reviews", "discount"}) /\ ~hist.outrun /\ Loads = {} =>
              \A r \in RowsOf(page) : ui.copy[r] = rows[r] \/ \E i \in Slots : Covers(i, r)

PageInv ==
    /\ Typed /\ Shapes /\ Room /\ OneHeld
    /\ NoticeIsForTheCode /\ CheckIsForTheCode
    /\ Errors /\ Tables /\ Shown

Resting ==
    /\ jobs = [i \in Slots |-> NoJob] /\ hist = NoHistory
    /\ ui.error = FALSE /\ ui.shown = "none" /\ ui.busy = 0

\* The desk: its one call, and the token that a scanner needs.
Texts == [form : {"blank", "code", "url"}, id : Nat]
CheckResults == [kind : {"none", "success", "error"}, text : Texts]
CheckIns == [text : Texts, res : {"sent", "success", "error"}]
Desks == [scanner : {"off", "failed", "scanning", "paused"}, field : Texts,
          calls : SUBSET CheckIns, busy : BOOLEAN, result : CheckResults, blank : BOOLEAN]
DeskInv ==
    /\ token \in Nat /\ gen \in Nat /\ desk \in Desks
    /\ \A c, d \in desk.calls : c = d
    /\ desk.busy = (desk.calls # {})
    /\ token = 0 => desk.scanner = "off"
    /\ desk.scanner = "paused" => desk.result # NoResult \/ desk.calls # {} \/ desk.blank

IInv ==
    /\ IF page \in Pages THEN PageInv ELSE Resting
    /\ IF page = "desk" THEN DeskInv ELSE desk = DeskClosed

-----------------------------------------------------------------------------
(* The desk *)

LEMMA TextsTyped ==
  /\ Blankness \in Texts /\ Codes \subseteq Texts
  /\ QrTexts \subseteq Texts
  /\ NoResult \in CheckResults
<1>1. Blankness \in Texts
  BY DEF Blankness, Text, Texts
<1>2. \A id \in 1 .. NumRows : Text("code", id) \in Texts /\ QrOf(id) \in Texts
  BY DEF QrOf, Text, Texts
<1>3. Codes \subseteq Texts
  BY <1>2 DEF Codes
<1> QED
  BY <1>1, <1>2, <1>3 DEF QrTexts, NoResult, CheckResults

\* What a step of the desk has to respect: d is the state after it.
DeskGood(d, tok) ==
    /\ d \in Desks
    /\ \A c, e \in d.calls : c = e
    /\ d.busy = (d.calls # {})
    /\ tok = 0 => d.scanner = "off"
    /\ d.scanner = "paused" => d.result # NoResult \/ d.calls # {} \/ d.blank

\* A code is submitted unless another one is checked.
LEMMA Submitted ==
  ASSUME token # 0, NEW text \in Texts, NEW d \in Desks,
         \A c, e \in d.calls : c = e, d.busy = (d.calls # {}),
         d.scanner = "paused" =>
           d.result # NoResult \/ d.calls # {} \/ d.blank \/ text # Blankness
  PROVE  DeskGood(submitCode(d, text), token)
<1>1. CASE text = Blankness \/ d.busy
  BY <1>1 DEF submitCode, DeskGood
<1>2. CASE ~(text = Blankness \/ d.busy)
  <2>1. PICK call : call = [text |-> text, res |-> "sent"]
    OBVIOUS
  <2>2. call \in CheckIns
    BY <2>1 DEF CheckIns
  <2>3. d.calls = {}
    BY <1>2
  <2>4. submitCode(d, text) = [d EXCEPT !.busy = TRUE, !.calls = {call}]
    BY <1>2, <2>1, <2>3 DEF submitCode
  <2>5. PICK e : e = submitCode(d, text)
    OBVIOUS
  <2>6. e \in Desks /\ e.calls = {call} /\ e.busy = TRUE
    <3>1. {call} \in SUBSET CheckIns
      BY <2>2
    <3>2. e = [d EXCEPT !.busy = TRUE, !.calls = {call}]
      BY <2>4, <2>5
    <3> HIDE DEF CheckIns
    <3> QED
      BY <3>1, <3>2 DEF Desks
  <2> QED
    BY <2>5, <2>6 DEF DeskGood
<1> QED
  BY <1>1, <1>2

LEMMA DeskStep ==
  ASSUME page = "desk", DeskInv, DeskNext
  PROVE  DeskInv' /\ page' = page /\ UNCHANGED <<ui, jobs, hist>>
<1> USE DEF Desk
<1>0. /\ token \in Nat /\ gen \in Nat /\ desk \in Desks /\ DeskGood(desk, token)
  BY DEF DeskInv, DeskGood
<1> SUFFICES /\ page' = page /\ UNCHANGED <<ui, jobs, hist>>
             /\ token' \in Nat /\ gen' \in Nat /\ DeskGood(desk', token')
  BY DEF DeskInv, DeskGood
<1>1. CASE OpenDesk
  <2>1. PICK scanner \in {"scanning", "failed"} : desk' = [desk EXCEPT !.scanner = scanner]
    BY <1>1 DEF OpenDesk
  <2>2. /\ desk' \in Desks /\ desk'.scanner = scanner /\ desk'.calls = desk.calls
        /\ desk'.busy = desk.busy /\ desk'.result = desk.result /\ desk'.blank = desk.blank
    BY <1>0, <2>1 DEF Desks
  <2>3. token' \in Nat /\ gen' \in Nat /\ token' # 0
    BY <1>0, <1>1 DEF OpenDesk
  <2> QED
    BY <1>0, <1>1, <2>2, <2>3 DEF OpenDesk, DeskGood
<1>2. CASE CloseDesk
  <2>2. /\ desk' \in Desks /\ desk'.scanner = "off" /\ desk'.calls = desk.calls
        /\ desk'.busy = desk.busy /\ desk'.result = desk.result /\ desk'.blank = desk.blank
    BY <1>0, <1>2 DEF Desks, CloseDesk
  <2> QED
    BY <1>0, <1>2, <2>2 DEF CloseDesk, DeskGood
<1>3. CASE HandleManualSubmit
  <2>1. PICK d : d = submitCode(desk, desk.field)
    OBVIOUS
  <2>2. DeskGood(d, token)
    BY <1>0, <1>3, <2>1, Submitted DEF HandleManualSubmit, DeskGood, Desks
  <2>3. desk' = [d EXCEPT !.field = Blankness]
    BY <1>3, <2>1 DEF HandleManualSubmit
  <2>4. /\ desk' \in Desks /\ desk'.scanner = d.scanner /\ desk'.calls = d.calls
        /\ desk'.busy = d.busy /\ desk'.result = d.result /\ desk'.blank = d.blank
    BY <2>2, <2>3, TextsTyped DEF DeskGood, Desks
  <2> QED
    BY <1>0, <1>3, <2>2, <2>4 DEF HandleManualSubmit, DeskGood
<1>4. CASE HandleResumeScanning
  <2>1. /\ desk' \in Desks /\ desk'.calls = desk.calls
        /\ desk'.busy = desk.busy /\ desk'.result = NoResult
        /\ desk'.scanner = IF desk.scanner = "paused" THEN "scanning" ELSE desk.scanner
    BY <1>0, <1>4, TextsTyped DEF HandleResumeScanning, Desks
  <2> QED
    BY <1>0, <1>4, <2>1 DEF HandleResumeScanning, DeskGood
<1>5. ASSUME NEW call \in desk.calls, NEW r \in {"success", "error"},
             desk' = [desk EXCEPT !.calls = (@ \ {call}) \cup {[call EXCEPT !.res = r]}]
      PROVE  DeskGood(desk', token)
  <2>1. [call EXCEPT !.res = r] \in CheckIns
    BY <1>0, <1>5 DEF Desks, CheckIns
  <2>2. desk.calls = {call}
    BY <1>0, <1>5 DEF DeskGood
  <2>3. desk'.calls = {[call EXCEPT !.res = r]}
    BY <1>0, <1>5, <2>2 DEF Desks
  <2>4. /\ desk' \in Desks /\ desk'.scanner = desk.scanner
        /\ desk'.busy = desk.busy /\ desk'.result = desk.result /\ desk'.blank = desk.blank
    BY <1>0, <1>5, <2>1 DEF Desks
  <2> QED
    BY <1>0, <2>2, <2>3, <2>4 DEF DeskGood
<1>6. ASSUME NEW call \in desk.calls, ServeCheckIn(call) PROVE DeskGood(desk', token)
  <2>1. PICK ok \in BOOLEAN :
          ok = (call.text.form = "code" /\ rows[call.text.id] = "confirmed")
    OBVIOUS
  <2>2. desk' = [desk EXCEPT !.calls = (@ \ {call})
                    \cup {[call EXCEPT !.res = IF ok THEN "success" ELSE "error"]}]
    BY <1>6, <2>1 DEF ServeCheckIn
  <2> QED
    BY <1>5, <2>2
<1>7. ASSUME NEW call \in desk.calls, NEW executed \in BOOLEAN, FailCheckIn(call, executed)
      PROVE  DeskGood(desk', token)
  BY <1>5, <1>7 DEF FailCheckIn
<1>8. ASSUME NEW call \in desk.calls, AnswerCheckIn(call) PROVE DeskGood(desk', token)
  <2>1. PICK result : result = [kind |-> call.res, text |-> call.text]
    OBVIOUS
  <2>2. call \in CheckIns
    BY <1>0, <1>8 DEF Desks
  <2>3. result \in CheckResults /\ result # NoResult
    BY <2>1, <2>2, <1>8 DEF CheckIns, NoResult, CheckResults, AnswerCheckIn
  <2>4. desk.calls = {call}
    BY <1>0, <1>8 DEF DeskGood
  <2>5. desk' = [desk EXCEPT !.calls = {}, !.busy = FALSE, !.result = result]
    BY <1>8, <2>1, <2>4 DEF AnswerCheckIn
  <2>6. /\ desk' \in Desks /\ desk'.calls = {} /\ desk'.busy = FALSE
        /\ desk'.scanner = desk.scanner /\ desk'.result = result
    BY <1>0, <2>3, <2>5 DEF Desks
  <2> QED
    BY <1>0, <2>3, <2>6 DEF DeskGood
<1>9. CASE DeskAnswer
  <2>1. PICK call \in desk.calls : ServeCheckIn(call) \/ AnswerCheckIn(call)
    BY <1>9 DEF DeskAnswer
  <2> QED
    BY <1>0, <1>6, <1>8, <2>1 DEF ServeCheckIn, AnswerCheckIn
<1>10. ASSUME NEW text \in QrTexts, Decode(text) PROVE DeskGood(desk', token)
  <2>1. PICK blank \in BOOLEAN : blank = (text = Blankness)
    OBVIOUS
  <2>2. PICK d : d = [desk EXCEPT !.scanner = "paused", !.blank = blank]
    OBVIOUS
  <2>3. /\ d \in Desks /\ d.calls = desk.calls /\ d.busy = desk.busy /\ d.blank = blank
    BY <1>0, <2>2 DEF Desks
  <2>4. token # 0
    BY <1>0, <1>10 DEF Decode, DeskGood
  <2>5. text \in Texts
    BY TextsTyped
  <2>6. d.blank \/ text # Blankness
    BY <2>1, <2>3
  <2>7. DeskGood(submitCode(d, text), token)
    BY <1>0, <2>3, <2>4, <2>5, <2>6, Submitted DEF DeskGood
  <2> QED
    BY <1>10, <2>1, <2>2, <2>7 DEF Decode
<1>11. ASSUME NEW text \in Codes \cup {Blankness}, TypeTicketCode(text)
       PROVE  DeskGood(desk', token)
  <2>1. text \in Texts
    BY TextsTyped
  <2>2. /\ desk' \in Desks /\ desk'.scanner = desk.scanner /\ desk'.calls = desk.calls
        /\ desk'.busy = desk.busy /\ desk'.result = desk.result /\ desk'.blank = desk.blank
    BY <1>0, <1>11, <2>1 DEF Desks, TypeTicketCode
  <2> QED
    BY <1>0, <2>2 DEF DeskGood
<1> QED
  BY <1>0, <1>1, <1>2, <1>3, <1>4, <1>7, <1>9, <1>10, <1>11
  DEF DeskNext, Decode, TypeTicketCode, FailCheckIn

LEMMA DeskSafe ==
  ASSUME DeskInv
  PROVE  PausedScannerExplained
<1>1. IsFiniteSet(desk.calls) /\ Cardinality(desk.calls) <= 1
  <2>1. CASE desk.calls = {}
    BY <2>1, FS_EmptySet
  <2>2. ASSUME NEW call \in desk.calls PROVE IsFiniteSet(desk.calls) /\ Cardinality(desk.calls) <= 1
    <3>1. desk.calls = {call}
      BY DEF DeskInv
    <3> QED
      BY <3>1, FS_Singleton
  <2> QED
    BY <2>1, <2>2
<1> QED
  BY <1>1 DEF DeskInv, PausedScannerExplained

-----------------------------------------------------------------------------
(* Slots, calls and rows *)

\* The least element of a set of numbers is in the set.
LEMMA MinInSet ==
  ASSUME NEW S, S \subseteq Nat, S # {}
  PROVE  Min(S) \in S
<1>1. PICK x \in S : \A y \in S : ~(<<y, x>> \in OpToRel(<, Nat))
  BY NatLessThanWellFounded, WFMin
<1>2. \A y \in S : x <= y
  <2> SUFFICES ASSUME NEW y \in S, y < x PROVE FALSE
    OBVIOUS
  <2>1. <<y, x>> \in OpToRel(<, Nat)
    BY DEF OpToRel
  <2> QED
    BY <1>1, <2>1
<1> QED
  BY <1>2 DEF Min

LEMMA FreeSlot ==
  ASSUME Free # {}
  PROVE  Min(Free) \in Slots /\ jobs[Min(Free)].kind = "none"
<1>1. Free \subseteq Nat
  BY BoundsAssumption DEF Free, Slots
<1>2. Min(Free) \in Free
  BY <1>1, MinInSet
<1> QED
  BY <1>2 DEF Free

LEMMA SlotsFinite == IsFiniteSet(Slots)
BY BoundsAssumption, FS_Interval DEF Slots

\* One slot is overwritten.
LEMMA OverwriteSlot ==
  ASSUME jobs \in [Slots -> Jobs], NEW i \in Slots, NEW job \in Jobs,
         jobs' = [jobs EXCEPT ![i] = job]
  PROVE  /\ jobs' \in [Slots -> Jobs] /\ jobs'[i] = job
         /\ \A j \in Slots : jobs'[j] = IF j = i THEN job ELSE jobs[j]
         /\ \A j \in Slots \ {i} : jobs'[j] = jobs[j]
BY DEF Slots

LEMMA NoJobFields ==
  /\ NoJob \in Jobs /\ NoJob.kind = "none" /\ NoJob.row = 0 /\ NoJob.val = "none"
  /\ NoJob.res = "none" /\ DOMAIN NoJob.snap = {}
<1>1. <<>> \in Snaps /\ DOMAIN <<>> = {}
  <2>1. <<>> \in [{} -> Values]
    OBVIOUS
  <2> QED
    BY <2>1 DEF Snaps
<1> QED
  BY <1>1 DEF NoJob, Jobs, Kinds, Values

LEMMA JobFields ==
  ASSUME NEW kind \in Kinds, NEW id \in Nat, NEW val \in Values
  PROVE  /\ Job(kind, id, val) \in Jobs
         /\ Job(kind, id, val).kind = kind /\ Job(kind, id, val).row = id
         /\ Job(kind, id, val).val = val /\ Job(kind, id, val).res = "sent"
         /\ DOMAIN Job(kind, id, val).snap = {}
<1> HIDE DEF Kinds, Values
<1>1. PICK job : job = NoJob
  OBVIOUS
<1>2. job \in Jobs /\ DOMAIN job.snap = {}
  BY <1>1, NoJobFields
<1>3. Job(kind, id, val) = [job EXCEPT !.kind = kind, !.row = id, !.val = val, !.res = "sent"]
  BY <1>1 DEF Job
<1> QED
  BY <1>2, <1>3 DEF Jobs

\* A call gets its result, or another part of its list.
LEMMA JobUpdate ==
  ASSUME NEW job \in Jobs, NEW res \in {"none", "sent", "ok", "bad"}, NEW snap \in Snaps
  PROVE  /\ [job EXCEPT !.res = res] \in Jobs
         /\ [job EXCEPT !.res = res].kind = job.kind /\ [job EXCEPT !.res = res].row = job.row
         /\ [job EXCEPT !.res = res].val = job.val /\ [job EXCEPT !.res = res].res = res
         /\ [job EXCEPT !.res = res].snap = job.snap
         /\ [job EXCEPT !.snap = snap, !.res = res] \in Jobs
         /\ [job EXCEPT !.snap = snap, !.res = res].kind = job.kind
         /\ [job EXCEPT !.snap = snap, !.res = res].row = job.row
         /\ [job EXCEPT !.snap = snap, !.res = res].val = job.val
         /\ [job EXCEPT !.snap = snap, !.res = res].res = res
         /\ [job EXCEPT !.snap = snap, !.res = res].snap = snap
BY DEF Jobs

LEMMA PageRows ==
  /\ RowsOf("mine") = 1 .. NumRows /\ RowsOf("attendees") = 1 .. NumRows
  /\ RowsOf("tickets") = 1 .. NumRows /\ RowsOf("types") = 1 .. MaxClicks
  /\ RowsOf("reviews") = {1} /\ RowsOf("toggle") = {1} /\ RowsOf("rate") = {1}
  /\ RowsOf("claim") = {1} /\ RowsOf("discount") = {1} /\ RowsOf("admin") = DOMAIN TableOf
BY DEF RowsOf

LEMMA TableRows ==
  /\ DOMAIN TableOf = 1 .. 6 /\ DOMAIN IdOf = 1 .. 6
  /\ \A r \in 1 .. 6 : IdOf[r] \in Nat \ {0}
  /\ \A r \in 1 .. 6 : TableOf[r] \in {"events", "users", "categories", "reviews"}
<1>1. DOMAIN TableOf = 1 .. 6 /\ DOMAIN IdOf = 1 .. 6
  BY DEF TableOf, IdOf
<1>2. \A r \in 1 .. 6 : r = 1 \/ r = 2 \/ r = 3 \/ r = 4 \/ r = 5 \/ r = 6
  OBVIOUS
<1>3. /\ IdOf[1] = 1 /\ IdOf[2] = 2 /\ IdOf[3] = 1 /\ IdOf[4] = 1 /\ IdOf[5] = 2 /\ IdOf[6] = 1
  BY DEF IdOf
<1>4. /\ TableOf[1] = "events" /\ TableOf[2] = "events" /\ TableOf[3] = "users"
      /\ TableOf[4] = "categories" /\ TableOf[5] = "categories" /\ TableOf[6] = "reviews"
  BY DEF TableOf
<1> QED
  BY <1>1, <1>2, <1>3, <1>4

\* The rows of a page have numbers above 0, and there are finitely many.
LEMMA RowNumbers ==
  ASSUME NEW p \in Pages
  PROVE  /\ RowsOf(p) \subseteq Nat \ {0}
         /\ IsFiniteSet(RowsOf(p))
<1>1. /\ p \in {"mine", "attendees", "tickets", "types", "admin", "toggle", "rate", "claim",
                "reviews", "discount"}
  BY DEF Pages, LoadedForToken, ListPage
<1>2. \A n \in Nat : 1 .. n \subseteq Nat \ {0} /\ IsFiniteSet(1 .. n)
  BY FS_Interval
<1>3. {1} \subseteq Nat \ {0} /\ IsFiniteSet({1})
  <2>1. {1} \subseteq Nat \ {0}
    OBVIOUS
  <2>2. IsFiniteSet({1})
    BY FS_Singleton
  <2> QED
    BY <2>1, <2>2
<1>4. NumRows \in Nat /\ MaxClicks \in Nat
  BY BoundsAssumption
<1>5. p \in {"reviews", "toggle", "rate", "claim", "discount"} => RowsOf(p) = {1}
  BY PageRows
<1>6. p \in {"mine", "attendees", "tickets"} => RowsOf(p) = 1 .. NumRows
  BY PageRows
<1>7. p = "types" => RowsOf(p) = 1 .. MaxClicks
  BY PageRows
<1>8. p = "admin" => RowsOf(p) = 1 .. 6
  BY PageRows, TableRows
<1> QED
  BY <1>1, <1>2, <1>3, <1>4, <1>5, <1>6, <1>7, <1>8

-----------------------------------------------------------------------------
(***************************************************************************)
(* A click: job is the call it sends, u the component's state then.        *)
(***************************************************************************)

SharedBusy == {"attendees", "tickets", "admin"}
ClickOf(job, u) ==
    /\ job \in Jobs /\ JobShape(page, job)
    /\ job.kind \notin {"none", "load", "reload"}
    /\ job.res = "sent" /\ DOMAIN job.snap = {}
    /\ u \in Uis(page) /\ u.copy = ui.copy /\ u.typed = ui.typed
    /\ u.error => ui.error
    /\ u.shown \in {"none", ui.shown}
    /\ job.kind \in HeldKinds =>
          u.busy # 0 /\ (ui.busy = 0 \/ (ui.busy # u.busy /\ page \in SharedBusy))
    /\ job.kind \notin HeldKinds => u.busy = ui.busy
    /\ job.kind \in RowActs /\ page # "reviews" /\ ui.copy[job.row] = rows[job.row]
          => rows[job.row] \in Needs(job.kind)
    /\ job.kind \in AdminReplacing => ui.copy[job.row] # "none"
    /\ job.kind = "check" => job.val = ui.typed
    /\ job.kind = "createCategory" => RoomForCategory

\* What is known of the state after it; i is the slot of the call.
Sent(i, job) ==
    /\ i \in Slots /\ jobs[i].kind = "none" /\ jobs' = [jobs EXCEPT ![i] = job]
    /\ clicks' = clicks + 1 /\ (page = "types" => clicks < MaxClicks)
    /\ UNCHANGED <<page, token, gen, rows, faults>>
    /\ hist' \in Hists
    /\ hist'.outrun = hist.outrun /\ hist'.edited = hist.edited
    /\ hist.released => hist'.released
    /\ hist.stale => hist'.stale
    /\ hist'.released => hist.released \/ page \in SharedBusy
    /\ job.kind \in HeldKinds => ui.busy = 0 \/ hist'.released
    /\ job.row # 0 => hist'.stale \/ ui.copy[job.row] = rows[job.row]

LEMMA ClickSends ==
  ASSUME Typed, NEW job, ClickOf(job, ui'), Click(job, ui')
  PROVE  \E i \in Slots : Sent(i, job)
<1>1. PICK i : i = Min(Free)
  OBVIOUS
<1>2. i \in Slots /\ jobs[i].kind = "none" /\ jobs' = [jobs EXCEPT ![i] = job]
  BY <1>1, FreeSlot DEF Click, Started
<1>3. PICK released \in BOOLEAN :
        released = (hist.released \/ (ui.busy # 0 /\ ui'.busy # ui.busy))
  OBVIOUS
<1>4. PICK stale \in BOOLEAN :
        stale = (hist.stale \/ (job.row # 0 /\ ui.copy[job.row] # rows[job.row]))
  OBVIOUS
<1>5. hist' = [hist EXCEPT !.released = released, !.stale = stale]
  BY <1>3, <1>4 DEF Click
<1>6. /\ hist' \in Hists /\ hist'.released = released /\ hist'.stale = stale
      /\ hist'.outrun = hist.outrun /\ hist'.edited = hist.edited
  BY <1>5 DEF Typed, Hists
<1>7. /\ clicks' = clicks + 1 /\ (page = "types" => clicks < MaxClicks)
      /\ UNCHANGED <<page, token, gen, rows, faults>>
  BY DEF Click, Allowed
<1>8. released => hist.released \/ page \in SharedBusy
  BY <1>3 DEF ClickOf
<1>9. job.kind \in HeldKinds => ui.busy = 0 \/ released
  BY <1>3 DEF ClickOf
<1>10. /\ hist.released => released
       /\ hist.stale => stale
       /\ job.row # 0 => stale \/ ui.copy[job.row] = rows[job.row]
  BY <1>3, <1>4
<1> QED
  BY <1>2, <1>6, <1>7, <1>8, <1>9, <1>10 DEF Sent

LEMMA SentTyped ==
  ASSUME PageInv, NEW i, NEW job, ClickOf(job, ui'), Sent(i, job)
  PROVE  /\ Typed' /\ Shapes'
         /\ jobs'[i] = job /\ \A j \in Slots \ {i} : jobs'[j] = jobs[j]
<1>1. /\ jobs' \in [Slots -> Jobs] /\ jobs'[i] = job
      /\ \A j \in Slots \ {i} : jobs'[j] = jobs[j]
  BY OverwriteSlot DEF PageInv, Typed, Sent, ClickOf
<1>2. Typed'
  BY <1>1 DEF PageInv, Typed, Sent, ClickOf
<1>3. \A j \in Slots : JobShape(page, jobs'[j])
  BY <1>1 DEF PageInv, Shapes, ClickOf
<1> QED
  BY <1>1, <1>2, <1>3 DEF Shapes, Sent

LEMMA CreatedFinite ==
  ASSUME page \in Pages, Typed
  PROVE  /\ IsFiniteSet(Created) /\ IsFiniteSet(FreeCategories) /\ IsFiniteSet(SentCategories)
         /\ Cardinality(Created) \in Nat /\ Cardinality(FreeCategories) \in Nat
         /\ Cardinality(SentCategories) \in Nat
         /\ DOMAIN rows = RowsOf(page)
<1>1. DOMAIN rows = RowsOf(page) /\ IsFiniteSet(RowsOf(page))
  BY RowNumbers DEF Typed, RowsTyped
<1>2. Created \subseteq RowsOf(page) /\ FreeCategories \subseteq RowsOf(page)
  BY <1>1 DEF Created, FreeCategories
<1>3. SentCategories \subseteq Slots
  BY DEF SentCategories
<1>4. IsFiniteSet(Created) /\ IsFiniteSet(FreeCategories) /\ IsFiniteSet(SentCategories)
  BY <1>1, <1>2, <1>3, SlotsFinite, FS_Subset
<1> QED
  BY <1>1, <1>4, FS_CardinalityType

LEMMA SentRoom ==
  ASSUME page \in Pages, PageInv, NEW i, NEW job, ClickOf(job, ui'), Sent(i, job)
  PROVE  Room'
<1>0. /\ jobs'[i] = job /\ (\A j \in Slots \ {i} : jobs'[j] = jobs[j]) /\ i \in Slots
      /\ page' = page /\ rows' = rows /\ clicks' = clicks + 1
      /\ clicks \in Nat
  BY SentTyped DEF Sent, PageInv, Typed
<1>1. Created' = Created /\ FreeCategories' = FreeCategories
  BY <1>0 DEF Created, FreeCategories
<1>2. Cardinality(Created) \in Nat /\ Cardinality(FreeCategories) \in Nat
      /\ Cardinality(SentCategories) \in Nat /\ IsFiniteSet(SentCategories)
  BY CreatedFinite DEF PageInv
<1>3. MaxClicks \in Nat
  BY BoundsAssumption
<1>4. page = "types" =>
        /\ Cardinality(Created) < clicks' /\ clicks' <= MaxClicks
  BY <1>0, <1>2, <1>3 DEF PageInv, Room, Sent
<1>5. ASSUME page = "admin" PROVE Cardinality(SentCategories') <= Cardinality(FreeCategories)
  <2>1. CASE job.kind # "createCategory"
    <3>1. SentCategories' = SentCategories
      BY <1>0, <2>1 DEF SentCategories, Sent
    <3> QED
      BY <1>5, <3>1 DEF PageInv, Room
  <2>2. CASE job.kind = "createCategory"
    <3>1. SentCategories' \subseteq SentCategories \cup {i}
      BY <1>0, <2>2 DEF SentCategories
    <3>2. PICK K : K = {j \in Slots : jobs[j].kind = "createCategory"}
      OBVIOUS
    <3>3. IsFiniteSet(K) /\ SentCategories \subseteq K
      BY <3>2, SlotsFinite, FS_Subset DEF SentCategories
    <3>4. Cardinality(SentCategories) <= Cardinality(K)
      BY <3>3, FS_Subset
    <3>5. Cardinality(K) < Cardinality(FreeCategories)
      BY <1>2, <2>2, <3>2, <3>3, FS_CardinalityType DEF ClickOf, RoomForCategory, FreeCategories
    <3>6. i \notin SentCategories
      BY DEF Sent, SentCategories
    <3>7. /\ IsFiniteSet(SentCategories \cup {i})
          /\ Cardinality(SentCategories \cup {i}) = Cardinality(SentCategories) + 1
      BY <1>2, <3>6, FS_AddElement
    <3>8. Cardinality(SentCategories') <= Cardinality(SentCategories) + 1
      BY <3>1, <3>7, FS_Subset
    <3>9. Cardinality(K) \in Nat /\ Cardinality(SentCategories') \in Nat
      BY <3>1, <3>3, <3>7, FS_Subset, FS_CardinalityType
    <3> QED
      BY <1>2, <3>4, <3>5, <3>8, <3>9
  <2> QED
    BY <2>1, <2>2
<1>6. page = "types" => Cardinality(Created) <= clicks'
  BY <1>0, <1>2, <1>4
<1> QED
  BY <1>0, <1>1, <1>4, <1>5, <1>6 DEF Room

LEMMA SentKeeps ==
  ASSUME page \in Pages, PageInv, NEW i, NEW job, ClickOf(job, ui'), Sent(i, job)
  PROVE  PageInv'
<1>0. /\ jobs'[i] = job /\ (\A j \in Slots \ {i} : jobs'[j] = jobs[j]) /\ i \in Slots
      /\ jobs[i].kind = "none"
      /\ page' = page /\ rows' = rows /\ token' = token /\ faults' = faults
      /\ ui'.copy = ui.copy /\ ui'.typed = ui.typed
      /\ job.kind \notin {"none", "load", "reload"} /\ job.res = "sent"
      /\ hist'.outrun = hist.outrun /\ hist'.edited = hist.edited
  <2>1. jobs'[i] = job /\ \A j \in Slots \ {i} : jobs'[j] = jobs[j]
    BY SentTyped
  <2>2. /\ i \in Slots /\ jobs[i].kind = "none"
        /\ page' = page /\ rows' = rows /\ token' = token /\ faults' = faults
        /\ hist'.outrun = hist.outrun /\ hist'.edited = hist.edited
    BY DEF Sent
  <2> QED
    BY <2>1, <2>2 DEF ClickOf
<1>1. Typed' /\ Shapes' /\ Room'
  BY SentTyped, SentRoom
<1>2. OneHeld'
  <2>1. hist'.released => page \in SharedBusy
    BY DEF PageInv, OneHeld, Sent, SharedBusy
  <2>2. ASSUME ~hist'.released, NEW j \in Slots, jobs'[j].kind \in HeldKinds
        PROVE  ui'.busy # 0 /\ \A k \in Slots : jobs'[k].kind \in HeldKinds => k = j
    <3>1. ~hist.released
      BY <2>2 DEF Sent
    <3>2. CASE job.kind \in HeldKinds
      <4>1. ui.busy = 0 /\ ui'.busy # 0
        BY <2>2, <3>2 DEF Sent, ClickOf
      <4>2. \A k \in Slots \ {i} : jobs'[k].kind \notin HeldKinds
        BY <1>0, <3>1, <4>1 DEF PageInv, OneHeld, Held
      <4> QED
        BY <2>2, <4>1, <4>2
    <3>3. CASE job.kind \notin HeldKinds
      <4>1. ui'.busy = ui.busy
        BY <3>3 DEF ClickOf
      <4> QED
        BY <1>0, <2>2, <3>1, <3>3, <4>1 DEF PageInv, OneHeld, Held
    <3> QED
      BY <3>2, <3>3
  <2> QED
    BY <1>0, <2>1, <2>2 DEF OneHeld, Held, SharedBusy
<1>3. NoticeIsForTheCode'
  BY <1>0 DEF PageInv, NoticeIsForTheCode, ClickOf
<1>4. CheckIsForTheCode'
  BY <1>0 DEF PageInv, CheckIsForTheCode, ClickOf
<1>5. Errors'
  <2>1. Explained => Explained'
    BY <1>0 DEF Explained, Sent
  <2>2. ui'.error => Explained'
    BY <2>1 DEF PageInv, Errors, ClickOf
  <2>3. \A j \in Slots : jobs'[j].res = "bad" => Explained'
    BY <1>0, <2>1 DEF PageInv, Errors
  <2>4. ASSUME ~Explained', NEW j \in Slots, jobs'[j].kind \in RowActs, jobs'[j].res = "sent"
        PROVE  rows[jobs'[j].row] \in Needs(jobs'[j].kind)
    <3>1. CASE j # i
      BY <1>0, <2>1, <2>4, <3>1 DEF PageInv, Errors
    <3>2. CASE j = i
      <4>1. page # "reviews" /\ ~hist'.stale
        BY <1>0, <2>4 DEF Explained
      <4>2. JobShape(page, job) /\ job.kind \in RowActs
        BY <1>0, <2>4, <3>2 DEF ClickOf
      <4>3. job.row # 0
        BY <4>2, RowNumbers DEF JobShape, ListCall, AdminCall, RowActs, Acts
      <4>4. ui.copy[job.row] = rows[job.row]
        BY <4>1, <4>3 DEF Sent
      <4> QED
        BY <1>0, <3>2, <4>1, <4>2, <4>4 DEF ClickOf
    <3> QED
      BY <3>1, <3>2
  <2> QED
    BY <1>0, <2>2, <2>3, <2>4 DEF Errors
<1>6. Tables'
  <2>0. Tables
    BY DEF PageInv
  <2>1. ASSUME page = "admin", NEW r \in RowsOf(page), NEW j \in Slots
        PROVE  /\ r \in DOMAIN jobs'[j].snap =>
                    /\ TableOf[r] \in Lasting /\ jobs'[j].snap[r] # "none" => rows[r] # "none"
                    /\ TableOf[r] # "categories" /\ jobs'[j].snap[r] = "none" => rows[r] = "none"
               /\ jobs'[j].kind \in AdminReplacing /\ jobs'[j].row = r =>
                    /\ TableOf[r] \in Lasting => rows[r] # "none"
                    /\ ui.copy[r] = "none" => rows[r] = "none"
    <3>1. CASE j # i
      BY <1>0, <2>0, <2>1, <3>1 DEF Tables
    <3>2. CASE j = i
      BY <1>0, <2>0, <2>1, <3>2 DEF Tables, ClickOf
    <3> QED
      BY <3>1, <3>2
  <2> QED
    BY <1>0, <2>0, <2>1 DEF Tables
<1>7. Shown'
  <2>1. Loads' = Loads
    BY <1>0 DEF Loads
  <2>2. InOrder' => InOrder
    BY <1>0 DEF InOrder, Sent
  <2>3. \A j \in Slots, r \in RowsOf(page) : Covers(j, r) => j # i /\ Covers(j, r)'
    <3> SUFFICES ASSUME NEW j \in Slots, NEW r \in RowsOf(page), Covers(j, r)
                 PROVE  j # i /\ Covers(j, r)'
      OBVIOUS
    <3>1. jobs[j].kind # "none"
      BY DEF Covers, Reloading, Replacing, AdminReplacing
    <3> QED
      BY <1>0, <3>1 DEF Covers
  <2>4. \A j \in Loads : j # i
    BY <1>0 DEF Loads
  <2>5. \A j \in Slots : jobs'[j].res = "ok" => j # i
    BY <1>0
  <2> SUFFICES ASSUME InOrder
               PROVE  /\ \A j \in Loads : jobs'[j].res # "bad"
                      /\ \A j \in Slots : jobs'[j].kind \in Replacing /\ jobs'[j].res = "ok" =>
                            \/ rows[jobs'[j].row] = jobs'[j].val
                            \/ jobs'[j].kind = "setEventFeatured" /\ rows[jobs'[j].row] = "none"
                      /\ (token # 0 \/ page \in {"reviews", "discount"}) /\ ~hist.outrun
                            /\ Loads = {}
                         => \A r \in RowsOf(page) :
                               ui.copy[r] = rows[r] \/ \E j \in Slots : Covers(j, r)'
    BY <1>0, <2>1, <2>2 DEF Shown
  <2>6. \A j \in Loads : jobs'[j].res # "bad"
    BY <1>0, <2>4 DEF PageInv, Shown, Loads
  <2>7. \A j \in Slots : jobs'[j].kind \in Replacing /\ jobs'[j].res = "ok" =>
            \/ rows[jobs'[j].row] = jobs'[j].val
            \/ jobs'[j].kind = "setEventFeatured" /\ rows[jobs'[j].row] = "none"
    BY <1>0, <2>5 DEF PageInv, Shown
  <2> QED
    BY <2>3, <2>6, <2>7 DEF PageInv, Shown
<1> QED
  BY <1>1, <1>2, <1>3, <1>4, <1>5, <1>6, <1>7 DEF PageInv

-----------------------------------------------------------------------------
(* The clicks of the pages, one by one *)

LEMMA PageClick ==
  ASSUME page \in Pages, PageInv, NEW job, ClickOf(job, ui'), Click(job, ui')
  PROVE  PageInv'
<1>1. PICK i \in Slots : Sent(i, job)
  BY ClickSends DEF PageInv
<1> QED
  BY <1>1, SentKeeps

LEMMA PublishClick ==
  ASSUME page \in Pages, PageInv, NEW id \in RowsOf(page), HandlePublish(id)
  PROVE  PageInv'
<1>1. PICK job : job = Job("publish", id, "published")
  OBVIOUS
<1>2. /\ Click(job, ui') /\ ui' = [ui EXCEPT !.busy = id, !.error = FALSE]
  BY <1>1 DEF HandlePublish, Click
<1>3. /\ page = "mine" /\ ui.copy[id] = "draft" /\ ui.busy = 0
      /\ id \in Nat /\ id # 0
  BY RowNumbers DEF HandlePublish, PublishShown
<1>4. /\ job \in Jobs /\ job.kind = "publish" /\ job.row = id /\ job.val = "published"
      /\ job.res = "sent" /\ DOMAIN job.snap = {}
  <2>1. "publish" \in Kinds /\ "published" \in Values
    BY <1>3 DEF Kinds, Acts, Values
  <2>2. id \in Nat
    BY <1>3
  <2> QED
    BY <1>1, <2>1, <2>2, JobFields
<1>5. JobShape(page, job)
  BY <1>3, <1>4 DEF JobShape, ListCall, AdminCall
<1>6. /\ ui' \in Uis(page) /\ ui'.copy = ui.copy /\ ui'.typed = ui.typed
      /\ (ui'.error => ui.error) /\ ui'.shown \in {"none", ui.shown}
      /\ ui'.busy = id
  BY <1>2, <1>3 DEF PageInv, Typed, Uis
<1>7. ui.copy[id] = rows[id] => rows[id] \in Needs("publish")
  BY <1>3 DEF Needs
<1>8. ClickOf(job, ui')
  BY <1>3, <1>4, <1>5, <1>6, <1>7
  DEF ClickOf, HeldKinds, RowActs, Acts, AdminReplacing, SharedBusy
<1> QED
  BY <1>2, <1>8, PageClick

LEMMA RemoveClick ==
  ASSUME page \in Pages, PageInv, NEW id \in RowsOf(page), HandleRemove(id)
  PROVE  PageInv'
<1>1. PICK job : job = Job("remove", id, "cancelled")
  OBVIOUS
<1>2. /\ Click(job, ui') /\ ui' = [ui EXCEPT !.busy = id]
  BY <1>1 DEF HandleRemove, Click
<1>3. /\ page = "attendees" /\ ui.copy[id] = "confirmed" /\ ui.busy # id
      /\ id \in Nat /\ id # 0
  BY RowNumbers DEF HandleRemove, RemoveShown
<1>4. /\ job \in Jobs /\ job.kind = "remove" /\ job.row = id /\ job.val = "cancelled"
      /\ job.res = "sent" /\ DOMAIN job.snap = {}
  <2>1. "remove" \in Kinds /\ "cancelled" \in Values
    BY <1>3 DEF Kinds, Acts, Values
  <2>2. id \in Nat
    BY <1>3
  <2> QED
    BY <1>1, <2>1, <2>2, JobFields
<1>5. JobShape(page, job)
  BY <1>3, <1>4 DEF JobShape, ListCall, AdminCall
<1>6. /\ ui' \in Uis(page) /\ ui'.copy = ui.copy /\ ui'.typed = ui.typed
      /\ (ui'.error => ui.error) /\ ui'.shown \in {"none", ui.shown}
      /\ ui'.busy = id
  BY <1>2, <1>3 DEF PageInv, Typed, Uis
<1>7. ui.copy[id] = rows[id] => rows[id] \in Needs("remove")
  BY <1>3 DEF Needs
<1>8. ClickOf(job, ui')
  BY <1>3, <1>4, <1>5, <1>6, <1>7
  DEF ClickOf, HeldKinds, RowActs, Acts, AdminReplacing, SharedBusy
<1> QED
  BY <1>2, <1>8, PageClick

LEMMA CancelClick ==
  ASSUME page \in Pages, PageInv, NEW id \in RowsOf(page), HandleCancel(id)
  PROVE  PageInv'
<1>1. PICK job : job = Job("cancel", id, "cancelled")
  OBVIOUS
<1>2. /\ Click(job, ui') /\ ui' = [ui EXCEPT !.busy = id]
  BY <1>1 DEF HandleCancel, Click
<1>3. /\ page = "tickets" /\ ui.copy[id] = "confirmed" /\ ui.busy # id
      /\ id \in Nat /\ id # 0
  BY RowNumbers DEF HandleCancel, CancelShown
<1>4. /\ job \in Jobs /\ job.kind = "cancel" /\ job.row = id /\ job.val = "cancelled"
      /\ job.res = "sent" /\ DOMAIN job.snap = {}
  <2>1. "cancel" \in Kinds /\ "cancelled" \in Values
    BY <1>3 DEF Kinds, Acts, Values
  <2>2. id \in Nat
    BY <1>3
  <2> QED
    BY <1>1, <2>1, <2>2, JobFields
<1>5. JobShape(page, job)
  BY <1>3, <1>4 DEF JobShape, ListCall, AdminCall
<1>6. /\ ui' \in Uis(page) /\ ui'.copy = ui.copy /\ ui'.typed = ui.typed
      /\ (ui'.error => ui.error) /\ ui'.shown \in {"none", ui.shown}
      /\ ui'.busy = id
  BY <1>2, <1>3 DEF PageInv, Typed, Uis
<1>7. ui.copy[id] = rows[id] => rows[id] \in Needs("cancel")
  BY <1>3 DEF Needs
<1>8. ClickOf(job, ui')
  BY <1>3, <1>4, <1>5, <1>6, <1>7
  DEF ClickOf, HeldKinds, RowActs, Acts, AdminReplacing, SharedBusy
<1> QED
  BY <1>2, <1>8, PageClick

LEMMA ExportClick ==
  ASSUME page \in Pages, PageInv, HandleExport
  PROVE  PageInv'
<1>1. PICK job : job = Job("export", 0, "none")
  OBVIOUS
<1>2. /\ Click(job, ui') /\ ui' = [ui EXCEPT !.exporting = TRUE]
  BY <1>1 DEF HandleExport, Click
<1>3. page = "attendees"
  BY DEF HandleExport
<1>4. /\ job \in Jobs /\ job.kind = "export" /\ job.row = 0 /\ job.val = "none"
      /\ job.res = "sent" /\ DOMAIN job.snap = {}
  <2>1. "export" \in Kinds /\ "none" \in Values
    BY <1>3 DEF Kinds, Acts, Values
  <2>2. 0 \in Nat
    BY <1>3
  <2> QED
    BY <1>1, <2>1, <2>2, JobFields
<1>5. JobShape(page, job)
  BY <1>3, <1>4 DEF JobShape, ListCall, AdminCall
<1>6. /\ ui' \in Uis(page) /\ ui'.copy = ui.copy /\ ui'.typed = ui.typed
      /\ (ui'.error => ui.error) /\ ui'.shown \in {"none", ui.shown}
      /\ ui'.busy = ui.busy
  BY <1>2, <1>3 DEF PageInv, Typed, Uis
<1>7. TRUE
  OBVIOUS
<1>8. ClickOf(job, ui')
  BY <1>3, <1>4, <1>5, <1>6, <1>7
  DEF ClickOf, HeldKinds, RowActs, Acts, AdminReplacing, SharedBusy
<1> QED
  BY <1>2, <1>8, PageClick

LEMMA CalendarClick ==
  ASSUME page \in Pages, PageInv, NEW id \in RowsOf(page), HandleCalendar(id)
  PROVE  PageInv'
<1>1. PICK job : job = Job("calendar", 0, "none")
  OBVIOUS
<1>2. /\ Click(job, ui') /\ ui' = ui
  BY <1>1 DEF HandleCalendar, Click
<1>3. page = "tickets"
  BY DEF HandleCalendar
<1>4. /\ job \in Jobs /\ job.kind = "calendar" /\ job.row = 0 /\ job.val = "none"
      /\ job.res = "sent" /\ DOMAIN job.snap = {}
  <2>1. "calendar" \in Kinds /\ "none" \in Values
    BY <1>3 DEF Kinds, Acts, Values
  <2>2. 0 \in Nat
    BY <1>3
  <2> QED
    BY <1>1, <2>1, <2>2, JobFields
<1>5. JobShape(page, job)
  BY <1>3, <1>4 DEF JobShape, ListCall, AdminCall
<1>6. /\ ui' \in Uis(page) /\ ui'.copy = ui.copy /\ ui'.typed = ui.typed
      /\ (ui'.error => ui.error) /\ ui'.shown \in {"none", ui.shown}
      /\ ui'.busy = ui.busy
  BY <1>2, <1>3 DEF PageInv, Typed, Uis
<1>7. TRUE
  OBVIOUS
<1>8. ClickOf(job, ui')
  BY <1>3, <1>4, <1>5, <1>6, <1>7
  DEF ClickOf, HeldKinds, RowActs, Acts, AdminReplacing, SharedBusy
<1> QED
  BY <1>2, <1>8, PageClick

LEMMA TypeClick ==
  ASSUME page \in Pages, PageInv, SubmitType
  PROVE  PageInv'
<1>1. PICK job : job = Job("create", 0, "there")
  OBVIOUS
<1>2. /\ Click(job, ui') /\ ui' = [ui EXCEPT !.busy = 1, !.error = FALSE]
  BY <1>1 DEF SubmitType, Click
<1>3. page = "types" /\ ui.busy = 0
  BY DEF SubmitType
<1>4. /\ job \in Jobs /\ job.kind = "create" /\ job.row = 0 /\ job.val = "there"
      /\ job.res = "sent" /\ DOMAIN job.snap = {}
  <2>1. "create" \in Kinds /\ "there" \in Values
    BY <1>3 DEF Kinds, Acts, Values
  <2>2. 0 \in Nat
    BY <1>3
  <2> QED
    BY <1>1, <2>1, <2>2, JobFields
<1>5. JobShape(page, job)
  BY <1>3, <1>4 DEF JobShape, ListCall, AdminCall
<1>6. /\ ui' \in Uis(page) /\ ui'.copy = ui.copy /\ ui'.typed = ui.typed
      /\ (ui'.error => ui.error) /\ ui'.shown \in {"none", ui.shown}
      /\ ui'.busy = 1
  BY <1>2, <1>3 DEF PageInv, Typed, Uis
<1>7. TRUE
  OBVIOUS
<1>8. ClickOf(job, ui')
  BY <1>3, <1>4, <1>5, <1>6, <1>7
  DEF ClickOf, HeldKinds, RowActs, Acts, AdminReplacing, SharedBusy
<1> QED
  BY <1>2, <1>8, PageClick

LEMMA ToggleClick ==
  ASSUME page \in Pages, PageInv, Toggle
  PROVE  PageInv'
<1>0. PICK val \in {"off", "on"} :
        val = (IF ui.copy[1] = "on" THEN "off" ELSE "on")
  OBVIOUS
<1>1. PICK job : job = Job("toggle", 1, val)
  OBVIOUS
<1>2. /\ Click(job, ui') /\ ui' = [ui EXCEPT !.busy = 1]
  BY <1>1, <1>0 DEF Toggle, Click
<1>3. page = "toggle" /\ ui.busy = 0
  BY DEF Toggle, ToggleEnabled
<1>4. /\ job \in Jobs /\ job.kind = "toggle" /\ job.row = 1 /\ job.val = val
      /\ job.res = "sent" /\ DOMAIN job.snap = {}
  <2>1. "toggle" \in Kinds /\ val \in Values
    BY <1>3 DEF Kinds, Acts, Values
  <2>2. 1 \in Nat
    BY <1>3
  <2> QED
    BY <1>1, <2>1, <2>2, JobFields
<1>5. JobShape(page, job)
  BY <1>3, <1>4 DEF JobShape, ListCall, AdminCall
<1>6. /\ ui' \in Uis(page) /\ ui'.copy = ui.copy /\ ui'.typed = ui.typed
      /\ (ui'.error => ui.error) /\ ui'.shown \in {"none", ui.shown}
      /\ ui'.busy = 1
  BY <1>2, <1>3 DEF PageInv, Typed, Uis
<1>7. rows[1] \in Needs("toggle")
  <2>1. rows[1] \in {"off", "on"}
    BY <1>3, PageRows DEF PageInv, Typed, RowsTyped
  <2> QED
    BY <2>1 DEF Needs
<1>8. ClickOf(job, ui')
  BY <1>3, <1>4, <1>5, <1>6, <1>7
  DEF ClickOf, HeldKinds, RowActs, Acts, AdminReplacing, SharedBusy
<1> QED
  BY <1>2, <1>8, PageClick

LEMMA RateClick ==
  ASSUME page \in Pages, PageInv, NEW val \in {"first", "second"}, HandleRate(val)
  PROVE  PageInv'
<1>1. PICK job : job = Job("rate", 1, val)
  OBVIOUS
<1>2. /\ Click(job, ui') /\ ui' = [ui EXCEPT !.busy = 1]
  BY <1>1 DEF HandleRate, Click
<1>3. page = "rate" /\ ui.busy = 0
  BY DEF HandleRate
<1>4. /\ job \in Jobs /\ job.kind = "rate" /\ job.row = 1 /\ job.val = val
      /\ job.res = "sent" /\ DOMAIN job.snap = {}
  <2>1. "rate" \in Kinds /\ val \in Values
    BY <1>3 DEF Kinds, Acts, Values
  <2>2. 1 \in Nat
    BY <1>3
  <2> QED
    BY <1>1, <2>1, <2>2, JobFields
<1>5. JobShape(page, job)
  BY <1>3, <1>4 DEF JobShape, ListCall, AdminCall
<1>6. /\ ui' \in Uis(page) /\ ui'.copy = ui.copy /\ ui'.typed = ui.typed
      /\ (ui'.error => ui.error) /\ ui'.shown \in {"none", ui.shown}
      /\ ui'.busy = 1
  BY <1>2, <1>3 DEF PageInv, Typed, Uis
<1>7. rows[1] \in Needs("rate")
  <2>1. rows[1] \in {"none", "first", "second"}
    BY <1>3, PageRows DEF PageInv, Typed, RowsTyped
  <2> QED
    BY <2>1 DEF Needs
<1>8. ClickOf(job, ui')
  BY <1>3, <1>4, <1>5, <1>6, <1>7
  DEF ClickOf, HeldKinds, RowActs, Acts, AdminReplacing, SharedBusy
<1> QED
  BY <1>2, <1>8, PageClick

LEMMA ClaimClick ==
  ASSUME page \in Pages, PageInv, HandleClaim
  PROVE  PageInv'
<1>1. PICK job : job = Job("claim", 1, "mine")
  OBVIOUS
<1>2. /\ Click(job, ui') /\ ui' = [ui EXCEPT !.busy = 1, !.error = FALSE]
  BY <1>1 DEF HandleClaim, Click
<1>3. page = "claim" /\ ui.busy = 0 /\ ui.copy[1] = "free"
  BY DEF HandleClaim, ClaimShown
<1>4. /\ job \in Jobs /\ job.kind = "claim" /\ job.row = 1 /\ job.val = "mine"
      /\ job.res = "sent" /\ DOMAIN job.snap = {}
  <2>1. "claim" \in Kinds /\ "mine" \in Values
    BY <1>3 DEF Kinds, Acts, Values
  <2>2. 1 \in Nat
    BY <1>3
  <2> QED
    BY <1>1, <2>1, <2>2, JobFields
<1>5. JobShape(page, job)
  BY <1>3, <1>4 DEF JobShape, ListCall, AdminCall
<1>6. /\ ui' \in Uis(page) /\ ui'.copy = ui.copy /\ ui'.typed = ui.typed
      /\ (ui'.error => ui.error) /\ ui'.shown \in {"none", ui.shown}
      /\ ui'.busy = 1
  BY <1>2, <1>3 DEF PageInv, Typed, Uis
<1>7. ui.copy[1] = rows[1] => rows[1] \in Needs("claim")
  BY <1>3 DEF Needs
<1>8. ClickOf(job, ui')
  BY <1>3, <1>4, <1>5, <1>6, <1>7
  DEF ClickOf, HeldKinds, RowActs, Acts, AdminReplacing, SharedBusy
<1> QED
  BY <1>2, <1>8, PageClick

LEMMA DeleteEventClick ==
  ASSUME page \in Pages, PageInv, NEW cell \in DOMAIN TableOf, HandleDeleteEvent(cell)
  PROVE  PageInv'
<1>1. PICK job : job = Job("deleteEvent", cell, "none")
  OBVIOUS
<1>2. /\ Click(job, ui') /\ ui' = [ui EXCEPT !.busy = IdOf[cell]]
  BY <1>1 DEF HandleDeleteEvent, Click, Act
<1>3. /\ page = "admin" /\ cell \in RowsOf(page) /\ TableOf[cell] = "events"
      /\ ui.copy[cell] # "none" /\ ui.busy # IdOf[cell]
      /\ cell \in Nat /\ IdOf[cell] \in Nat /\ IdOf[cell] # 0
  BY PageRows, TableRows DEF HandleDeleteEvent, EventEnabled, RowEnabled
<1>4. /\ job \in Jobs /\ job.kind = "deleteEvent" /\ job.row = cell /\ job.val = "none"
      /\ job.res = "sent" /\ DOMAIN job.snap = {}
  <2>1. "deleteEvent" \in Kinds /\ "none" \in Values
    BY <1>3 DEF Kinds, Acts, Values
  <2>2. cell \in Nat
    BY <1>3
  <2> QED
    BY <1>1, <2>1, <2>2, JobFields
<1>5. JobShape(page, job)
  BY <1>3, <1>4 DEF JobShape, ListCall, AdminCall
<1>6. /\ ui' \in Uis(page) /\ ui'.copy = ui.copy /\ ui'.typed = ui.typed
      /\ (ui'.error => ui.error) /\ ui'.shown \in {"none", ui.shown}
      /\ ui'.busy = IdOf[cell]
  BY <1>2, <1>3 DEF PageInv, Typed, Uis
<1>7. ui.copy[cell] = rows[cell] => rows[cell] \in Needs("deleteEvent")
  <2>1. rows[cell] \in {"none", "plain", "featured"}
    BY <1>3, PageRows DEF PageInv, Typed, RowsTyped
  <2> QED
    BY <1>3, <2>1 DEF Needs
<1>8. ClickOf(job, ui')
  BY <1>3, <1>4, <1>5, <1>6, <1>7
  DEF ClickOf, HeldKinds, RowActs, Acts, AdminReplacing, SharedBusy
<1> QED
  BY <1>2, <1>8, PageClick

LEMMA FeaturedClick ==
  ASSUME page \in Pages, PageInv, NEW cell \in DOMAIN TableOf, HandleToggleFeatured(cell)
  PROVE  PageInv'
<1>0. PICK val \in {"featured", "plain"} :
        val = (IF ui.copy[cell] = "featured" THEN "plain" ELSE "featured")
  OBVIOUS
<1>1. PICK job : job = Job("setEventFeatured", cell, val)
  OBVIOUS
<1>2. /\ Click(job, ui') /\ ui' = [ui EXCEPT !.busy = IdOf[cell]]
  BY <1>1, <1>0 DEF HandleToggleFeatured, Click, Act
<1>3. /\ page = "admin" /\ cell \in RowsOf(page) /\ TableOf[cell] = "events"
      /\ ui.copy[cell] # "none" /\ ui.busy # IdOf[cell]
      /\ cell \in Nat /\ IdOf[cell] \in Nat /\ IdOf[cell] # 0
  BY PageRows, TableRows DEF HandleToggleFeatured, EventEnabled, RowEnabled
<1>4. /\ job \in Jobs /\ job.kind = "setEventFeatured" /\ job.row = cell /\ job.val = val
      /\ job.res = "sent" /\ DOMAIN job.snap = {}
  <2>1. "setEventFeatured" \in Kinds /\ val \in Values
    BY <1>3 DEF Kinds, Acts, Values
  <2>2. cell \in Nat
    BY <1>3
  <2> QED
    BY <1>1, <2>1, <2>2, JobFields
<1>5. JobShape(page, job)
  BY <1>3, <1>4 DEF JobShape, ListCall, AdminCall
<1>6. /\ ui' \in Uis(page) /\ ui'.copy = ui.copy /\ ui'.typed = ui.typed
      /\ (ui'.error => ui.error) /\ ui'.shown \in {"none", ui.shown}
      /\ ui'.busy = IdOf[cell]
  BY <1>2, <1>3 DEF PageInv, Typed, Uis
<1>7. ui.copy[cell] = rows[cell] => rows[cell] \in Needs("setEventFeatured")
  <2>1. rows[cell] \in {"none", "plain", "featured"}
    BY <1>3, PageRows DEF PageInv, Typed, RowsTyped
  <2> QED
    BY <1>3, <2>1 DEF Needs
<1>8. ClickOf(job, ui')
  BY <1>3, <1>4, <1>5, <1>6, <1>7
  DEF ClickOf, HeldKinds, RowActs, Acts, AdminReplacing, SharedBusy
<1> QED
  BY <1>2, <1>8, PageClick

LEMMA SuspendClick ==
  ASSUME page \in Pages, PageInv, NEW cell \in DOMAIN TableOf, HandleToggleSuspend(cell)
  PROVE  PageInv'
<1>0. PICK val \in {"suspended", "active"} :
        val = (IF ui.copy[cell] = "suspended" THEN "active" ELSE "suspended")
  OBVIOUS
<1>1. PICK job : job = Job("setUserSuspended", cell, val)
  OBVIOUS
<1>2. /\ Click(job, ui') /\ ui' = [ui EXCEPT !.busy = IdOf[cell]]
  BY <1>1, <1>0 DEF HandleToggleSuspend, Click, Act
<1>3. /\ page = "admin" /\ cell \in RowsOf(page) /\ TableOf[cell] = "users"
      /\ ui.copy[cell] # "none" /\ ui.busy # IdOf[cell] /\ ui.copy[cell] # "admin"
      /\ cell \in Nat /\ IdOf[cell] \in Nat /\ IdOf[cell] # 0
  BY PageRows, TableRows DEF HandleToggleSuspend, SuspendEnabled, RowEnabled
<1>4. /\ job \in Jobs /\ job.kind = "setUserSuspended" /\ job.row = cell /\ job.val = val
      /\ job.res = "sent" /\ DOMAIN job.snap = {}
  <2>1. "setUserSuspended" \in Kinds /\ val \in Values
    BY <1>3 DEF Kinds, Acts, Values
  <2>2. cell \in Nat
    BY <1>3
  <2> QED
    BY <1>1, <2>1, <2>2, JobFields
<1>5. JobShape(page, job)
  BY <1>3, <1>4 DEF JobShape, ListCall, AdminCall
<1>6. /\ ui' \in Uis(page) /\ ui'.copy = ui.copy /\ ui'.typed = ui.typed
      /\ (ui'.error => ui.error) /\ ui'.shown \in {"none", ui.shown}
      /\ ui'.busy = IdOf[cell]
  BY <1>2, <1>3 DEF PageInv, Typed, Uis
<1>7. ui.copy[cell] = rows[cell] => rows[cell] \in Needs("setUserSuspended")
  <2>1. rows[cell] \in {"none", "active", "admin", "suspended"}
    BY <1>3, PageRows DEF PageInv, Typed, RowsTyped
  <2> QED
    BY <1>3, <2>1 DEF Needs
<1>8. ClickOf(job, ui')
  BY <1>3, <1>4, <1>5, <1>6, <1>7
  DEF ClickOf, HeldKinds, RowActs, Acts, AdminReplacing, SharedBusy
<1> QED
  BY <1>2, <1>8, PageClick

LEMMA DeleteCategoryClick ==
  ASSUME page \in Pages, PageInv, NEW cell \in DOMAIN TableOf, HandleDeleteCategory(cell)
  PROVE  PageInv'
<1>1. PICK job : job = Job("deleteCategory", cell, "none")
  OBVIOUS
<1>2. /\ Click(job, ui') /\ ui' = [ui EXCEPT !.busy = IdOf[cell]]
  BY <1>1 DEF HandleDeleteCategory, Click, Act
<1>3. /\ page = "admin" /\ cell \in RowsOf(page) /\ TableOf[cell] = "categories"
      /\ ui.copy[cell] # "none" /\ ui.busy # IdOf[cell]
      /\ cell \in Nat /\ IdOf[cell] \in Nat /\ IdOf[cell] # 0
  BY PageRows, TableRows DEF HandleDeleteCategory, CategoryEnabled, RowEnabled
<1>4. /\ job \in Jobs /\ job.kind = "deleteCategory" /\ job.row = cell /\ job.val = "none"
      /\ job.res = "sent" /\ DOMAIN job.snap = {}
  <2>1. "deleteCategory" \in Kinds /\ "none" \in Values
    BY <1>3 DEF Kinds, Acts, Values
  <2>2. cell \in Nat
    BY <1>3
  <2> QED
    BY <1>1, <2>1, <2>2, JobFields
<1>5. JobShape(page, job)
  BY <1>3, <1>4 DEF JobShape, ListCall, AdminCall
<1>6. /\ ui' \in Uis(page) /\ ui'.copy = ui.copy /\ ui'.typed = ui.typed
      /\ (ui'.error => ui.error) /\ ui'.shown \in {"none", ui.shown}
      /\ ui'.busy = IdOf[cell]
  BY <1>2, <1>3 DEF PageInv, Typed, Uis
<1>7. ui.copy[cell] = rows[cell] => rows[cell] \in Needs("deleteCategory")
  <2>1. rows[cell] \in {"none", "there"}
    BY <1>3, PageRows DEF PageInv, Typed, RowsTyped
  <2> QED
    BY <1>3, <2>1 DEF Needs
<1>8. ClickOf(job, ui')
  BY <1>3, <1>4, <1>5, <1>6, <1>7
  DEF ClickOf, HeldKinds, RowActs, Acts, AdminReplacing, SharedBusy
<1> QED
  BY <1>2, <1>8, PageClick

LEMMA HiddenClick ==
  ASSUME page \in Pages, PageInv, NEW cell \in DOMAIN TableOf, HandleToggleReviewHidden(cell)
  PROVE  PageInv'
<1>0. PICK val \in {"hidden", "published"} :
        val = (IF ui.copy[cell] = "hidden" THEN "published" ELSE "hidden")
  OBVIOUS
<1>1. PICK job : job = Job("setReviewHidden", cell, val)
  OBVIOUS
<1>2. /\ Click(job, ui') /\ ui' = [ui EXCEPT !.busy = IdOf[cell]]
  BY <1>1, <1>0 DEF HandleToggleReviewHidden, Click, Act
<1>3. /\ page = "admin" /\ cell \in RowsOf(page) /\ TableOf[cell] = "reviews"
      /\ ui.copy[cell] # "none" /\ ui.busy # IdOf[cell]
      /\ cell \in Nat /\ IdOf[cell] \in Nat /\ IdOf[cell] # 0
  BY PageRows, TableRows DEF HandleToggleReviewHidden, ReviewEnabled, RowEnabled
<1>4. /\ job \in Jobs /\ job.kind = "setReviewHidden" /\ job.row = cell /\ job.val = val
      /\ job.res = "sent" /\ DOMAIN job.snap = {}
  <2>1. "setReviewHidden" \in Kinds /\ val \in Values
    BY <1>3 DEF Kinds, Acts, Values
  <2>2. cell \in Nat
    BY <1>3
  <2> QED
    BY <1>1, <2>1, <2>2, JobFields
<1>5. JobShape(page, job)
  BY <1>3, <1>4 DEF JobShape, ListCall, AdminCall
<1>6. /\ ui' \in Uis(page) /\ ui'.copy = ui.copy /\ ui'.typed = ui.typed
      /\ (ui'.error => ui.error) /\ ui'.shown \in {"none", ui.shown}
      /\ ui'.busy = IdOf[cell]
  BY <1>2, <1>3 DEF PageInv, Typed, Uis
<1>7. ui.copy[cell] = rows[cell] => rows[cell] \in Needs("setReviewHidden")
  <2>1. rows[cell] \in {"none", "published", "hidden"}
    BY <1>3, PageRows DEF PageInv, Typed, RowsTyped
  <2> QED
    BY <1>3, <2>1 DEF Needs
<1>8. ClickOf(job, ui')
  BY <1>3, <1>4, <1>5, <1>6, <1>7
  DEF ClickOf, HeldKinds, RowActs, Acts, AdminReplacing, SharedBusy
<1> QED
  BY <1>2, <1>8, PageClick

LEMMA CreateCategoryClick ==
  ASSUME page \in Pages, PageInv, HandleCreateCategory
  PROVE  PageInv'
<1>1. PICK job : job = Job("createCategory", 0, "there")
  OBVIOUS
<1>2. /\ Click(job, ui') /\ ui' = ui
  BY <1>1 DEF HandleCreateCategory, Click
<1>3. page = "admin"
  BY DEF HandleCreateCategory
<1>4. /\ job \in Jobs /\ job.kind = "createCategory" /\ job.row = 0 /\ job.val = "there"
      /\ job.res = "sent" /\ DOMAIN job.snap = {}
  <2>1. "createCategory" \in Kinds /\ "there" \in Values
    BY <1>3 DEF Kinds, Acts, Values
  <2>2. 0 \in Nat
    BY <1>3
  <2> QED
    BY <1>1, <2>1, <2>2, JobFields
<1>5. JobShape(page, job)
  BY <1>3, <1>4 DEF JobShape, ListCall, AdminCall
<1>6. /\ ui' \in Uis(page) /\ ui'.copy = ui.copy /\ ui'.typed = ui.typed
      /\ (ui'.error => ui.error) /\ ui'.shown \in {"none", ui.shown}
      /\ ui'.busy = ui.busy
  BY <1>2, <1>3 DEF PageInv, Typed, Uis
<1>7. RoomForCategory
  BY DEF HandleCreateCategory
<1>8. ClickOf(job, ui')
  BY <1>3, <1>4, <1>5, <1>6, <1>7
  DEF ClickOf, HeldKinds, RowActs, Acts, AdminReplacing, SharedBusy
<1> QED
  BY <1>2, <1>8, PageClick

LEMMA RollupClick ==
  ASSUME page \in Pages, PageInv, HandleRollupYesterday
  PROVE  PageInv'
<1>1. PICK job : job = Job("rollup", 0, "none")
  OBVIOUS
<1>2. /\ Click(job, ui') /\ ui' = [ui EXCEPT !.exporting = TRUE, !.error = FALSE]
  BY <1>1 DEF HandleRollupYesterday, Click
<1>3. page = "admin"
  BY DEF HandleRollupYesterday, RollupEnabled
<1>4. /\ job \in Jobs /\ job.kind = "rollup" /\ job.row = 0 /\ job.val = "none"
      /\ job.res = "sent" /\ DOMAIN job.snap = {}
  <2>1. "rollup" \in Kinds /\ "none" \in Values
    BY <1>3 DEF Kinds, Acts, Values
  <2>2. 0 \in Nat
    BY <1>3
  <2> QED
    BY <1>1, <2>1, <2>2, JobFields
<1>5. JobShape(page, job)
  BY <1>3, <1>4 DEF JobShape, ListCall, AdminCall
<1>6. /\ ui' \in Uis(page) /\ ui'.copy = ui.copy /\ ui'.typed = ui.typed
      /\ (ui'.error => ui.error) /\ ui'.shown \in {"none", ui.shown}
      /\ ui'.busy = ui.busy
  BY <1>2, <1>3 DEF PageInv, Typed, Uis
<1>7. TRUE
  OBVIOUS
<1>8. ClickOf(job, ui')
  BY <1>3, <1>4, <1>5, <1>6, <1>7
  DEF ClickOf, HeldKinds, RowActs, Acts, AdminReplacing, SharedBusy
<1> QED
  BY <1>2, <1>8, PageClick

LEMMA ReviewClick ==
  ASSUME page \in Pages, PageInv, page = "reviews", ui.busy = 0,
         Click(Job("review", 1, IF clicks = 0 THEN "first" ELSE "second"), ui'),
         ui' = [ui EXCEPT !.busy = 1, !.error = FALSE, !.done = FALSE]
  PROVE  PageInv'
<1>0. PICK val \in {"first", "second"} :
        val = (IF clicks = 0 THEN "first" ELSE "second")
  OBVIOUS
<1>1. PICK job : job = Job("review", 1, val)
  OBVIOUS
<1>2. Click(job, ui')
  BY <1>0, <1>1
<1>4. /\ job \in Jobs /\ job.kind = "review" /\ job.row = 1 /\ job.val = val
      /\ job.res = "sent" /\ DOMAIN job.snap = {}
  <2>1. "review" \in Kinds /\ val \in Values
    BY DEF Kinds, Acts, Values
  <2> QED
    BY <1>1, <2>1, JobFields
<1>5. JobShape(page, job)
  BY <1>4 DEF JobShape, ListCall, AdminCall
<1>6. /\ ui' \in Uis(page) /\ ui'.copy = ui.copy /\ ui'.typed = ui.typed
      /\ (ui'.error => ui.error) /\ ui'.shown \in {"none", ui.shown}
      /\ ui'.busy = 1
  BY DEF PageInv, Typed, Uis
<1>7. ClickOf(job, ui')
  BY <1>4, <1>5, <1>6 DEF ClickOf, HeldKinds, RowActs, Acts, AdminReplacing, SharedBusy
<1> QED
  BY <1>2, <1>7, PageClick

LEMMA CheckClick ==
  ASSUME page \in Pages, PageInv, page = "discount", ui.busy = 0,
         Click(Job("check", 0, ui.typed), ui'),
         ui' = [ui EXCEPT !.shown = "none", !.error = FALSE, !.busy = 1]
  PROVE  PageInv'
<1>1. PICK job : job = Job("check", 0, ui.typed)
  OBVIOUS
<1>2. Click(job, ui')
  BY <1>1
<1>4. /\ job \in Jobs /\ job.kind = "check" /\ job.row = 0 /\ job.val = ui.typed
      /\ job.res = "sent" /\ DOMAIN job.snap = {}
  <2>1. ui.typed \in Values
    BY DEF PageInv, Typed, Uis
  <2>2. "check" \in Kinds
    BY DEF Kinds
  <2> QED
    BY <1>1, <2>1, <2>2, JobFields
<1>5. JobShape(page, job)
  BY <1>4 DEF JobShape, ListCall, AdminCall
<1>6. /\ ui' \in Uis(page) /\ ui'.copy = ui.copy /\ ui'.typed = ui.typed
      /\ (ui'.error => ui.error) /\ ui'.shown \in {"none", ui.shown}
      /\ ui'.busy = 1
  <2>1. "none" \in Values
    BY DEF Values
  <2> QED
    BY <2>1 DEF PageInv, Typed, Uis
<1>7. ClickOf(job, ui')
  BY <1>4, <1>5, <1>6 DEF ClickOf, HeldKinds, RowActs, Acts, AdminReplacing, SharedBusy
<1> QED
  BY <1>2, <1>7, PageClick

-----------------------------------------------------------------------------
(* Steps of the user that send nothing, and the access token *)

LEMMA PartsUnchanged ==
  ASSUME UNCHANGED <<page, rows, jobs, clicks>>
  PROVE  /\ Shapes' = Shapes /\ Room' = Room
<1>1. /\ Created' = Created /\ FreeCategories' = FreeCategories
      /\ SentCategories' = SentCategories
  BY DEF Created, FreeCategories, SentCategories
<1> QED
  BY <1>1 DEF Shapes, Room

LEMMA EditKeeps ==
  ASSUME page \in Pages, PageInv,
         UNCHANGED <<page, token, gen, rows, jobs, clicks, faults>>,
         ui' \in Uis(page), ui'.copy = ui.copy, ui'.busy = ui.busy,
         ui'.error => ui.error \/ page \in {"reviews", "discount"},
         ui'.shown \in {"none", ui.shown},
         hist' \in Hists, hist'.outrun = hist.outrun, hist'.released = hist.released,
         hist'.stale = hist.stale, hist.edited => hist'.edited,
         ui'.typed = ui.typed \/
             (page = "discount" /\ ui'.shown = "none" /\ (ui.busy # 0 => hist'.edited))
  PROVE  PageInv'
<1>1. Typed' /\ Shapes' /\ Room'
  BY PartsUnchanged DEF PageInv, Typed
<1>2. OneHeld'
  BY DEF PageInv, OneHeld, Held
<1>3. NoticeIsForTheCode'
  BY DEF PageInv, NoticeIsForTheCode
<1>4. CheckIsForTheCode'
  <2> SUFFICES ASSUME NEW i \in Slots, jobs[i].kind = "check"
               PROVE  jobs[i].val = ui'.typed \/ hist'.edited
    BY DEF CheckIsForTheCode
  <2>1. CASE ui'.typed = ui.typed
    BY <2>1 DEF PageInv, CheckIsForTheCode
  <2>2. CASE page = "discount" /\ (ui.busy # 0 => hist'.edited)
    <3>1. ~hist.released
      BY <2>2 DEF PageInv, OneHeld
    <3>2. Held(i)
      BY DEF Held, HeldKinds
    <3> QED
      BY <2>2, <3>1, <3>2 DEF PageInv, OneHeld
  <2> QED
    BY <2>1, <2>2
<1>5. Errors'
  BY DEF PageInv, Errors, Explained
<1>6. Tables'
  BY DEF PageInv, Tables
<1>7. Shown'
  BY DEF PageInv, Shown, InOrder, Loads, Covers
<1> QED
  BY <1>1, <1>2, <1>3, <1>4, <1>5, <1>6, <1>7 DEF PageInv

LEMMA FormEdits ==
  ASSUME page \in Pages, PageInv, EditType \/ ToggleForm \/ RateAxes \/ EditCategory
  PROVE  PageInv'
<1>1. PICK form \in BOOLEAN : form = ~ui.form
  OBVIOUS
<1>2. /\ UNCHANGED <<page, token, gen, rows, jobs, clicks, faults, hist>>
      /\ ui' = [ui EXCEPT !.form = form] \/ ui' = [ui EXCEPT !.axes = TRUE]
  BY <1>1 DEF EditType, ToggleForm, RateAxes, EditCategory, Edit
<1>3. /\ ui' \in Uis(page) /\ ui'.copy = ui.copy /\ ui'.busy = ui.busy /\ ui'.error = ui.error
      /\ ui'.shown = ui.shown /\ ui'.typed = ui.typed
  BY <1>2 DEF PageInv, Typed, Uis
<1>4. hist' \in Hists
  BY <1>2 DEF PageInv, Typed
<1> QED
  BY <1>2, <1>3, <1>4, EditKeeps

LEMMA ReviewStep ==
  ASSUME page \in Pages, PageInv, SubmitReview
  PROVE  PageInv'
<1>1. page = "reviews" /\ ui.busy = 0
  BY DEF SubmitReview
<1>2. CASE Edit("reviews", [ui EXCEPT !.error = TRUE]) /\ UNCHANGED hist
  <2>1. /\ UNCHANGED <<page, token, gen, rows, jobs, clicks, faults, hist>>
        /\ ui' = [ui EXCEPT !.error = TRUE]
    BY <1>2 DEF Edit
  <2>2. /\ ui' \in Uis(page) /\ ui'.copy = ui.copy /\ ui'.busy = ui.busy
        /\ ui'.shown = ui.shown /\ ui'.typed = ui.typed
    BY <2>1 DEF PageInv, Typed, Uis
  <2>3. hist' \in Hists
    BY <2>1 DEF PageInv, Typed
  <2> QED
    BY <1>1, <2>1, <2>2, <2>3, EditKeeps
<1>3. CASE Click(Job("review", 1, IF clicks = 0 THEN "first" ELSE "second"),
                 [ui EXCEPT !.busy = 1, !.error = FALSE, !.done = FALSE])
  <2>1. PICK u : u = [ui EXCEPT !.busy = 1, !.error = FALSE, !.done = FALSE]
    OBVIOUS
  <2>2. Click(Job("review", 1, IF clicks = 0 THEN "first" ELSE "second"), u) /\ ui' = u
    BY <1>3, <2>1 DEF Click
  <2> QED
    BY <1>1, <2>1, <2>2, ReviewClick
<1> QED
  BY <1>2, <1>3 DEF SubmitReview

LEMMA CheckStep ==
  ASSUME page \in Pages, PageInv, HandleCheckDiscount
  PROVE  PageInv'
<1>1. page = "discount" /\ ui.busy = 0
  BY DEF HandleCheckDiscount
<1>2. CASE Edit("discount", [ui EXCEPT !.shown = "none", !.error = TRUE]) /\ UNCHANGED hist
  <2>1. /\ UNCHANGED <<page, token, gen, rows, jobs, clicks, faults, hist>>
        /\ ui' = [ui EXCEPT !.shown = "none", !.error = TRUE]
    BY <1>2 DEF Edit
  <2>2. "none" \in Values
    BY DEF Values
  <2>3. /\ ui' \in Uis(page) /\ ui'.copy = ui.copy /\ ui'.busy = ui.busy
        /\ ui'.shown = "none" /\ ui'.typed = ui.typed
    BY <2>1, <2>2 DEF PageInv, Typed, Uis
  <2>4. hist' \in Hists
    BY <2>1 DEF PageInv, Typed
  <2> QED
    BY <1>1, <2>1, <2>3, <2>4, EditKeeps
<1>3. CASE Click(Job("check", 0, ui.typed),
                 [ui EXCEPT !.shown = "none", !.error = FALSE, !.busy = 1])
  <2>1. PICK u : u = [ui EXCEPT !.shown = "none", !.error = FALSE, !.busy = 1]
    OBVIOUS
  <2>2. Click(Job("check", 0, ui.typed), u) /\ ui' = u
    BY <1>3, <2>1 DEF Click
  <2> QED
    BY <1>1, <2>1, <2>2, CheckClick
<1> QED
  BY <1>2, <1>3 DEF HandleCheckDiscount

LEMMA CodeStep ==
  ASSUME page \in Pages, PageInv, NEW code \in {"none", "first", "second"}, TypeCode(code)
  PROVE  PageInv'
<1>1. PICK edited \in BOOLEAN : edited = (hist.edited \/ ui.busy # 0)
  OBVIOUS
<1>2. /\ UNCHANGED <<page, token, gen, rows, jobs, clicks, faults>> /\ page = "discount"
      /\ ui' = [ui EXCEPT !.typed = code, !.shown = "none", !.error = FALSE]
      /\ hist' = [hist EXCEPT !.edited = edited]
  BY <1>1 DEF TypeCode, Edit
<1>3. {"none", code} \subseteq Values
  BY DEF Values
<1>4. /\ ui' \in Uis(page) /\ ui'.copy = ui.copy /\ ui'.busy = ui.busy /\ ui'.error = FALSE
      /\ ui'.shown = "none" /\ ui'.typed = code
  BY <1>2, <1>3 DEF PageInv, Typed, Uis
<1>5. /\ hist' \in Hists /\ hist'.outrun = hist.outrun /\ hist'.released = hist.released
      /\ hist'.stale = hist.stale /\ hist'.edited = edited
  BY <1>2 DEF PageInv, Typed, Hists
<1>6. (hist.edited => edited) /\ (ui.busy # 0 => edited)
  BY <1>1
<1> QED
  BY <1>2, <1>4, <1>5, <1>6, EditKeeps

LEMMA ClearStep ==
  ASSUME page \in Pages, PageInv, ClearToken
  PROVE  PageInv'
<1>1. UNCHANGED <<page, gen, rows, ui, jobs, clicks, faults, hist>> /\ token' = 0 /\ token # 0
  BY DEF ClearToken
<1>2. Typed' /\ Shapes' /\ Room'
  BY <1>1, PartsUnchanged DEF PageInv, Typed
<1>3. OneHeld' /\ NoticeIsForTheCode' /\ CheckIsForTheCode'
  BY <1>1 DEF PageInv, OneHeld, Held, NoticeIsForTheCode, CheckIsForTheCode
<1>4. Errors' /\ Tables'
  BY <1>1 DEF PageInv, Errors, Explained, Tables
<1>5. Shown'
  BY <1>1 DEF PageInv, Shown, InOrder, Loads, Covers
<1> QED
  BY <1>2, <1>3, <1>4, <1>5 DEF PageInv

-----------------------------------------------------------------------------
(***************************************************************************)
(* An answer: the call in slot i ends, or job takes its place.             *)
(***************************************************************************)

Replaced(i) ==
    /\ jobs[i].kind \in Replacing /\ jobs[i].res = "ok"
    /\ page = "admin" => ui.copy[jobs[i].row] # "none"

Answered(i, job) ==
    /\ i \in Slots /\ jobs[i].res \in {"ok", "bad"}
    /\ jobs' = [jobs EXCEPT ![i] = job]
    /\ job \in Jobs /\ JobShape(page, job)
    /\ job.kind \in {"none", "load", "reload"} /\ job.res \in {"none", "sent"}
    /\ DOMAIN job.snap = {}
    /\ UNCHANGED <<page, token, gen, rows, clicks, faults>>
    /\ ui' \in Uis(page) /\ ui'.typed = ui.typed
    /\ ui'.error => ui.error \/ jobs[i].res = "bad"
    /\ ui'.shown = ui.shown \/ (jobs[i].kind = "check" /\ ui'.shown = jobs[i].val)
    /\ ui'.busy = ui.busy \/ (Held(i) /\ job.kind # "reload")
    /\ job.kind = "reload" => jobs[i].kind = "publish"
    /\ hist' \in Hists /\ hist'.released = hist.released
    /\ hist'.stale = hist.stale /\ hist'.edited = hist.edited
    /\ jobs[i].kind \in {"load", "reload"} =>
          /\ job.kind = "none"
          /\ jobs[i].res = "ok" =>
                ui'.copy = jobs[i].snap /\ (~hist'.outrun => jobs[i].snap = rows)
          /\ jobs[i].res = "bad" /\ page = "admin" => ui'.copy = ui.copy
    /\ jobs[i].kind \notin {"load", "reload"} =>
          /\ hist'.outrun = hist.outrun
          /\ jobs[i].kind \in Reloading /\ jobs[i].res = "ok" => job.kind \in {"load", "reload"}
          /\ Replaced(i) => ui'.copy = [ui.copy EXCEPT ![jobs[i].row] = jobs[i].val]
          /\ ~Replaced(i) => ui'.copy = ui.copy

\* The row and the value of an answer that replaces a row.
LEMMA ReplacedRow ==
  ASSUME page \in Pages, PageInv, NEW i \in Slots, jobs[i].kind \in Replacing
  PROVE  /\ jobs[i].row \in RowsOf(page) /\ jobs[i].val # "none" /\ jobs[i].val \in Values
         /\ Held(i) /\ jobs[i].kind \notin Reloading
         /\ page = "admin" <=> jobs[i].kind \in AdminReplacing
         /\ page = "admin" => TableOf[jobs[i].row] # "categories"
         /\ \/ jobs[i].kind = "setEventFeatured"
            \/ page = "admin" => TableOf[jobs[i].row] \in Lasting
<1>1. /\ ListCall(page, jobs[i]) /\ AdminCall(page, jobs[i]) /\ jobs[i].val \in Values
  BY DEF PageInv, Shapes, JobShape, Typed, Jobs
<1>2. jobs[i].kind \in {"remove", "toggle", "rate", "claim"} \cup AdminReplacing
  BY DEF Replacing
<1>3. Held(i) /\ jobs[i].kind \notin Reloading
  BY <1>2 DEF AdminReplacing, Held, HeldKinds, Reloading
<1>4. CASE jobs[i].kind \in AdminReplacing
  BY <1>1, <1>3, <1>4 DEF AdminReplacing, AdminCall, Lasting
<1>5. CASE jobs[i].kind \in {"remove", "toggle", "rate", "claim"}
  BY <1>1, <1>3, <1>5, PageRows DEF AdminReplacing, ListCall
<1> QED
  BY <1>2, <1>4, <1>5

LEMMA AnsweredSlots ==
  ASSUME PageInv, NEW i, NEW job, Answered(i, job)
  PROVE  /\ Typed' /\ Shapes'
         /\ jobs'[i] = job /\ \A j \in Slots \ {i} : jobs'[j] = jobs[j]
<1>1. /\ jobs' \in [Slots -> Jobs] /\ jobs'[i] = job
      /\ \A j \in Slots \ {i} : jobs'[j] = jobs[j]
  BY OverwriteSlot DEF PageInv, Typed, Answered
<1>2. Typed'
  BY <1>1 DEF PageInv, Typed, Answered
<1>3. \A j \in Slots : JobShape(page, jobs'[j])
  BY <1>1 DEF PageInv, Shapes, Answered
<1> QED
  BY <1>1, <1>2, <1>3 DEF Shapes, Answered

LEMMA AnsweredKeeps ==
  ASSUME page \in Pages, PageInv, NEW i, NEW job, Answered(i, job)
  PROVE  PageInv'
<1>0. /\ jobs'[i] = job /\ (\A j \in Slots \ {i} : jobs'[j] = jobs[j]) /\ i \in Slots
      /\ page' = page /\ rows' = rows /\ token' = token /\ faults' = faults /\ clicks' = clicks
      /\ ui'.typed = ui.typed
      /\ jobs[i].res \in {"ok", "bad"} /\ jobs[i].kind # "none"
      /\ job.kind \in {"none", "load", "reload"} /\ job.res \in {"none", "sent"}
      /\ DOMAIN job.snap = {}
      /\ hist'.released = hist.released /\ hist'.stale = hist.stale /\ hist'.edited = hist.edited
  <2>1. jobs'[i] = job /\ \A j \in Slots \ {i} : jobs'[j] = jobs[j]
    BY AnsweredSlots
  <2>2. jobs[i].kind # "none"
    BY DEF PageInv, Shapes, JobShape, Answered
  <2> QED
    BY <2>1, <2>2 DEF Answered
<1>1. Typed' /\ Shapes'
  BY AnsweredSlots
<1>2. Room'
  <2>1. /\ Created' = Created /\ FreeCategories' = FreeCategories
        /\ SentCategories' = SentCategories
    BY <1>0 DEF Created, FreeCategories, SentCategories
  <2>2. \A j \in Slots : jobs'[j].kind = "create" => j # i
    BY <1>0
  <2> QED
    BY <1>0, <2>1, <2>2 DEF PageInv, Room
<1>3. OneHeld'
  <2>1. hist.released => page \in {"attendees", "tickets", "admin"}
    BY DEF PageInv, OneHeld
  <2>2. ASSUME ~hist.released, NEW j \in Slots, jobs'[j].kind \in HeldKinds
        PROVE  ui'.busy # 0 /\ \A k \in Slots : jobs'[k].kind \in HeldKinds => k = j
    <3>1. CASE job.kind = "reload"
      <4>1. Held(i) /\ ui'.busy = ui.busy
        BY <3>1 DEF Answered, Held, HeldKinds
      <4>2. ui.busy # 0 /\ \A k \in Slots : Held(k) => k = i
        BY <1>0, <2>2, <4>1 DEF PageInv, OneHeld
      <4> QED
        BY <1>0, <2>2, <4>1, <4>2 DEF Held
    <3>2. CASE job.kind # "reload"
      <4>1. j # i /\ Held(j) /\ ~(jobs'[i].kind \in HeldKinds)
        BY <1>0, <2>2, <3>2 DEF Held, HeldKinds
      <4>2. ui.busy # 0 /\ \A k \in Slots : Held(k) => k = j
        BY <2>2, <4>1 DEF PageInv, OneHeld
      <4>3. ui'.busy = ui.busy
        BY <1>0, <4>1, <4>2 DEF Answered
      <4> QED
        BY <1>0, <4>1, <4>2, <4>3 DEF Held
    <3> QED
      BY <3>1, <3>2
  <2> QED
    BY <1>0, <2>1, <2>2 DEF OneHeld, Held
<1>4. NoticeIsForTheCode'
  <2>1. CASE ui'.shown = ui.shown
    BY <1>0, <2>1 DEF PageInv, NoticeIsForTheCode
  <2>2. CASE jobs[i].kind = "check" /\ ui'.shown = jobs[i].val
    BY <1>0, <2>2 DEF PageInv, CheckIsForTheCode, NoticeIsForTheCode
  <2> QED
    BY <2>1, <2>2 DEF Answered
<1>5. CheckIsForTheCode'
  BY <1>0 DEF PageInv, CheckIsForTheCode
<1>6. Errors'
  <2>1. Explained' = Explained
    BY <1>0 DEF Explained
  <2>2. ui'.error => Explained
    BY <1>0 DEF PageInv, Errors, Answered
  <2>3. \A j \in Slots : jobs'[j].res = "bad" => Explained
    BY <1>0 DEF PageInv, Errors
  <2>4. \A j \in Slots : jobs'[j].kind \in RowActs => j # i
    BY <1>0 DEF RowActs, Acts
  <2> QED
    BY <1>0, <2>1, <2>2, <2>3, <2>4 DEF PageInv, Errors
<1>7. Tables'
  <2>0. Tables
    BY DEF PageInv
  <2>1. ASSUME page = "admin", NEW r \in RowsOf(page)
        PROVE  /\ TableOf[r] \in Lasting /\ ui'.copy[r] # "none" => rows[r] # "none"
               /\ \A j \in Slots : jobs[j].kind \in AdminReplacing /\ jobs[j].row = r =>
                     (ui'.copy[r] = "none" => rows[r] = "none")
    <3>1. CASE ui'.copy = ui.copy
      BY <2>0, <2>1, <3>1 DEF Tables
    <3>2. CASE jobs[i].kind \in {"load", "reload"} /\ jobs[i].res = "ok"
      <4>1. ui'.copy = jobs[i].snap /\ DOMAIN jobs[i].snap = RowsOf(page)
        BY <1>0, <3>2 DEF Answered, PageInv, Shapes, JobShape
      <4>2. \A j \in Slots : jobs[j].kind \in AdminReplacing /\ jobs[j].row = r =>
               TableOf[r] # "categories"
        BY <2>1, ReplacedRow DEF Replacing
      <4> QED
        BY <1>0, <2>0, <2>1, <4>1, <4>2 DEF Tables
    <3>3. CASE Replaced(i) /\ ui'.copy = [ui.copy EXCEPT ![jobs[i].row] = jobs[i].val]
      <4>1. /\ jobs[i].val # "none" /\ jobs[i].kind \in AdminReplacing
            /\ jobs[i].row \in RowsOf(page)
        BY <1>0, <2>1, <3>3, ReplacedRow DEF Replaced
      <4>2. ui.copy \in [RowsOf(page) -> Values]
        BY DEF PageInv, Typed, Uis
      <4>3. ui'.copy[r] = IF r = jobs[i].row THEN jobs[i].val ELSE ui.copy[r]
        BY <3>3, <4>2
      <4> QED
        BY <1>0, <2>0, <2>1, <4>1, <4>3 DEF Tables
    <3> QED
      BY <1>0, <2>1, <3>1, <3>2, <3>3 DEF Answered, Replaced, Replacing
  <2>2. \A j \in Slots : jobs'[j].kind \in AdminReplacing => j # i
    BY <1>0 DEF AdminReplacing
  <2> QED
    BY <1>0, <2>0, <2>1, <2>2 DEF Tables
<1>8. Shown'
  <2>1. InOrder' = InOrder
    BY <1>0 DEF InOrder
  <2>2. \A j \in Slots : jobs'[j].res \in {"ok", "bad"} => j # i
    BY <1>0
  <2>3. \A j \in Slots \ {i}, r \in RowsOf(page) : Covers(j, r) => Covers(j, r)'
    BY <1>0 DEF Covers
  <2>4. Loads' = {j \in Slots : jobs'[j].kind \in {"load", "reload"}}
    BY DEF Loads, Slots
  <2> SUFFICES ASSUME InOrder
               PROVE  /\ \A j \in Loads' : jobs'[j].res # "bad"
                      /\ \A j \in Slots : jobs'[j].kind \in Replacing /\ jobs'[j].res = "ok" =>
                            \/ rows[jobs'[j].row] = jobs'[j].val
                            \/ jobs'[j].kind = "setEventFeatured" /\ rows[jobs'[j].row] = "none"
                      /\ (token # 0 \/ page \in {"reviews", "discount"}) /\ ~hist'.outrun
                            /\ Loads' = {}
                         => \A r \in RowsOf(page) :
                               ui'.copy[r] = rows[r] \/ \E j \in Slots : Covers(j, r)'
    BY <1>0, <2>1 DEF Shown
  <2>5. \A j \in Loads' : jobs'[j].res # "bad"
    BY <1>0, <2>2, <2>4 DEF PageInv, Shown, Loads
  <2>6. \A j \in Slots : jobs'[j].kind \in Replacing /\ jobs'[j].res = "ok" =>
            \/ rows[jobs'[j].row] = jobs'[j].val
            \/ jobs'[j].kind = "setEventFeatured" /\ rows[jobs'[j].row] = "none"
    BY <1>0, <2>2 DEF PageInv, Shown
  <2>7. ASSUME token # 0 \/ page \in {"reviews", "discount"}, ~hist'.outrun, Loads' = {},
               NEW r \in RowsOf(page)
        PROVE  ui'.copy[r] = rows[r] \/ \E j \in Slots : Covers(j, r)'
    <3>1. job.kind = "none" /\ \A j \in Slots \ {i} : jobs[j].kind \notin {"load", "reload"}
      BY <1>0, <2>4, <2>7
    <3>2. CASE jobs[i].kind \in {"load", "reload"}
      <4>1. jobs[i].res = "ok"
        BY <1>0, <3>2 DEF PageInv, Shown, Loads
      <4>2. ui'.copy = rows
        BY <2>7, <3>2, <4>1 DEF Answered
      <4> QED
        BY <4>2
    <3>3. CASE jobs[i].kind \notin {"load", "reload"}
      <4>1. hist'.outrun = hist.outrun /\ Loads = {}
        BY <1>0, <3>1, <3>3 DEF Answered, Loads
      <4>2. ui.copy[r] = rows[r] \/ \E j \in Slots : Covers(j, r)
        BY <2>7, <4>1 DEF PageInv, Shown
      <4>3. ~(jobs[i].kind \in Reloading /\ jobs[i].res = "ok")
        BY <3>1, <3>3 DEF Answered
      <4>4. ASSUME NEW j \in Slots, Covers(j, r), j # i PROVE \E k \in Slots : Covers(k, r)'
        BY <2>3, <4>4
      <4>5. CASE ~Replaced(i)
        <5>1. ui'.copy = ui.copy
          BY <3>3, <4>5 DEF Answered
        <5>2. ASSUME Covers(i, r) PROVE ui.copy[r] = rows[r]
          <6>1. /\ jobs[i].kind \in Replacing /\ jobs[i].res = "ok" /\ jobs[i].row = r
                /\ rows[r] = jobs[i].val
            BY <4>3, <5>2 DEF Covers
          <6>2. page = "admin" /\ ui.copy[r] = "none"
            BY <4>5, <6>1 DEF Replaced
          <6>3. jobs[i].kind \in AdminReplacing
            BY <1>0, <6>1, <6>2, ReplacedRow
          <6> QED
            BY <1>0, <6>1, <6>2, <6>3 DEF PageInv, Tables
        <5> QED
          BY <4>2, <4>4, <5>1, <5>2
      <4>6. CASE Replaced(i)
        <5>1. /\ jobs[i].row \in RowsOf(page) /\ jobs[i].val # "none"
              /\ Held(i) /\ jobs[i].kind \in Replacing /\ jobs[i].res = "ok"
          BY <1>0, <4>6, ReplacedRow DEF Replaced
        <5>2. ui.copy \in [RowsOf(page) -> Values]
          BY DEF PageInv, Typed, Uis
        <5>3. ui'.copy[r] = IF r = jobs[i].row THEN jobs[i].val ELSE ui.copy[r]
          BY <3>3, <4>6, <5>2 DEF Answered
        <5>4. CASE r # jobs[i].row
          <6>1. ~Covers(i, r)
            BY <4>3, <5>4 DEF Covers
          <6> QED
            BY <4>2, <4>4, <5>3, <5>4, <6>1
        <5>5. CASE r = jobs[i].row /\ rows[r] = jobs[i].val
          BY <5>3, <5>5
        <5>6. CASE r = jobs[i].row /\ rows[r] # jobs[i].val
          <6>1. jobs[i].kind = "setEventFeatured" /\ rows[r] = "none"
            BY <1>0, <5>1, <5>6 DEF PageInv, Shown
          <6>2. page = "admin"
            BY <1>0, <6>1 DEF PageInv, Shapes, JobShape, AdminCall
          <6>3. ui.copy[r] # "none"
            BY <4>6, <5>6, <6>2 DEF Replaced
          <6>4. ~Covers(i, r)
            BY <4>3, <5>6 DEF Covers
          <6> QED
            BY <4>2, <4>4, <6>1, <6>3, <6>4
        <5> QED
          BY <5>4, <5>5, <5>6
      <4> QED
        BY <4>5, <4>6
    <3> QED
      BY <3>2, <3>3
  <2> QED
    BY <2>5, <2>6, <2>7
<1> QED
  BY <1>1, <1>2, <1>3, <1>4, <1>5, <1>6, <1>7, <1>8 DEF PageInv

-----------------------------------------------------------------------------
(* The answers of the pages, one by one *)

Reload == Job("reload", 0, "none")

LEMMA NextJobs ==
  /\ NoJob \in Jobs /\ Load \in Jobs /\ Reload \in Jobs
  /\ NoJob.kind = "none" /\ Load.kind = "load" /\ Reload.kind = "reload"
  /\ \A job \in {NoJob, Load, Reload} :
        job.res \in {"none", "sent"} /\ DOMAIN job.snap = {}
  /\ \A p \in Pages : JobShape(p, NoJob) /\ JobShape(p, Load)
  /\ JobShape("mine", Reload)
<1>1. {"load", "reload"} \subseteq Kinds /\ "none" \in Values
  BY DEF Kinds, Values
<1>2. /\ Load \in Jobs /\ Load.kind = "load" /\ Load.res = "sent" /\ DOMAIN Load.snap = {}
  BY <1>1, JobFields DEF Load
<1>3. /\ Reload \in Jobs /\ Reload.kind = "reload" /\ Reload.res = "sent"
      /\ DOMAIN Reload.snap = {}
  BY <1>1, JobFields DEF Reload
<1>4. /\ NoJob \in Jobs /\ NoJob.kind = "none" /\ NoJob.res = "none" /\ DOMAIN NoJob.snap = {}
  BY NoJobFields
<1>5. \A p \in Pages : JobShape(p, NoJob)
  BY <1>4 DEF JobShape, ListCall, AdminCall
<1>6. \A p \in Pages : JobShape(p, Load)
  BY <1>2 DEF JobShape, ListCall, AdminCall
<1>7. JobShape("mine", Reload)
  BY <1>3 DEF JobShape, ListCall, AdminCall
<1> QED
  BY <1>2, <1>3, <1>4, <1>5, <1>6, <1>7

\* The answer to a call that is not a load: job is the load it starts, if any.
LEMMA CallAnswered ==
  ASSUME page \in Pages, PageInv, NEW i \in Slots, NEW job \in {NoJob, Load, Reload},
         jobs[i].res \in {"ok", "bad"}, jobs[i].kind \notin {"load", "reload"},
         jobs' = [jobs EXCEPT ![i] = job],
         UNCHANGED <<page, token, gen, rows, clicks, faults, hist>>,
         ui' \in Uis(page), ui'.typed = ui.typed,
         ui'.error => ui.error \/ jobs[i].res = "bad",
         ui'.shown = ui.shown \/ (jobs[i].kind = "check" /\ ui'.shown = jobs[i].val),
         ui'.busy = ui.busy \/ (Held(i) /\ job # Reload),
         job = Reload => jobs[i].kind = "publish",
         jobs[i].kind \in Reloading /\ jobs[i].res = "ok" => job # NoJob,
         Replaced(i) => ui'.copy = [ui.copy EXCEPT ![jobs[i].row] = jobs[i].val],
         ~Replaced(i) => ui'.copy = ui.copy
  PROVE  PageInv'
<1>1. /\ job \in Jobs /\ job.kind \in {"none", "load", "reload"}
      /\ job.res \in {"none", "sent"} /\ DOMAIN job.snap = {}
      /\ (job.kind = "reload" <=> job = Reload) /\ (job.kind = "none" <=> job = NoJob)
  BY NextJobs
<1>2. JobShape(page, job)
  <2>1. job = Reload => page = "mine"
    BY DEF PageInv, Shapes, JobShape, ListCall
  <2> QED
    BY <2>1, NextJobs
<1>3. hist' \in Hists
  BY DEF PageInv, Typed
<1>4. Answered(i, job)
  BY <1>1, <1>2, <1>3 DEF Answered
<1> QED
  BY <1>4, AnsweredKeeps

\* The answer is the changed row.
LEMMA RowReplaced ==
  ASSUME page \in Pages, PageInv, NEW i \in Slots, jobs[i].kind \in Replacing
  PROVE  /\ [ui.copy EXCEPT ![jobs[i].row] = jobs[i].val] \in [RowsOf(page) -> Values]
         /\ [ui.copy EXCEPT ![jobs[i].row] = ui.copy[jobs[i].row]] = ui.copy
<1>1. ui.copy \in [RowsOf(page) -> Values]
  BY DEF PageInv, Typed, Uis
<1>2. jobs[i].row \in RowsOf(page) /\ jobs[i].val \in Values
  BY ReplacedRow
<1> QED
  BY <1>1, <1>2

LEMMA ExportAnswer ==
  ASSUME page \in Pages, PageInv, NEW i \in Slots, AnswerExport(i)
  PROVE  PageInv'
<1>1. PICK error \in BOOLEAN : error = (ui.error \/ ~Good(i))
  BY DEF PageInv, Typed, Uis
<1>2. PICK job : job = NoJob
  OBVIOUS
<1>3. /\ jobs[i].kind = "export" /\ jobs[i].res \in {"ok", "bad"}
      /\ jobs' = [jobs EXCEPT ![i] = job]
      /\ UNCHANGED <<page, token, gen, rows, clicks, faults, hist>>
      /\ ui' = [ui EXCEPT !.error = error, !.exporting = FALSE]
  BY <1>1, <1>2 DEF AnswerExport, Answer, Ended
<1>4. /\ ui' \in Uis(page) /\ ui'.copy = ui.copy /\ ui'.typed = ui.typed /\ ui'.shown = ui.shown
      /\ (ui'.error => ui.error \/ jobs[i].res = "bad") /\ ui'.busy = ui.busy
  BY <1>1, <1>3 DEF PageInv, Typed, Uis, Good
<1>5. /\ ~Replaced(i)
      /\ job \in {NoJob, Load, Reload} /\ job # Reload
      /\ (jobs[i].kind \in Reloading /\ jobs[i].res = "ok" => job # NoJob)
  BY <1>2, <1>3, NextJobs
  DEF Replaced, Replacing, AdminReplacing, Reloading, Held, HeldKinds, Good
<1> QED
  BY <1>3, <1>4, <1>5, CallAnswered

LEMMA CancelAnswer ==
  ASSUME page \in Pages, PageInv, NEW i \in Slots, AnswerCancel(i)
  PROVE  PageInv'
<1>1. PICK error \in BOOLEAN : error = (ui.error \/ ~Good(i))
  BY DEF PageInv, Typed, Uis
<1>2. PICK job : job = (IF Good(i) THEN Load ELSE NoJob)
  OBVIOUS
<1>3. /\ jobs[i].kind = "cancel" /\ jobs[i].res \in {"ok", "bad"}
      /\ jobs' = [jobs EXCEPT ![i] = job]
      /\ UNCHANGED <<page, token, gen, rows, clicks, faults, hist>>
      /\ ui' = [ui EXCEPT !.error = error, !.busy = 0]
  BY <1>1, <1>2 DEF AnswerCancel, Answer, Ended, Reloads
<1>4. /\ ui' \in Uis(page) /\ ui'.copy = ui.copy /\ ui'.typed = ui.typed /\ ui'.shown = ui.shown
      /\ (ui'.error => ui.error \/ jobs[i].res = "bad")
  BY <1>1, <1>3 DEF PageInv, Typed, Uis, Good
<1>5. /\ ~Replaced(i) /\ Held(i)
      /\ job \in {NoJob, Load, Reload} /\ job # Reload
      /\ (jobs[i].kind \in Reloading /\ jobs[i].res = "ok" => job # NoJob)
  BY <1>2, <1>3, NextJobs
  DEF Replaced, Replacing, AdminReplacing, Reloading, Held, HeldKinds, Good
<1> QED
  BY <1>3, <1>4, <1>5, CallAnswered

LEMMA CalendarAnswer ==
  ASSUME page \in Pages, PageInv, NEW i \in Slots, AnswerCalendar(i)
  PROVE  PageInv'
<1>1. PICK error \in BOOLEAN : error = (ui.error \/ ~Good(i))
  BY DEF PageInv, Typed, Uis
<1>2. PICK job : job = NoJob
  OBVIOUS
<1>3. /\ jobs[i].kind = "calendar" /\ jobs[i].res \in {"ok", "bad"}
      /\ jobs' = [jobs EXCEPT ![i] = job]
      /\ UNCHANGED <<page, token, gen, rows, clicks, faults, hist>>
      /\ ui' = [ui EXCEPT !.error = error]
  BY <1>1, <1>2 DEF AnswerCalendar, Answer, Ended
<1>4. /\ ui' \in Uis(page) /\ ui'.copy = ui.copy /\ ui'.typed = ui.typed /\ ui'.shown = ui.shown
      /\ (ui'.error => ui.error \/ jobs[i].res = "bad") /\ ui'.busy = ui.busy
  BY <1>1, <1>3 DEF PageInv, Typed, Uis, Good
<1>5. /\ ~Replaced(i)
      /\ job \in {NoJob, Load, Reload} /\ job # Reload
      /\ (jobs[i].kind \in Reloading /\ jobs[i].res = "ok" => job # NoJob)
  BY <1>2, <1>3, NextJobs
  DEF Replaced, Replacing, AdminReplacing, Reloading, Held, HeldKinds, Good
<1> QED
  BY <1>3, <1>4, <1>5, CallAnswered

LEMMA TypeAnswer ==
  ASSUME page \in Pages, PageInv, NEW i \in Slots, AnswerType(i)
  PROVE  PageInv'
<1>1. PICK error \in BOOLEAN : error = (ui.error \/ ~Good(i))
  BY DEF PageInv, Typed, Uis
<1>2. PICK form \in BOOLEAN : form = (ui.form /\ ~Good(i))
  BY DEF PageInv, Typed, Uis
<1>3. PICK job : job = (IF Good(i) THEN Load ELSE NoJob)
  OBVIOUS
<1>4. /\ jobs[i].kind = "create" /\ jobs[i].res \in {"ok", "bad"}
      /\ jobs' = [jobs EXCEPT ![i] = job]
      /\ UNCHANGED <<page, token, gen, rows, clicks, faults, hist>>
      /\ ui' = [ui EXCEPT !.error = error, !.form = form, !.busy = 0]
  BY <1>1, <1>2, <1>3 DEF AnswerType, Answer, Ended, Reloads
<1>5. /\ ui' \in Uis(page) /\ ui'.copy = ui.copy /\ ui'.typed = ui.typed /\ ui'.shown = ui.shown
      /\ (ui'.error => ui.error \/ jobs[i].res = "bad")
  BY <1>1, <1>2, <1>4 DEF PageInv, Typed, Uis, Good
<1>6. /\ ~Replaced(i) /\ Held(i)
      /\ job \in {NoJob, Load, Reload} /\ job # Reload
      /\ (jobs[i].kind \in Reloading /\ jobs[i].res = "ok" => job # NoJob)
  BY <1>3, <1>4, NextJobs
  DEF Replaced, Replacing, AdminReplacing, Reloading, Held, HeldKinds, Good
<1> QED
  BY <1>4, <1>5, <1>6, CallAnswered

LEMMA ReviewAnswer ==
  ASSUME page \in Pages, PageInv, NEW i \in Slots, AnswerReview(i)
  PROVE  PageInv'
<1>1. PICK error \in BOOLEAN : error = (ui.error \/ ~Good(i))
  BY DEF PageInv, Typed, Uis
<1>2. PICK done \in BOOLEAN : done = (ui.done \/ Good(i))
  BY DEF PageInv, Typed, Uis
<1>3. PICK form \in BOOLEAN : form = (ui.form /\ ~Good(i))
  BY DEF PageInv, Typed, Uis
<1>4. PICK job : job = (IF Good(i) THEN Load ELSE NoJob)
  OBVIOUS
<1>5. /\ jobs[i].kind = "review" /\ jobs[i].res \in {"ok", "bad"}
      /\ jobs' = [jobs EXCEPT ![i] = job]
      /\ UNCHANGED <<page, token, gen, rows, clicks, faults, hist>>
      /\ ui' = [ui EXCEPT !.busy = 0, !.error = error, !.done = done, !.form = form]
  BY <1>1, <1>2, <1>3, <1>4 DEF AnswerReview, Answer, Ended, Reloads
<1>6. /\ ui' \in Uis(page) /\ ui'.copy = ui.copy /\ ui'.typed = ui.typed /\ ui'.shown = ui.shown
      /\ (ui'.error => ui.error \/ jobs[i].res = "bad")
  BY <1>1, <1>2, <1>3, <1>5 DEF PageInv, Typed, Uis, Good
<1>7. /\ ~Replaced(i) /\ Held(i)
      /\ job \in {NoJob, Load, Reload} /\ job # Reload
      /\ (jobs[i].kind \in Reloading /\ jobs[i].res = "ok" => job # NoJob)
  BY <1>4, <1>5, NextJobs
  DEF Replaced, Replacing, AdminReplacing, Reloading, Held, HeldKinds, Good
<1> QED
  BY <1>5, <1>6, <1>7, CallAnswered

LEMMA ReloadAnswer ==
  ASSUME page \in Pages, PageInv, NEW i \in Slots, NEW kind \in {"deleteEvent", "deleteCategory"},
         AnswerReload(i, kind)
  PROVE  PageInv'
<1>1. PICK error \in BOOLEAN : error = (ui.error \/ ~Good(i))
  BY DEF PageInv, Typed, Uis
<1>2. PICK job : job = (IF Good(i) THEN Load ELSE NoJob)
  OBVIOUS
<1>3. /\ jobs[i].kind = kind /\ kind \in {"deleteEvent", "deleteCategory"}
      /\ jobs[i].res \in {"ok", "bad"}
      /\ jobs' = [jobs EXCEPT ![i] = job]
      /\ UNCHANGED <<page, token, gen, rows, clicks, faults, hist>>
      /\ ui' = [ui EXCEPT !.busy = 0, !.error = error]
  BY <1>1, <1>2 DEF AnswerReload, Answer, Ended, Reloads
<1>4. /\ ui' \in Uis(page) /\ ui'.copy = ui.copy /\ ui'.typed = ui.typed /\ ui'.shown = ui.shown
      /\ (ui'.error => ui.error \/ jobs[i].res = "bad")
  BY <1>1, <1>3 DEF PageInv, Typed, Uis, Good
<1>5. /\ ~Replaced(i) /\ Held(i)
      /\ job \in {NoJob, Load, Reload} /\ job # Reload
      /\ (jobs[i].kind \in Reloading /\ jobs[i].res = "ok" => job # NoJob)
  BY <1>2, <1>3, NextJobs
  DEF Replaced, Replacing, AdminReplacing, Reloading, Held, HeldKinds, Good
<1> QED
  BY <1>3, <1>4, <1>5, CallAnswered

LEMMA CategoryAnswer ==
  ASSUME page \in Pages, PageInv, NEW i \in Slots, AnswerCategory(i)
  PROVE  PageInv'
<1>1. PICK error \in BOOLEAN : error = (ui.error \/ ~Good(i))
  BY DEF PageInv, Typed, Uis
<1>2. PICK form \in BOOLEAN : form = (ui.form /\ ~Good(i))
  BY DEF PageInv, Typed, Uis
<1>3. PICK job : job = (IF Good(i) THEN Load ELSE NoJob)
  OBVIOUS
<1>4. /\ jobs[i].kind = "createCategory" /\ jobs[i].res \in {"ok", "bad"}
      /\ jobs' = [jobs EXCEPT ![i] = job]
      /\ UNCHANGED <<page, token, gen, rows, clicks, faults, hist>>
      /\ ui' = [ui EXCEPT !.form = form, !.error = error]
  BY <1>1, <1>2, <1>3 DEF AnswerCategory, Answer, Ended, Reloads
<1>5. /\ ui' \in Uis(page) /\ ui'.copy = ui.copy /\ ui'.typed = ui.typed /\ ui'.shown = ui.shown
      /\ (ui'.error => ui.error \/ jobs[i].res = "bad") /\ ui'.busy = ui.busy
  BY <1>1, <1>2, <1>4 DEF PageInv, Typed, Uis, Good
<1>6. /\ ~Replaced(i)
      /\ job \in {NoJob, Load, Reload} /\ job # Reload
      /\ (jobs[i].kind \in Reloading /\ jobs[i].res = "ok" => job # NoJob)
  BY <1>3, <1>4, NextJobs
  DEF Replaced, Replacing, AdminReplacing, Reloading, Held, HeldKinds, Good
<1> QED
  BY <1>4, <1>5, <1>6, CallAnswered

LEMMA RollupAnswer ==
  ASSUME page \in Pages, PageInv, NEW i \in Slots, AnswerRollup(i)
  PROVE  PageInv'
<1>1. PICK error \in BOOLEAN : error = (ui.error \/ ~Good(i))
  BY DEF PageInv, Typed, Uis
<1>2. PICK job : job = (IF Good(i) THEN Load ELSE NoJob)
  OBVIOUS
<1>3. /\ jobs[i].kind = "rollup" /\ jobs[i].res \in {"ok", "bad"}
      /\ jobs' = [jobs EXCEPT ![i] = job]
      /\ UNCHANGED <<page, token, gen, rows, clicks, faults, hist>>
      /\ ui' = [ui EXCEPT !.exporting = FALSE, !.error = error]
  BY <1>1, <1>2 DEF AnswerRollup, Answer, Ended, Reloads
<1>4. /\ ui' \in Uis(page) /\ ui'.copy = ui.copy /\ ui'.typed = ui.typed /\ ui'.shown = ui.shown
      /\ (ui'.error => ui.error \/ jobs[i].res = "bad") /\ ui'.busy = ui.busy
  BY <1>1, <1>3 DEF PageInv, Typed, Uis, Good
<1>5. /\ ~Replaced(i)
      /\ job \in {NoJob, Load, Reload} /\ job # Reload
      /\ (jobs[i].kind \in Reloading /\ jobs[i].res = "ok" => job # NoJob)
  BY <1>2, <1>3, NextJobs
  DEF Replaced, Replacing, AdminReplacing, Reloading, Held, HeldKinds, Good
<1> QED
  BY <1>3, <1>4, <1>5, CallAnswered

LEMMA PublishAnswer ==
  ASSUME page \in Pages, PageInv, NEW i \in Slots, AnswerPublish(i)
  PROVE  PageInv'
<1>1. PICK job : job = (IF Good(i) THEN Reload ELSE NoJob)
  OBVIOUS
<1>2. /\ jobs[i].kind = "publish" /\ jobs[i].res \in {"ok", "bad"}
      /\ jobs' = [jobs EXCEPT ![i] = job]
      /\ UNCHANGED <<page, token, gen, rows, clicks, faults, hist>>
      /\ ui' = IF Good(i) THEN ui ELSE [ui EXCEPT !.error = TRUE, !.busy = 0]
  BY <1>1 DEF AnswerPublish, Answer, Ended, Reload
<1>3. /\ ui' \in Uis(page) /\ ui'.copy = ui.copy /\ ui'.typed = ui.typed /\ ui'.shown = ui.shown
      /\ (ui'.error => ui.error \/ jobs[i].res = "bad")
      /\ (ui'.busy = ui.busy \/ ~Good(i))
  BY <1>2 DEF PageInv, Typed, Uis, Good
<1>4. /\ ~Replaced(i) /\ Held(i) /\ job \in {NoJob, Load, Reload}
      /\ (~Good(i) => job # Reload) /\ (Good(i) => job # NoJob)
  BY <1>1, <1>2, NextJobs DEF Replaced, Replacing, AdminReplacing, Held, HeldKinds
<1> QED
  BY <1>2, <1>3, <1>4, CallAnswered DEF Good

\* The answer is the changed row; error and copy are what the handler sets.
LEMMA ReplaceAnswer ==
  ASSUME page \in Pages, PageInv, NEW i \in Slots, jobs[i].kind \in Replacing,
         jobs[i].res \in {"ok", "bad"}, jobs' = [jobs EXCEPT ![i] = NoJob],
         UNCHANGED <<page, token, gen, rows, clicks, faults, hist>>,
         NEW error \in BOOLEAN, error => ui.error \/ ~Good(i),
         NEW copy, ui' = [ui EXCEPT !.busy = 0, !.error = error, !.copy = copy],
         Replaced(i) => copy = [ui.copy EXCEPT ![jobs[i].row] = jobs[i].val],
         ~Replaced(i) => copy = [ui.copy EXCEPT ![jobs[i].row] = ui.copy[jobs[i].row]]
  PROVE  PageInv'
<1>1. ui \in Uis(page) /\ ui.copy \in [RowsOf(page) -> Values]
  BY DEF PageInv, Typed, Uis
<1>2. copy \in [RowsOf(page) -> Values] /\ (~Replaced(i) => copy = ui.copy)
  BY <1>1, RowReplaced
<1>3. /\ ui' \in Uis(page) /\ ui'.copy = copy /\ ui'.typed = ui.typed /\ ui'.shown = ui.shown
      /\ ui'.error = error
  BY <1>1, <1>2 DEF Uis
<1>4. /\ Held(i) /\ jobs[i].kind \notin Reloading /\ jobs[i].kind \notin {"load", "reload"}
      /\ NoJob # Reload
  BY ReplacedRow, NextJobs DEF Held, HeldKinds, Replacing, AdminReplacing
<1> QED
  BY <1>2, <1>3, <1>4, CallAnswered DEF Good

LEMMA RemoveAnswer ==
  ASSUME page \in Pages, PageInv, NEW i \in Slots, AnswerRemove(i)
  PROVE  PageInv'
<1>1. PICK error \in BOOLEAN : error = (ui.error \/ ~Good(i))
  BY DEF PageInv, Typed, Uis
<1>2. /\ jobs[i].kind = "remove" /\ jobs[i].res \in {"ok", "bad"}
      /\ jobs' = [jobs EXCEPT ![i] = NoJob]
      /\ UNCHANGED <<page, token, gen, rows, clicks, faults, hist>>
  BY DEF AnswerRemove, Answer, Ended
<1>3. /\ jobs[i].kind \in Replacing
      /\ Replaced(i) <=> Good(i)
  <2>1. /\ jobs[i].kind \in Replacing /\ jobs[i].kind \notin AdminReplacing
    BY <1>2 DEF AdminReplacing, Replacing
  <2>2. page # "admin"
    BY <2>1, ReplacedRow
  <2> QED
    BY <2>1, <2>2 DEF Replaced, Good
<1>4. PICK copy : copy = [ui.copy EXCEPT ![jobs[i].row] =
                        IF Good(i) THEN jobs[i].val ELSE ui.copy[jobs[i].row]]
  OBVIOUS
<1>6. ui' = [ui EXCEPT !.busy = 0, !.error = error, !.copy = copy]
  <2>1. CASE Good(i)
    <3>1. ui' = [ui EXCEPT !.busy = 0, !.copy = copy]
      BY <2>1, <1>4 DEF AnswerRemove, Answer
    <3> QED
      BY <1>1, <2>1, <3>1 DEF PageInv, Typed, Uis
  <2>2. CASE ~Good(i)
    <3>1. ui' = [ui EXCEPT !.busy = 0, !.error = TRUE]
      BY <2>2 DEF AnswerRemove, Answer
    <3>2. copy = ui.copy
      BY <1>3, <2>2, <1>4, RowReplaced
    <3> QED
      BY <1>1, <2>2, <3>1, <3>2 DEF PageInv, Typed, Uis
  <2> QED
    BY <2>1, <2>2
<1>7. error => ui.error \/ ~Good(i)
  BY <1>1
<1> QED
  BY <1>1, <1>2, <1>3, <1>4, <1>6, <1>7, ReplaceAnswer

LEMMA ToggleAnswer ==
  ASSUME page \in Pages, PageInv, NEW i \in Slots, AnswerToggle(i)
  PROVE  PageInv'
<1>1. PICK error \in BOOLEAN : error = (ui.error)
  BY DEF PageInv, Typed, Uis
<1>2. /\ jobs[i].kind = "toggle" /\ jobs[i].res \in {"ok", "bad"}
      /\ jobs' = [jobs EXCEPT ![i] = NoJob]
      /\ UNCHANGED <<page, token, gen, rows, clicks, faults, hist>>
  BY DEF AnswerToggle, Answer, Ended
<1>3. /\ jobs[i].kind \in Replacing
      /\ Replaced(i) <=> Good(i)
  <2>1. /\ jobs[i].kind \in Replacing /\ jobs[i].kind \notin AdminReplacing
    BY <1>2 DEF AdminReplacing, Replacing
  <2>2. page # "admin"
    BY <2>1, ReplacedRow
  <2> QED
    BY <2>1, <2>2 DEF Replaced, Good
<1>4. jobs[i].row = 1
  BY <1>2 DEF PageInv, Shapes, JobShape, ListCall
<1>5. PICK copy : copy = [ui.copy EXCEPT ![jobs[i].row] =
                        IF Good(i) THEN jobs[i].val ELSE ui.copy[jobs[i].row]]
  OBVIOUS
<1>6. ui' = [ui EXCEPT !.busy = 0, !.error = error, !.copy = copy]
  <2>1. ui' = [ui EXCEPT !.busy = 0, !.copy = copy]
    BY <1>5, <1>4 DEF AnswerToggle, Answer
  <2> QED
    BY <1>1, <2>1 DEF PageInv, Typed, Uis
<1>7. error => ui.error \/ ~Good(i)
  BY <1>1
<1> QED
  BY <1>1, <1>2, <1>3, <1>5, <1>6, <1>7, ReplaceAnswer

LEMMA RateAnswer ==
  ASSUME page \in Pages, PageInv, NEW i \in Slots, AnswerRate(i)
  PROVE  PageInv'
<1>1. PICK error \in BOOLEAN : error = (ui.error)
  BY DEF PageInv, Typed, Uis
<1>2. /\ jobs[i].kind = "rate" /\ jobs[i].res \in {"ok", "bad"}
      /\ jobs' = [jobs EXCEPT ![i] = NoJob]
      /\ UNCHANGED <<page, token, gen, rows, clicks, faults, hist>>
  BY DEF AnswerRate, Answer, Ended
<1>3. /\ jobs[i].kind \in Replacing
      /\ Replaced(i) <=> Good(i)
  <2>1. /\ jobs[i].kind \in Replacing /\ jobs[i].kind \notin AdminReplacing
    BY <1>2 DEF AdminReplacing, Replacing
  <2>2. page # "admin"
    BY <2>1, ReplacedRow
  <2> QED
    BY <2>1, <2>2 DEF Replaced, Good
<1>4. jobs[i].row = 1
  BY <1>2 DEF PageInv, Shapes, JobShape, ListCall
<1>5. PICK copy : copy = [ui.copy EXCEPT ![jobs[i].row] =
                        IF Good(i) THEN jobs[i].val ELSE ui.copy[jobs[i].row]]
  OBVIOUS
<1>6. ui' = [ui EXCEPT !.busy = 0, !.error = error, !.copy = copy]
  <2>1. ui' = [ui EXCEPT !.busy = 0, !.copy = copy]
    BY <1>5, <1>4 DEF AnswerRate, Answer
  <2> QED
    BY <1>1, <2>1 DEF PageInv, Typed, Uis
<1>7. error => ui.error \/ ~Good(i)
  BY <1>1
<1> QED
  BY <1>1, <1>2, <1>3, <1>5, <1>6, <1>7, ReplaceAnswer

LEMMA ClaimAnswer ==
  ASSUME page \in Pages, PageInv, NEW i \in Slots, AnswerClaim(i)
  PROVE  PageInv'
<1>1. PICK error \in BOOLEAN : error = (ui.error \/ ~Good(i))
  BY DEF PageInv, Typed, Uis
<1>2. /\ jobs[i].kind = "claim" /\ jobs[i].res \in {"ok", "bad"}
      /\ jobs' = [jobs EXCEPT ![i] = NoJob]
      /\ UNCHANGED <<page, token, gen, rows, clicks, faults, hist>>
  BY DEF AnswerClaim, Answer, Ended
<1>3. /\ jobs[i].kind \in Replacing
      /\ Replaced(i) <=> Good(i)
  <2>1. /\ jobs[i].kind \in Replacing /\ jobs[i].kind \notin AdminReplacing
    BY <1>2 DEF AdminReplacing, Replacing
  <2>2. page # "admin"
    BY <2>1, ReplacedRow
  <2> QED
    BY <2>1, <2>2 DEF Replaced, Good
<1>4. jobs[i].row = 1 /\ jobs[i].val = "mine"
  BY <1>2 DEF PageInv, Shapes, JobShape, ListCall
<1>5. PICK copy : copy = [ui.copy EXCEPT ![jobs[i].row] =
                        IF Good(i) THEN jobs[i].val ELSE ui.copy[jobs[i].row]]
  OBVIOUS
<1>6. ui' = [ui EXCEPT !.busy = 0, !.error = error, !.copy = copy]
  <2>1. CASE Good(i)
    <3>1. ui' = [ui EXCEPT !.busy = 0, !.copy = copy]
      BY <2>1, <1>5, <1>4 DEF AnswerClaim, Answer
    <3> QED
      BY <1>1, <2>1, <3>1 DEF PageInv, Typed, Uis
  <2>2. CASE ~Good(i)
    <3>1. ui' = [ui EXCEPT !.busy = 0, !.error = TRUE]
      BY <2>2 DEF AnswerClaim, Answer
    <3>2. copy = ui.copy
      BY <1>3, <2>2, <1>5, RowReplaced
    <3> QED
      BY <1>1, <2>2, <3>1, <3>2 DEF PageInv, Typed, Uis
  <2> QED
    BY <2>1, <2>2
<1>7. error => ui.error \/ ~Good(i)
  BY <1>1
<1> QED
  BY <1>1, <1>2, <1>3, <1>5, <1>6, <1>7, ReplaceAnswer

LEMMA AdminReplaceAnswer ==
  ASSUME page \in Pages, PageInv, NEW i \in Slots, NEW kind \in AdminReplacing,
         AnswerReplace(i, kind)
  PROVE  PageInv'
<1>1. PICK error \in BOOLEAN : error = (ui.error \/ ~Good(i))
  BY DEF PageInv, Typed, Uis
<1>2. /\ jobs[i].kind = kind /\ jobs[i].res \in {"ok", "bad"}
      /\ jobs' = [jobs EXCEPT ![i] = NoJob]
      /\ UNCHANGED <<page, token, gen, rows, clicks, faults, hist>>
  BY DEF AnswerReplace, Answer, Ended
<1>3. /\ jobs[i].kind \in Replacing
      /\ Replaced(i) <=> Good(i) /\ ui.copy[jobs[i].row] # "none"
  <2>1. jobs[i].kind \in AdminReplacing /\ jobs[i].kind \in Replacing
    BY <1>2 DEF AdminReplacing, Replacing
  <2>2. page = "admin"
    BY <2>1, ReplacedRow
  <2> QED
    BY <2>1, <2>2 DEF Replaced, Good
<1>4. PICK copy : copy = [ui.copy EXCEPT ![jobs[i].row] =
                        IF Good(i) /\ ui.copy[jobs[i].row] # "none"
                        THEN jobs[i].val ELSE ui.copy[jobs[i].row]]
  OBVIOUS
<1>6. ui' = [ui EXCEPT !.busy = 0, !.error = error, !.copy = copy]
  BY <1>1, <1>4 DEF AnswerReplace, Answer
<1>7. error => ui.error \/ ~Good(i)
  BY <1>1
<1> QED
  BY <1>1, <1>2, <1>3, <1>4, <1>6, <1>7, ReplaceAnswer

LEMMA DiscountAnswer ==
  ASSUME page \in Pages, PageInv, NEW i \in Slots, AnswerDiscount(i)
  PROVE  PageInv'
<1>1. PICK error \in BOOLEAN : error = (ui.error \/ ~Good(i))
  OBVIOUS
<1>2. PICK shown : shown = IF Good(i) THEN jobs[i].val ELSE ui.shown
  OBVIOUS
<1>3. /\ jobs[i].kind = "check" /\ jobs[i].res \in {"ok", "bad"}
      /\ jobs' = [jobs EXCEPT ![i] = NoJob]
      /\ UNCHANGED <<page, token, gen, rows, clicks, faults, hist>>
      /\ ui' = [ui EXCEPT !.busy = 0, !.error = error, !.shown = shown]
  BY <1>1, <1>2 DEF AnswerDiscount, Answer, Ended
<1>4. shown \in Values
  BY <1>2 DEF PageInv, Typed, Uis, Jobs
<1>5. /\ ui' \in Uis(page) /\ ui'.copy = ui.copy /\ ui'.typed = ui.typed
      /\ ui'.shown = shown /\ (ui'.error => ui.error \/ jobs[i].res = "bad")
  BY <1>1, <1>3, <1>4 DEF PageInv, Typed, Uis, Good
<1>6. /\ ~Replaced(i) /\ Held(i) /\ NoJob # Reload /\ jobs[i].kind \notin Reloading
  BY <1>3, NextJobs DEF Replaced, Replacing, AdminReplacing, Reloading, Held, HeldKinds
<1> QED
  BY <1>2, <1>3, <1>5, <1>6, CallAnswered

\* A load that is answered: the new list, or what its catch does.
LEMMA LoadAnswer ==
  ASSUME page \in Pages, PageInv, NEW i \in Slots, AnswerLoad(i)
  PROVE  PageInv'
<1>1. /\ jobs[i].kind = "load" /\ jobs[i].res \in {"ok", "bad"}
      /\ jobs' = [jobs EXCEPT ![i] = NoJob]
      /\ UNCHANGED <<page, token, gen, rows, clicks, faults>>
      /\ ui \in Uis(page) /\ hist \in Hists
  BY DEF AnswerLoad, Ended, PageInv, Typed
<1>2. NoJob \in Jobs /\ JobShape(page, NoJob) /\ NoJob.kind = "none" /\ NoJob.res = "none"
      /\ DOMAIN NoJob.snap = {}
  BY NextJobs, NoJobFields
<1>3. ~Replaced(i) /\ jobs[i].kind \notin Reloading
  BY <1>1 DEF Replaced, Replacing, AdminReplacing, Reloading
<1>4. CASE jobs[i].res = "ok"
  <2>1. PICK outrun \in BOOLEAN : outrun = (jobs[i].snap # rows)
    OBVIOUS
  <2>2. /\ ui' = [ui EXCEPT !.copy = jobs[i].snap, !.loading = FALSE]
        /\ hist' = [hist EXCEPT !.outrun = outrun]
    BY <1>4, <2>1 DEF AnswerLoad
  <2>3. jobs[i].snap \in [RowsOf(page) -> Values]
    <3>1. DOMAIN jobs[i].snap = RowsOf(page)
      BY <1>1, <1>4 DEF PageInv, Shapes, JobShape
    <3>2. jobs[i].snap \in Snaps
      BY DEF PageInv, Typed, Jobs
    <3>3. PICK S \in SUBSET Nat : jobs[i].snap \in [S -> Values]
      BY <3>2 DEF Snaps
    <3> QED
      BY <3>1, <3>3
  <2>4. /\ ui' \in Uis(page) /\ ui'.copy = jobs[i].snap /\ ui'.typed = ui.typed
        /\ ui'.shown = ui.shown /\ ui'.error = ui.error /\ ui'.busy = ui.busy
    BY <1>1, <2>2, <2>3 DEF Uis
  <2>5. /\ hist' \in Hists /\ hist'.outrun = outrun /\ hist'.released = hist.released
        /\ hist'.stale = hist.stale /\ hist'.edited = hist.edited
    BY <1>1, <2>2 DEF Hists
  <2>6. Answered(i, NoJob)
    BY <1>1, <1>2, <1>3, <1>4, <2>1, <2>4, <2>5 DEF Answered
  <2> QED
    BY <2>6, AnsweredKeeps
<1>5. CASE jobs[i].res = "bad"
  <2>1. ui' = LoadFailed /\ hist' = hist
    BY <1>5 DEF AnswerLoad
  <2>2. Blank(page, rows) \in [RowsOf(page) -> Values]
    BY DEF Blank, Values
  <2>3. /\ ui' \in Uis(page) /\ ui'.typed = ui.typed /\ ui'.shown = ui.shown
        /\ ui'.busy = ui.busy /\ (page = "admin" => ui'.copy = ui.copy)
    <3>1. \/ ui' = [ui EXCEPT !.error = TRUE, !.loading = FALSE]
          \/ page = "toggle"
               /\ ui' = [ui EXCEPT !.copy = Blank(page, rows), !.loading = FALSE]
          \/ ui' = [ui EXCEPT !.loading = FALSE]
      BY <2>1 DEF LoadFailed, ListPage
    <3> QED
      BY <1>1, <2>2, <3>1 DEF Uis
  <2>4. Answered(i, NoJob)
    BY <1>1, <1>2, <1>3, <1>5, <2>1, <2>3 DEF Answered
  <2> QED
    BY <2>4, AnsweredKeeps
<1> QED
  BY <1>1, <1>4, <1>5

LEMMA RefreshedAnswer ==
  ASSUME page \in Pages, PageInv, NEW i \in Slots, AnswerRefreshed(i)
  PROVE  PageInv'
<1>1. PICK error \in BOOLEAN : error = (ui.error \/ ~Good(i))
  OBVIOUS
<1>2. PICK outrun \in BOOLEAN : outrun = (IF Good(i) THEN jobs[i].snap # rows ELSE hist.outrun)
  BY DEF PageInv, Typed, Hists
<1>3. PICK copy : copy = (IF Good(i) THEN jobs[i].snap ELSE ui.copy)
  OBVIOUS
<1>4. /\ jobs[i].kind = "reload" /\ jobs[i].res \in {"ok", "bad"}
      /\ jobs' = [jobs EXCEPT ![i] = NoJob]
      /\ UNCHANGED <<page, token, gen, rows, clicks, faults>>
      /\ ui' = [ui EXCEPT !.busy = 0, !.error = error, !.copy = copy]
      /\ hist' = [hist EXCEPT !.outrun = outrun]
      /\ ui \in Uis(page) /\ hist \in Hists
  BY <1>1, <1>2, <1>3 DEF AnswerRefreshed, Ended, PageInv, Typed
<1>5. copy \in [RowsOf(page) -> Values]
  <2>1. CASE Good(i)
    <3>1. DOMAIN jobs[i].snap = RowsOf(page)
      BY <1>4, <2>1 DEF PageInv, Shapes, JobShape, Good
    <3>2. jobs[i].snap \in Snaps
      BY DEF PageInv, Typed, Jobs
    <3>3. PICK S \in SUBSET Nat : jobs[i].snap \in [S -> Values]
      BY <3>2 DEF Snaps
    <3> QED
      BY <1>3, <2>1, <3>1, <3>3
  <2>2. CASE ~Good(i)
    BY <1>3, <1>4, <2>2 DEF Uis
  <2> QED
    BY <2>1, <2>2
<1>6. /\ ui' \in Uis(page) /\ ui'.copy = copy /\ ui'.typed = ui.typed
      /\ ui'.shown = ui.shown /\ ui'.error = error
  BY <1>4, <1>5 DEF Uis
<1>7. /\ hist' \in Hists /\ hist'.outrun = outrun /\ hist'.released = hist.released
      /\ hist'.stale = hist.stale /\ hist'.edited = hist.edited
  BY <1>4 DEF Hists
<1>8. NoJob \in Jobs /\ JobShape(page, NoJob) /\ NoJob.kind = "none" /\ NoJob.res = "none"
      /\ DOMAIN NoJob.snap = {}
  BY NextJobs, NoJobFields
<1>9. /\ ~Replaced(i) /\ jobs[i].kind \notin Reloading /\ Held(i)
  BY <1>4 DEF Replaced, Replacing, AdminReplacing, Reloading, Held, HeldKinds
<1>10. page = "mine"
  BY <1>4 DEF PageInv, Shapes, JobShape, ListCall
<1>11. Answered(i, NoJob)
  BY <1>1, <1>2, <1>3, <1>4, <1>6, <1>7, <1>8, <1>9, <1>10 DEF Answered, Good
<1> QED
  BY <1>11, AnsweredKeeps

\* Every answer.
LEMMA AnswerStep ==
  ASSUME page \in Pages, PageInv, NEW i \in Slots, AnswerPage(i) \/ AnswerAdmin(i)
  PROVE  PageInv'
<1>1. CASE AnswerPage(i)
  BY <1>1, LoadAnswer, PublishAnswer, RefreshedAnswer, RemoveAnswer, ExportAnswer,
     CancelAnswer, CalendarAnswer, TypeAnswer, ReviewAnswer, ToggleAnswer, RateAnswer,
     ClaimAnswer, DiscountAnswer
  DEF AnswerPage
<1>2. CASE AnswerAdmin(i)
  BY <1>2, AdminReplaceAnswer, ReloadAnswer, CategoryAnswer, RollupAnswer
  DEF AnswerAdmin, AdminReplacing
<1> QED
  BY <1>1, <1>2

-----------------------------------------------------------------------------
(***************************************************************************)
(* The server: call i writes row t, if it writes one at all.               *)
(***************************************************************************)

Writes(i, t) ==
    /\ t \in RowsOf(page) /\ jobs[i].kind \in Acts
    /\ rows' = [rows EXCEPT ![t] = jobs[i].val]
    /\ jobs[i].kind \in RowActs => t = jobs[i].row /\ rows[t] \in Needs(jobs[i].kind)
    /\ jobs[i].kind = "create" => rows[t] = "none"
    /\ jobs[i].kind = "createCategory" => TableOf[t] = "categories" /\ rows[t] = "none"
    /\ jobs[i].kind = "setEventFeatured" => rows[t] # "none"
WritesNone(i) ==
    /\ rows' = rows
    /\ jobs[i].kind \in Acts =>
          \/ ~Accepted(jobs[i])
          \/ jobs[i].kind = "setEventFeatured" /\ rows[jobs[i].row] = "none"

\* There is a row left for a call that creates one.
LEMMA RoomLeft ==
  ASSUME page \in Pages, PageInv, NEW i \in Slots, jobs[i].res = "sent"
  PROVE  /\ jobs[i].kind = "create" => \E r \in DOMAIN rows : rows[r] = "none"
         /\ jobs[i].kind = "createCategory" =>
               \E r \in DOMAIN rows : rows[r] = "none" /\ TableOf[r] = "categories"
<1>1. ASSUME jobs[i].kind = "create" PROVE \E r \in DOMAIN rows : rows[r] = "none"
  <2>1. page = "types"
    BY <1>1 DEF PageInv, Shapes, JobShape, ListCall
  <2>2. /\ DOMAIN rows = 1 .. MaxClicks /\ MaxClicks \in Nat /\ clicks \in Nat
        /\ Cardinality(Created) \in Nat
    BY <2>1, CreatedFinite, PageRows, BoundsAssumption DEF PageInv, Typed
  <2>3. Cardinality(Created) < MaxClicks
    BY <1>1, <2>1, <2>2 DEF PageInv, Room
  <2>4. Cardinality(1 .. MaxClicks) = MaxClicks
    BY <2>2, FS_Interval
  <2>5. Created # DOMAIN rows
    BY <2>2, <2>3, <2>4
  <2> QED
    BY <2>5 DEF Created
<1>2. ASSUME jobs[i].kind = "createCategory" PROVE FreeCategories # {}
  <2>1. page = "admin"
    BY <1>2 DEF PageInv, Shapes, JobShape, AdminCall
  <2>2. i \in SentCategories
    BY <1>2 DEF SentCategories
  <2>3. Cardinality(SentCategories) # 0
    BY <2>2, CreatedFinite, FS_EmptySet DEF PageInv
  <2>4. Cardinality(FreeCategories) # 0
    BY <2>1, <2>3, CreatedFinite DEF PageInv, Room
  <2> QED
    BY <2>4, FS_EmptySet
<1> QED
  BY <1>1, <1>2 DEF FreeCategories

LEMMA ActKinds ==
  ASSUME page \in Pages, PageInv, NEW i \in Slots
  PROVE  /\ jobs[i].kind \in Acts => jobs[i].kind \in Kinds /\ jobs[i].val \in Values
         /\ jobs[i].kind \in RowActs => jobs[i].row \in RowsOf(page) /\ Held(i)
         /\ jobs[i].kind \in Acts => jobs[i].kind \in RowActs \cup {"create", "createCategory"}
         /\ jobs[i].kind \in Acts => jobs[i].kind \in Replacing \/ jobs[i].kind \in Reloading
         /\ jobs[i].kind \in Replacing => jobs[i].kind \in RowActs
<1>1. ListCall(page, jobs[i]) /\ AdminCall(page, jobs[i]) /\ jobs[i] \in Jobs
  BY DEF PageInv, Shapes, JobShape, Typed
<1>2. jobs[i].kind \in RowActs => jobs[i].row \in RowsOf(page)
  BY <1>1, PageRows DEF RowActs, Acts, ListCall, AdminCall
<1>3. jobs[i].kind \in RowActs => Held(i)
  BY DEF RowActs, Acts, Held, HeldKinds
<1>4. /\ jobs[i].kind \in Acts => jobs[i].kind \in RowActs \cup {"create", "createCategory"}
      /\ jobs[i].kind \in Acts => jobs[i].kind \in Replacing \/ jobs[i].kind \in Reloading
      /\ jobs[i].kind \in Replacing => jobs[i].kind \in RowActs
  BY DEF RowActs, Acts, Replacing, AdminReplacing, Reloading
<1> QED
  BY <1>1, <1>2, <1>3, <1>4 DEF Jobs

LEMMA Executes ==
  ASSUME page \in Pages, PageInv, NEW i \in Slots, jobs[i].res = "sent",
         rows' = Execute(jobs[i])
  PROVE  WritesNone(i) \/ \E t \in RowsOf(page) : Writes(i, t)
<1>1. DOMAIN rows = RowsOf(page) /\ RowsOf(page) \subseteq Nat
  BY CreatedFinite, RowNumbers DEF PageInv
<1>2. CASE rows' = rows /\ ~(/\ jobs[i].kind \in Acts /\ Accepted(jobs[i])
                             /\ ~(jobs[i].kind = "setEventFeatured"
                                    /\ rows[jobs[i].row] = "none"))
  BY <1>2 DEF WritesNone
<1>3. CASE /\ jobs[i].kind \in Acts /\ Accepted(jobs[i])
           /\ ~(jobs[i].kind = "setEventFeatured" /\ rows[jobs[i].row] = "none")
           /\ rows' = [rows EXCEPT ![Target(jobs[i])] = jobs[i].val]
  <2>1. PICK t : t = Target(jobs[i])
    OBVIOUS
  <2>2. rows[t] \in Needs(jobs[i].kind)
    BY <1>3, <2>1 DEF Accepted
  <2>3. CASE jobs[i].kind \in RowActs
    <3>1. t = jobs[i].row
      BY <2>1, <2>3 DEF Target, RowActs
    <3>2. t \in RowsOf(page)
      BY <2>3, <3>1, ActKinds
    <3>3. jobs[i].kind # "create" /\ jobs[i].kind # "createCategory"
      BY <2>3 DEF RowActs
    <3>4. Writes(i, t)
      BY <1>3, <2>1, <2>2, <3>1, <3>2, <3>3 DEF Writes
    <3> QED
      BY <3>2, <3>4
  <2>4. CASE jobs[i].kind = "create"
    <3>1. PICK S : S = {r \in DOMAIN rows : rows[r] = "none"}
      OBVIOUS
    <3>2. S # {} /\ S \subseteq Nat
      BY <1>1, <2>4, <3>1, RoomLeft
    <3>3. t = Min(S)
      BY <2>1, <2>4, <3>1 DEF Target
    <3>4. t \in RowsOf(page) /\ rows[t] = "none"
      BY <1>1, <3>1, <3>2, <3>3, MinInSet
    <3>5. Writes(i, t)
      BY <1>3, <2>1, <2>4, <3>4 DEF Writes, RowActs
    <3> QED
      BY <3>4, <3>5
  <2>5. CASE jobs[i].kind = "createCategory"
    <3>1. PICK S : S = {r \in DOMAIN rows : rows[r] = "none" /\ TableOf[r] = "categories"}
      OBVIOUS
    <3>2. S # {} /\ S \subseteq Nat
      BY <1>1, <2>5, <3>1, RoomLeft
    <3>3. t = Min(S)
      BY <2>1, <2>5, <3>1 DEF Target
    <3>4. t \in RowsOf(page) /\ rows[t] = "none" /\ TableOf[t] = "categories"
      BY <1>1, <3>1, <3>2, <3>3, MinInSet
    <3>5. Writes(i, t)
      BY <1>3, <2>1, <2>5, <3>4 DEF Writes, RowActs
    <3> QED
      BY <3>4, <3>5
  <2> QED
    BY <1>3, <2>3, <2>4, <2>5, ActKinds
<1> QED
  BY <1>2, <1>3 DEF Execute

\* What a row can become.
LEMMA WrittenRow ==
  ASSUME page \in Pages, PageInv, NEW i \in Slots, NEW t \in RowsOf(page), Writes(i, t)
  PROVE  /\ RowsTyped(page, rows')
         /\ \A r \in RowsOf(page) : rows'[r] = IF r = t THEN jobs[i].val ELSE rows[r]
         /\ page = "types" => jobs[i].kind = "create"
         /\ page = "admin" =>
               /\ TableOf[t] \in Lasting /\ rows[t] # "none" => rows'[t] # "none"
               /\ TableOf[t] # "categories" /\ rows[t] = "none" => rows'[t] = "none"
               /\ TableOf[t] = "categories" =>
                     jobs[i].kind \in {"createCategory", "deleteCategory"}
<1>1. ListCall(page, jobs[i]) /\ AdminCall(page, jobs[i]) /\ jobs[i].val \in Values
  BY DEF PageInv, Shapes, JobShape, Typed, Jobs
<1>2. RowsTyped(page, rows) /\ rows \in [RowsOf(page) -> Values]
  BY DEF PageInv, Typed, RowsTyped
<1>3. /\ rows' \in [RowsOf(page) -> Values]
      /\ \A r \in RowsOf(page) : rows'[r] = IF r = t THEN jobs[i].val ELSE rows[r]
  BY <1>1, <1>2 DEF Writes
<1>4. jobs[i].kind \in Acts /\ (jobs[i].kind \in RowActs => t = jobs[i].row)
  BY DEF Writes
<1>5. /\ page = "mine" => jobs[i].val \in {"draft", "published"}
      /\ page \in {"attendees", "tickets"} => jobs[i].val \in {"confirmed", "cancelled"}
      /\ page = "types" => jobs[i].val \in {"none", "there"}
      /\ page \in {"reviews", "rate"} => jobs[i].val \in {"none", "first", "second"}
      /\ page = "toggle" => jobs[i].val \in {"off", "on"}
      /\ page = "claim" => jobs[i].val \in {"free", "mine", "other"}
      /\ page # "discount"
      /\ page = "types" => jobs[i].kind = "create"
  BY <1>1, <1>4 DEF Acts, ListCall, AdminCall
<1>6. ASSUME page = "admin"
      PROVE  /\ TableOf[t] = "events" => jobs[i].val \in {"none", "plain", "featured"}
             /\ TableOf[t] = "users" => jobs[i].val \in {"active", "suspended"}
             /\ TableOf[t] = "categories" => jobs[i].val \in {"none", "there"}
             /\ TableOf[t] = "reviews" => jobs[i].val \in {"published", "hidden"}
             /\ TableOf[t] = "categories" =>
                   jobs[i].kind \in {"createCategory", "deleteCategory"}
             /\ TableOf[t] # "categories" => jobs[i].kind = "deleteEvent"
                                             \/ jobs[i].kind \in AdminReplacing
  <2>1. CASE jobs[i].kind \in RowActs
    <3>1. jobs[i].kind \in {"deleteEvent", "setEventFeatured", "setUserSuspended",
                            "deleteCategory", "setReviewHidden"}
      BY <1>1, <1>6, <2>1 DEF RowActs, Acts, ListCall
    <3>2. t = jobs[i].row
      BY <1>4, <2>1
    <3> QED
      BY <1>1, <3>1, <3>2 DEF AdminCall, AdminReplacing
  <2>2. CASE jobs[i].kind = "createCategory"
    BY <1>1, <2>2 DEF AdminCall, Writes
  <2>3. jobs[i].kind # "create"
    BY <1>1, <1>6 DEF ListCall
  <2> QED
    BY <1>4, <2>1, <2>2, <2>3, ActKinds
<1>7. RowsTyped(page, rows')
  BY <1>2, <1>3, <1>5, <1>6 DEF RowsTyped
<1>8. ASSUME page = "admin", TableOf[t] # "categories", rows[t] = "none"
      PROVE  jobs[i].val = "none"
  <2>1. jobs[i].kind = "deleteEvent" \/ jobs[i].kind \in AdminReplacing
    BY <1>6, <1>8
  <2>2. CASE jobs[i].kind = "deleteEvent"
    BY <1>1, <2>2 DEF AdminCall
  <2>3. CASE jobs[i].kind \in AdminReplacing
    <3>1. t = jobs[i].row
      BY <1>4, <2>3 DEF AdminReplacing, RowActs, Acts
    <3>2. jobs[i].kind # "setEventFeatured"
      BY <1>8 DEF Writes
    <3>3. TableOf[t] \in Lasting
      BY <1>8, <2>3, <3>1, <3>2, ReplacedRow DEF Replacing
    <3> QED
      BY <1>8, <2>3, <3>1, <3>3 DEF PageInv, Tables
  <2> QED
    BY <2>1, <2>2, <2>3
<1>9. page = "admin" /\ TableOf[t] \in Lasting => jobs[i].val # "none"
  BY <1>6 DEF Lasting
<1> QED
  BY <1>3, <1>5, <1>6, <1>7, <1>8, <1>9

\* A call that the server has executed, or that has failed.
Ran(i, res) ==
    /\ i \in Slots /\ jobs[i].res = "sent" /\ res \in {"ok", "bad"}
    /\ jobs' = [jobs EXCEPT ![i].res = res]
    /\ rows' = rows \/ \E t \in RowsOf(page) : Writes(i, t)
    /\ UNCHANGED <<page, token, gen, ui, clicks, hist>>
    /\ faults' \in Nat /\ (faults > 0 => faults' > 0)
    /\ res = "bad" => Explained' /\ (rows' = rows \/ faults' > 0)
    /\ jobs[i].kind \in {"load", "reload"} => res = "bad" /\ faults' > 0
    /\ faults' = 0 /\ res = "ok" /\ jobs[i].kind \in Acts =>
          \/ \E t \in RowsOf(page) : Writes(i, t)
          \/ rows' = rows /\ jobs[i].kind = "setEventFeatured" /\ rows[jobs[i].row] = "none"

LEMMA RanSlots ==
  ASSUME page \in Pages, PageInv, NEW i, NEW res, Ran(i, res)
  PROVE  /\ jobs' \in [Slots -> Jobs] /\ i \in Slots
         /\ jobs'[i].kind = jobs[i].kind /\ jobs'[i].row = jobs[i].row
         /\ jobs'[i].val = jobs[i].val /\ jobs'[i].snap = jobs[i].snap /\ jobs'[i].res = res
         /\ \A j \in Slots \ {i} : jobs'[j] = jobs[j]
         /\ \A j \in Slots : /\ jobs'[j].kind = jobs[j].kind /\ jobs'[j].row = jobs[j].row
                             /\ jobs'[j].val = jobs[j].val /\ jobs'[j].snap = jobs[j].snap
<1>1. PICK job : job = [jobs[i] EXCEPT !.res = res]
  OBVIOUS
<1>2. jobs[i] \in Jobs /\ res \in {"none", "sent", "ok", "bad"} /\ jobs[i].snap \in Snaps
  BY DEF PageInv, Typed, Jobs, Ran
<1>3. /\ job \in Jobs /\ job.kind = jobs[i].kind /\ job.row = jobs[i].row
      /\ job.val = jobs[i].val /\ job.snap = jobs[i].snap /\ job.res = res
  BY <1>1, <1>2 DEF Jobs
<1>4. jobs' = [jobs EXCEPT ![i] = job] /\ i \in Slots /\ jobs \in [Slots -> Jobs]
  BY <1>1 DEF Ran, PageInv, Typed
<1>5. /\ jobs' \in [Slots -> Jobs] /\ jobs'[i] = job
      /\ \A j \in Slots \ {i} : jobs'[j] = jobs[j]
  BY <1>3, <1>4, OverwriteSlot
<1> QED
  BY <1>3, <1>4, <1>5

LEMMA RanRows ==
  ASSUME page \in Pages, PageInv, NEW i, NEW res, Ran(i, res)
  PROVE  /\ RowsTyped(page, rows')
         /\ page = "admin" => \A r \in RowsOf(page) :
               /\ TableOf[r] \in Lasting /\ rows[r] # "none" => rows'[r] # "none"
               /\ TableOf[r] # "categories" /\ rows[r] = "none" => rows'[r] = "none"
<1>1. RowsTyped(page, rows)
  BY DEF PageInv, Typed
<1> QED
  BY <1>1, WrittenRow DEF Ran

LEMMA RanTyped ==
  ASSUME page \in Pages, PageInv, NEW i, NEW res, Ran(i, res)
  PROVE  Typed' /\ Shapes'
<1>1. Typed'
  BY RanSlots, RanRows DEF PageInv, Typed, Ran
<1>2. ASSUME NEW j \in Slots PROVE JobShape(page, jobs'[j])
  <2>1. JobShape(page, jobs[j])
    BY DEF PageInv, Shapes
  <2>2. CASE j # i
    BY <2>1, <2>2, RanSlots
  <2>3. CASE j = i
    <3>1. /\ ListCall(page, jobs'[i]) /\ AdminCall(page, jobs'[i])
      BY <2>1, <2>3, RanSlots DEF JobShape, ListCall, AdminCall
    <3>2. jobs[i].kind # "none"
      BY <2>1, <2>3 DEF JobShape, Ran
    <3> QED
      BY <2>1, <2>3, <3>1, <3>2, RanSlots DEF JobShape, Ran
  <2> QED
    BY <2>2, <2>3
<1> QED
  BY <1>1, <1>2 DEF Shapes, Ran

LEMMA RanRoom ==
  ASSUME page \in Pages, PageInv, NEW i, NEW res, Ran(i, res)
  PROVE  Room'
<1>0. /\ i \in Slots /\ page' = page /\ clicks' = clicks /\ clicks \in Nat
      /\ DOMAIN rows = RowsOf(page) /\ DOMAIN rows' = RowsOf(page)
      /\ IsFiniteSet(Created) /\ IsFiniteSet(FreeCategories) /\ IsFiniteSet(SentCategories)
      /\ Cardinality(Created) \in Nat /\ Cardinality(FreeCategories) \in Nat
      /\ Cardinality(SentCategories) \in Nat
  BY CreatedFinite, RanRows DEF PageInv, Typed, Ran, RowsTyped
<1>1. ASSUME page = "types"
      PROVE  /\ Cardinality(Created') <= clicks
             /\ \A j \in Slots : jobs'[j].kind = "create" /\ jobs'[j].res = "sent"
                                    => Cardinality(Created') < clicks
  <2>1. CASE rows' = rows
    <3>1. Created' = Created
      BY <2>1 DEF Created
    <3>2. res # "sent" /\ jobs'[i].res = res
      BY RanSlots DEF Ran
    <3>3. \A j \in Slots : jobs'[j].res = "sent" => j # i /\ jobs'[j] = jobs[j]
      BY <3>2, RanSlots
    <3> QED
      BY <1>1, <3>1, <3>3 DEF PageInv, Room
  <2>2. ASSUME NEW t \in RowsOf(page), Writes(i, t)
        PROVE  /\ Cardinality(Created') <= clicks
               /\ \A j \in Slots : jobs'[j].kind = "create" => jobs'[j].res # "sent"
    <3>1. /\ jobs[i].kind = "create"
          /\ \A r \in RowsOf(page) : rows'[r] = IF r = t THEN jobs[i].val ELSE rows[r]
      BY <1>0, <1>1, <2>2, WrittenRow
    <3>2. Cardinality(Created) < clicks
      BY <1>0, <1>1, <3>1 DEF PageInv, Room, Ran
    <3>3. Created' \subseteq Created \cup {t}
      BY <1>0, <3>1 DEF Created
    <3>4. /\ IsFiniteSet(Created \cup {t})
          /\ Cardinality(Created \cup {t}) <= Cardinality(Created) + 1
      <4>1. IsFiniteSet(Created \cup {t})
        BY <1>0, FS_AddElement
      <4>2. Cardinality(Created \cup {t}) =
              IF t \in Created THEN Cardinality(Created) ELSE Cardinality(Created) + 1
        BY <1>0, FS_AddElement
      <4> QED
        BY <1>0, <4>1, <4>2
    <3>5. Cardinality(Created') <= Cardinality(Created) + 1 /\ Cardinality(Created') \in Nat
      <4>1. IsFiniteSet(Created') /\ Cardinality(Created') <= Cardinality(Created \cup {t})
        BY <3>3, <3>4, FS_Subset
      <4>2. Cardinality(Created') \in Nat /\ Cardinality(Created \cup {t}) \in Nat
        BY <3>4, <4>1, FS_CardinalityType
      <4> QED
        BY <1>0, <3>4, <4>1, <4>2
    <3>6. ASSUME NEW j \in Slots, jobs'[j].kind = "create" PROVE jobs'[j].res # "sent"
      <4>1. Held(j) /\ Held(i) /\ ~hist.released
        BY <1>1, <3>1, <3>6, RanSlots DEF Held, HeldKinds, PageInv, OneHeld
      <4>2. j = i
        BY <1>0, <4>1 DEF PageInv, OneHeld
      <4> QED
        BY <4>2, RanSlots DEF Ran
    <3> QED
      BY <1>0, <3>2, <3>5, <3>6
  <2> QED
    BY <2>1, <2>2 DEF Ran
<1>2. ASSUME page = "admin" PROVE Cardinality(SentCategories') <= Cardinality(FreeCategories')
  <2>1. /\ IsFiniteSet(FreeCategories') /\ IsFiniteSet(SentCategories')
        /\ Cardinality(FreeCategories') \in Nat /\ Cardinality(SentCategories') \in Nat
    <3>1. FreeCategories' \subseteq RowsOf(page) /\ SentCategories' \subseteq Slots
      BY <1>0 DEF FreeCategories, SentCategories, Slots
    <3> QED
      BY <3>1, SlotsFinite, RowNumbers, FS_Subset, FS_CardinalityType
  <2>2. Cardinality(SentCategories) <= Cardinality(FreeCategories)
    BY <1>2 DEF PageInv, Room
  <2>3. SentCategories' = SentCategories \ {i}
    BY RanSlots DEF SentCategories, Ran, Slots
  <2>4. CASE FreeCategories \subseteq FreeCategories'
    <3>1. Cardinality(FreeCategories) <= Cardinality(FreeCategories')
      BY <2>1, <2>4, FS_Subset
    <3>2. Cardinality(SentCategories') <= Cardinality(SentCategories)
      BY <1>0, <2>3, FS_Subset
    <3> QED
      BY <1>0, <2>1, <2>2, <3>1, <3>2
  <2>5. ASSUME NEW t \in RowsOf(page), Writes(i, t), jobs[i].kind = "createCategory"
        PROVE  Cardinality(SentCategories') <= Cardinality(FreeCategories')
    <3>1. FreeCategories \ {t} \subseteq FreeCategories'
      BY <1>0, <2>5, WrittenRow DEF FreeCategories
    <3>2. i \in SentCategories /\ t \in FreeCategories
      BY <1>0, <2>5 DEF SentCategories, FreeCategories, Ran, Writes
    <3>3. Cardinality(SentCategories') = Cardinality(SentCategories) - 1
      BY <1>0, <2>3, <3>2, FS_RemoveElement
    <3>4. Cardinality(FreeCategories \ {t}) = Cardinality(FreeCategories) - 1
      BY <1>0, <3>2, FS_RemoveElement
    <3>5. Cardinality(FreeCategories \ {t}) <= Cardinality(FreeCategories')
      BY <2>1, <3>1, FS_Subset
    <3> QED
      BY <1>0, <2>1, <2>2, <3>3, <3>4, <3>5
  <2>6. ASSUME NEW t \in RowsOf(page), Writes(i, t), jobs[i].kind # "createCategory"
        PROVE  FreeCategories \subseteq FreeCategories'
    <3>1. /\ \A r \in RowsOf(page) : rows'[r] = IF r = t THEN jobs[i].val ELSE rows[r]
          /\ TableOf[t] = "categories" => jobs[i].kind = "deleteCategory"
      BY <1>0, <1>2, <2>6, WrittenRow
    <3>2. jobs[i].kind = "deleteCategory" => jobs[i].val = "none"
      BY <1>0 DEF PageInv, Shapes, JobShape, AdminCall
    <3> QED
      BY <1>0, <3>1, <3>2 DEF FreeCategories
  <2>7. CASE rows' = rows
    <3>1. FreeCategories' = FreeCategories
      BY <2>7 DEF FreeCategories
    <3> QED
      BY <2>4, <3>1
  <2> QED
    BY <2>4, <2>5, <2>6, <2>7 DEF Ran
<1>3. page = "types" => clicks <= MaxClicks
  BY DEF PageInv, Room
<1> QED
  BY <1>0, <1>1, <1>2, <1>3 DEF Room

LEMMA RanErrors ==
  ASSUME page \in Pages, PageInv, NEW i, NEW res, Ran(i, res)
  PROVE  Errors'
<1>1. /\ UNCHANGED <<page, ui, hist>> /\ i \in Slots /\ res \in {"ok", "bad"}
      /\ res = "bad" => Explained'
  BY DEF Ran
<1>2. Explained => Explained'
  BY DEF Explained, Ran, PageInv, Typed
<1>3. ui'.error => Explained'
  BY <1>1, <1>2 DEF PageInv, Errors
<1>4. \A j \in Slots : jobs'[j].res = "bad" => Explained'
  <2> SUFFICES ASSUME NEW j \in Slots, jobs'[j].res = "bad" PROVE Explained'
    OBVIOUS
  <2>1. CASE j = i
    BY <1>1, <2>1, RanSlots
  <2>2. CASE j # i
    BY <1>2, <2>2, RanSlots DEF PageInv, Errors
  <2> QED
    BY <2>1, <2>2
<1>5. ASSUME ~Explained', NEW j \in Slots, jobs'[j].kind \in RowActs, jobs'[j].res = "sent"
      PROVE  rows'[jobs'[j].row] \in Needs(jobs'[j].kind)
  <2>1. j # i /\ jobs'[j] = jobs[j]
    BY <1>1, <1>5, RanSlots
  <2>2. jobs[j].row \in RowsOf(page) /\ Held(j)
    BY <1>5, <2>1, ActKinds
  <2>3. rows[jobs[j].row] \in Needs(jobs[j].kind)
    BY <1>2, <1>5, <2>1 DEF PageInv, Errors
  <2>4. ~hist.released
    BY <1>1, <1>5 DEF Explained
  <2>5. ~Held(i)
    BY <1>1, <2>1, <2>2, <2>4 DEF PageInv, OneHeld
  <2>6. ASSUME NEW t \in RowsOf(page), Writes(i, t) PROVE rows'[jobs[j].row] = rows[jobs[j].row]
    <3>1. jobs[i].kind = "createCategory"
      BY <1>1, <2>5, <2>6, ActKinds DEF Writes, Held, HeldKinds
    <3>2. TableOf[t] = "categories" /\ rows[t] = "none"
      BY <2>6, <3>1 DEF Writes
    <3>3. page = "admin" /\ AdminCall(page, jobs[j]) /\ ListCall(page, jobs[j])
      BY <1>1, <3>1 DEF PageInv, Shapes, JobShape, AdminCall
    <3>4. TableOf[jobs[j].row] = "categories" => jobs[j].kind = "deleteCategory"
      BY <1>5, <2>1, <3>3 DEF RowActs, Acts, AdminCall, ListCall
    <3>5. jobs[j].row # t
      BY <2>3, <3>2, <3>4 DEF Needs
    <3> QED
      BY <1>1, <2>2, <2>6, <3>5, WrittenRow
  <2> QED
    BY <2>1, <2>3, <2>6 DEF Ran
<1> QED
  BY <1>3, <1>4, <1>5, <1>1 DEF Errors

LEMMA RanTables ==
  ASSUME page \in Pages, PageInv, NEW i, NEW res, Ran(i, res)
  PROVE  Tables'
<1>0. UNCHANGED <<page, ui>>
  BY DEF Ran
<1> SUFFICES ASSUME page = "admin", NEW r \in RowsOf(page)
             PROVE  /\ TableOf[r] \in Lasting /\ ui.copy[r] # "none" => rows'[r] # "none"
                    /\ \A j \in Slots : r \in DOMAIN jobs[j].snap =>
                          /\ TableOf[r] \in Lasting /\ jobs[j].snap[r] # "none"
                                => rows'[r] # "none"
                          /\ TableOf[r] # "categories" /\ jobs[j].snap[r] = "none"
                                => rows'[r] = "none"
                    /\ \A j \in Slots : jobs[j].kind \in AdminReplacing /\ jobs[j].row = r =>
                          /\ TableOf[r] \in Lasting => rows'[r] # "none"
                          /\ ui.copy[r] = "none" => rows'[r] = "none"
  BY <1>0, RanSlots DEF Tables
<1>1. /\ TableOf[r] \in Lasting /\ rows[r] # "none" => rows'[r] # "none"
      /\ TableOf[r] # "categories" /\ rows[r] = "none" => rows'[r] = "none"
  BY RanRows
<1>2. \A j \in Slots : jobs[j].kind \in AdminReplacing /\ jobs[j].row = r
                          => TableOf[r] # "categories"
  BY ReplacedRow DEF Replacing
<1> QED
  BY <1>1, <1>2 DEF PageInv, Tables

LEMMA RanShown ==
  ASSUME page \in Pages, PageInv, NEW i, NEW res, Ran(i, res)
  PROVE  Shown'
<1>0. /\ UNCHANGED <<page, token, ui, hist>> /\ i \in Slots /\ res \in {"ok", "bad"}
      /\ faults \in Nat /\ jobs[i].res = "sent"
  BY DEF Ran, PageInv, Typed
<1> SUFFICES ASSUME InOrder' PROVE
         /\ \A j \in Loads' : jobs'[j].res # "bad"
         /\ \A j \in Slots : jobs'[j].kind \in Replacing /\ jobs'[j].res = "ok" =>
               \/ rows'[jobs'[j].row] = jobs'[j].val
               \/ jobs'[j].kind = "setEventFeatured" /\ rows'[jobs'[j].row] = "none"
         /\ (token # 0 \/ page \in {"reviews", "discount"}) /\ ~hist.outrun /\ Loads' = {} =>
               \A r \in RowsOf(page) : ui.copy[r] = rows'[r] \/ \E j \in Slots : Covers(j, r)'
  BY <1>0 DEF Shown
<1>1. InOrder /\ faults' = 0 /\ (page = "admin" => ~hist.released)
  BY <1>0 DEF InOrder, Ran
<1>2. Loads' = Loads /\ jobs[i].kind \notin {"load", "reload"}
  BY <1>1, RanSlots DEF Loads, Slots, Ran
<1>3. \A j \in Loads : jobs'[j].res # "bad"
  BY <1>1, <1>2, RanSlots DEF PageInv, Shown, Loads
<1>4. ASSUME NEW j \in Slots, jobs[j].kind \in Replacing, jobs'[j].res = "ok"
      PROVE  \/ rows'[jobs[j].row] = jobs[j].val
             \/ jobs[j].kind = "setEventFeatured" /\ rows'[jobs[j].row] = "none"
  <2>1. jobs[j].row \in RowsOf(page) /\ Held(j) /\ jobs[j].kind \in RowActs
    BY <1>4, ReplacedRow, ActKinds
  <2>2. CASE j = i
    <3>1. res = "ok" /\ jobs[i].kind \in Acts
      BY <1>4, <2>1, <2>2, RanSlots DEF RowActs
    <3>2. CASE rows' = rows /\ jobs[i].kind = "setEventFeatured" /\ rows[jobs[i].row] = "none"
      BY <2>2, <3>2
    <3>3. ASSUME NEW t \in RowsOf(page), Writes(i, t) PROVE rows'[jobs[j].row] = jobs[j].val
      <4>1. t = jobs[j].row
        BY <2>1, <2>2, <3>3 DEF Writes
      <4> QED
        BY <2>2, <3>3, <4>1, WrittenRow
    <3> QED
      BY <1>1, <3>1, <3>2, <3>3 DEF Ran
  <2>3. CASE j # i
    <3>1. \/ rows[jobs[j].row] = jobs[j].val
          \/ jobs[j].kind = "setEventFeatured" /\ rows[jobs[j].row] = "none"
      BY <1>1, <1>4, <2>3, RanSlots DEF PageInv, Shown
    <3>2. ASSUME NEW t \in RowsOf(page), Writes(i, t), t = jobs[j].row
          PROVE  jobs[i].val = jobs[j].val
      <4>1. CASE ~hist.released
        <5>1. ~Held(i)
          BY <1>0, <2>1, <2>3, <4>1 DEF PageInv, OneHeld
        <5>2. jobs[i].kind = "createCategory"
          BY <1>0, <3>2, <5>1, ActKinds DEF Writes, Held, HeldKinds
        <5>3. page = "admin" /\ TableOf[t] = "categories"
          BY <1>0, <3>2, <5>2 DEF Writes, PageInv, Shapes, JobShape, AdminCall
        <5> QED
          BY <1>4, <3>2, <5>3, ReplacedRow
      <4>2. CASE hist.released
        <5>1. page \in {"attendees", "tickets"}
          BY <1>1, <4>2 DEF PageInv, OneHeld
        <5>2. ListCall(page, jobs[i]) /\ AdminCall(page, jobs[i])
              /\ ListCall(page, jobs[j]) /\ AdminCall(page, jobs[j])
          BY <1>0 DEF PageInv, Shapes, JobShape
        <5>3. jobs[i].val = "cancelled"
          BY <3>2, <5>1, <5>2 DEF Writes, Acts, ListCall, AdminCall
        <5>4. jobs[j].val = "cancelled"
          BY <2>1, <5>1, <5>2 DEF RowActs, Acts, ListCall, AdminCall
        <5> QED
          BY <5>3, <5>4
      <4> QED
        BY <4>1, <4>2
    <3>3. ASSUME NEW t \in RowsOf(page), Writes(i, t)
          PROVE  \/ rows'[jobs[j].row] = jobs[j].val
                 \/ jobs[j].kind = "setEventFeatured" /\ rows'[jobs[j].row] = "none"
      <4>1. rows'[jobs[j].row] = IF jobs[j].row = t THEN jobs[i].val ELSE rows[jobs[j].row]
        BY <1>0, <2>1, <3>3, WrittenRow
      <4> QED
        BY <3>1, <3>2, <3>3, <4>1
    <3> QED
      BY <3>1, <3>3 DEF Ran
  <2> QED
    BY <2>2, <2>3
<1>5. ASSUME token # 0 \/ page \in {"reviews", "discount"}, ~hist.outrun, Loads = {},
             NEW r \in RowsOf(page)
      PROVE  ui.copy[r] = rows'[r] \/ \E j \in Slots : Covers(j, r)'
  <2>1. ui.copy[r] = rows[r] \/ \E j \in Slots : Covers(j, r)
    BY <1>1, <1>5 DEF PageInv, Shown
  <2>2. CASE rows'[r] = rows[r]
    <3>1. ASSUME NEW j \in Slots, Covers(j, r) PROVE Covers(j, r)'
      <4>1. j # i
        BY <1>0, <3>1 DEF Covers
      <4> QED
        BY <2>2, <3>1, <4>1, RanSlots DEF Covers
    <3> QED
      BY <2>1, <2>2, <3>1
  <2>3. CASE rows'[r] # rows[r]
    <3>1. PICK t \in RowsOf(page) : Writes(i, t)
      BY <2>3 DEF Ran
    <3>2. t = r /\ rows'[r] = jobs[i].val
      BY <1>0, <2>3, <3>1, WrittenRow
    <3>3. jobs[i].kind \in Acts /\ (jobs[i].kind \in RowActs => jobs[i].row = r)
      BY <3>1, <3>2 DEF Writes
    <3>4. CASE res = "ok"
      <4>1. jobs[i].kind \in Reloading \/ (jobs[i].kind \in Replacing /\ jobs[i].row = r)
        BY <1>0, <3>3, ActKinds
      <4>2. Covers(i, r)'
        BY <3>2, <3>4, <4>1, RanSlots DEF Covers
      <4> QED
        BY <1>0, <4>2
    <3>5. CASE res = "bad"
      BY <1>1, <2>3, <3>5 DEF Ran
    <3> QED
      BY <1>0, <3>4, <3>5
  <2> QED
    BY <2>2, <2>3
<1> QED
  BY <1>0, <1>2, <1>3, <1>4, <1>5, RanSlots

LEMMA RanKeeps ==
  ASSUME page \in Pages, PageInv, NEW i, NEW res, Ran(i, res)
  PROVE  PageInv'
<1>1. OneHeld' /\ CheckIsForTheCode' /\ NoticeIsForTheCode'
  <2>1. UNCHANGED <<page, ui, hist>>
    BY DEF Ran
  <2>2. OneHeld'
    BY <2>1, RanSlots DEF PageInv, OneHeld, Held
  <2>3. CheckIsForTheCode' /\ NoticeIsForTheCode'
    BY <2>1, RanSlots DEF PageInv, CheckIsForTheCode, NoticeIsForTheCode
  <2> QED
    BY <2>2, <2>3
<1> QED
  BY <1>1, RanTyped, RanRoom, RanErrors, RanTables, RanShown DEF PageInv

LEMMA ServeStep ==
  ASSUME page \in Pages, PageInv, NEW i \in Slots, Serve(i)
  PROVE  PageInv'
<1>1. /\ jobs[i].kind \notin {"load", "reload"} /\ jobs[i].res = "sent"
      /\ rows' = Execute(jobs[i]) /\ UNCHANGED <<page, token, gen, ui, clicks, faults, hist>>
  BY DEF Serve
<1>2. PICK res \in {"ok", "bad"} :
        res = IF Accepted(jobs[i]) /\ ~(jobs[i].kind = "check" /\ jobs[i].val = "second")
              THEN "ok" ELSE "bad"
  OBVIOUS
<1>3. jobs' = [jobs EXCEPT ![i].res = res]
  BY <1>2 DEF Serve
<1>4. WritesNone(i) \/ \E t \in RowsOf(page) : Writes(i, t)
  BY <1>1, Executes
<1>5. jobs[i].kind \in Acts /\ ~Accepted(jobs[i]) => rows' = rows /\ Explained
  <2> SUFFICES ASSUME jobs[i].kind \in Acts, ~Accepted(jobs[i]) PROVE rows' = rows /\ Explained
    OBVIOUS
  <2>1. rows' = rows
    BY <1>1 DEF Execute
  <2>2. CASE jobs[i].kind \in RowActs
    <3>1. Target(jobs[i]) = jobs[i].row
      BY <2>2 DEF Target, RowActs
    <3> QED
      BY <1>1, <2>1, <2>2, <3>1 DEF Accepted, PageInv, Errors
  <2>3. CASE jobs[i].kind \in {"create", "createCategory"}
    <3>1. DOMAIN rows \subseteq Nat
      BY CreatedFinite, RowNumbers DEF PageInv
    <3>2. CASE jobs[i].kind = "create"
      <4>1. PICK S : S = {r \in DOMAIN rows : rows[r] = "none"}
        OBVIOUS
      <4>2. S # {} /\ S \subseteq Nat
        BY <1>1, <3>1, <3>2, <4>1, RoomLeft
      <4>3. Target(jobs[i]) = Min(S)
        BY <3>2, <4>1 DEF Target
      <4>4. rows[Target(jobs[i])] = "none"
        BY <4>1, <4>2, <4>3, MinInSet
      <4> QED
        BY <3>2, <4>4 DEF Accepted, Needs
    <3>3. CASE jobs[i].kind = "createCategory"
      <4>1. PICK S : S = {r \in DOMAIN rows : rows[r] = "none" /\ TableOf[r] = "categories"}
        OBVIOUS
      <4>2. S # {} /\ S \subseteq Nat
        BY <1>1, <3>1, <3>3, <4>1, RoomLeft
      <4>3. Target(jobs[i]) = Min(S)
        BY <3>3, <4>1 DEF Target
      <4>4. rows[Target(jobs[i])] = "none"
        BY <4>1, <4>2, <4>3, MinInSet
      <4> QED
        BY <3>3, <4>4 DEF Accepted, Needs
    <3> QED
      BY <2>3, <3>2, <3>3
  <2> QED
    BY <2>2, <2>3, ActKinds
<1>6. res = "bad" => Explained /\ rows' = rows
  <2>1. CASE jobs[i].kind = "check"
    <3>1. page = "discount"
      BY <2>1 DEF PageInv, Shapes, JobShape, ListCall
    <3>2. rows' = rows
      BY <1>1, <2>1 DEF Execute, Acts
    <3> QED
      BY <3>1, <3>2 DEF Explained
  <2>2. CASE jobs[i].kind # "check"
    BY <1>2, <1>5, <2>2 DEF Accepted
  <2> QED
    BY <2>1, <2>2
<1>7. Explained' = Explained
  BY <1>1 DEF Explained
<1>8. res = "ok" => Accepted(jobs[i])
  BY <1>2
<1>9. rows' = rows \/ \E t \in RowsOf(page) : Writes(i, t)
  BY <1>4 DEF WritesNone
<1>10. res = "ok" /\ jobs[i].kind \in Acts =>
         \/ \E t \in RowsOf(page) : Writes(i, t)
         \/ rows' = rows /\ jobs[i].kind = "setEventFeatured" /\ rows[jobs[i].row] = "none"
  BY <1>4, <1>8 DEF WritesNone
<1>11. faults \in Nat
  BY DEF PageInv, Typed
<1>12. Ran(i, res)
  BY <1>1, <1>3, <1>6, <1>7, <1>9, <1>10, <1>11 DEF Ran
<1> QED
  BY <1>12, RanKeeps

LEMMA FailStep ==
  ASSUME page \in Pages, PageInv, NEW i \in Slots, NEW executed \in BOOLEAN, Fail(i, executed)
  PROVE  PageInv'
<1>1. /\ jobs[i].res = "sent" /\ jobs' = [jobs EXCEPT ![i].res = "bad"]
      /\ UNCHANGED <<page, token, gen, ui, clicks, hist>>
  BY DEF Fail
<1>2. faults' \in Nat /\ faults' > 0
  BY DEF Fail, PageInv, Typed
<1>3. rows' = rows \/ \E t \in RowsOf(page) : Writes(i, t)
  BY <1>1, Executes DEF Fail, WritesNone
<1>4. Explained'
  BY <1>2 DEF Explained
<1>5. PICK res : res = "bad"
  OBVIOUS
<1>6. Ran(i, res)
  BY <1>1, <1>2, <1>3, <1>4, <1>5 DEF Ran
<1> QED
  BY <1>6, RanKeeps

-----------------------------------------------------------------------------
(* Loads: part of a list is read, and one is started for a new token *)

LEMMA ReadStep ==
  ASSUME page \in Pages, PageInv, NEW i \in Slots, NEW part \in Parts, Read(i, part)
  PROVE  PageInv'
<1>1. PICK snap : snap = [r \in part \cup DOMAIN jobs[i].snap |->
                            IF r \in part THEN rows[r] ELSE jobs[i].snap[r]]
  OBVIOUS
<1>2. PICK res \in {"sent", "ok"} : res = IF DOMAIN snap = DOMAIN rows THEN "ok" ELSE "sent"
  OBVIOUS
<1>3. PICK job : job = [jobs[i] EXCEPT !.snap = snap, !.res = res]
  OBVIOUS
<1>4. /\ jobs[i].kind \in {"load", "reload"} /\ jobs[i].res = "sent"
      /\ UNCHANGED <<page, token, gen, rows, ui, clicks, faults, hist>>
      /\ jobs' = [jobs EXCEPT ![i].snap = snap, ![i].res = res]
  BY <1>1, <1>2 DEF Read
<1>5. jobs' = [jobs EXCEPT ![i] = job]
  BY <1>3, <1>4 DEF PageInv, Typed
<1>6. /\ DOMAIN rows = RowsOf(page) /\ RowsOf(page) \subseteq Nat
      /\ \A r \in RowsOf(page) : rows[r] \in Values
  BY RowNumbers DEF PageInv, Typed, RowsTyped
<1>7. part \subseteq RowsOf(page)
  BY <1>6 DEF Parts
<1>8. /\ jobs[i] \in Jobs /\ JobShape(page, jobs[i]) /\ jobs[i].snap \in Snaps
      /\ DOMAIN jobs[i].snap \subseteq RowsOf(page)
  BY DEF PageInv, Typed, Jobs, Shapes, JobShape
<1>9. DOMAIN snap = part \cup DOMAIN jobs[i].snap
  BY <1>1
<1>10. \A r \in DOMAIN snap :
          \/ snap[r] = rows[r] /\ r \in RowsOf(page)
          \/ r \in DOMAIN jobs[i].snap /\ snap[r] = jobs[i].snap[r]
  BY <1>1, <1>7, <1>9
<1>11. snap \in Snaps /\ DOMAIN snap \subseteq RowsOf(page)
  <2>1. PICK S \in SUBSET Nat : jobs[i].snap \in [S -> Values]
    BY <1>8 DEF Snaps
  <2>2. \A r \in DOMAIN snap : snap[r] \in Values
    BY <1>6, <1>10, <2>1
  <2>3. snap \in [DOMAIN snap -> Values]
    BY <1>1, <2>2
  <2>4. DOMAIN snap \subseteq RowsOf(page)
    BY <1>7, <1>8, <1>9
  <2> QED
    BY <1>6, <2>3, <2>4 DEF Snaps
<1>12. /\ job \in Jobs /\ job.kind = jobs[i].kind /\ job.row = jobs[i].row
       /\ job.val = jobs[i].val /\ job.res = res /\ job.snap = snap
  BY <1>3, <1>8, <1>11 DEF Jobs
<1>13. JobShape(page, job)
  BY <1>2, <1>4, <1>6, <1>8, <1>11, <1>12 DEF JobShape, ListCall, AdminCall
<1>14. /\ jobs' \in [Slots -> Jobs] /\ jobs'[i] = job
       /\ \A j \in Slots \ {i} : jobs'[j] = jobs[j]
       /\ \A j \in Slots : jobs'[j].kind = jobs[j].kind /\ jobs'[j].row = jobs[j].row
                           /\ jobs'[j].val = jobs[j].val
  BY <1>5, <1>12, OverwriteSlot DEF PageInv, Typed
<1>15. \A j \in Slots : jobs[j].kind \notin {"load", "reload"} => jobs'[j] = jobs[j]
  BY <1>4, <1>14
<1>16. Typed' /\ Shapes'
  <2>1. Typed'
    BY <1>4, <1>14 DEF PageInv, Typed
  <2>2. \A j \in Slots : JobShape(page, jobs'[j])
    BY <1>13, <1>14 DEF PageInv, Shapes
  <2> QED
    BY <1>4, <2>1, <2>2 DEF Shapes
<1>17. Room'
  <2>1. Created' = Created /\ FreeCategories' = FreeCategories
    BY <1>4 DEF Created, FreeCategories
  <2>2. SentCategories' = SentCategories
    BY <1>14, <1>15 DEF SentCategories, Slots
  <2> QED
    BY <1>4, <1>14, <1>15, <2>1, <2>2 DEF PageInv, Room
<1>18. OneHeld' /\ NoticeIsForTheCode' /\ CheckIsForTheCode'
  BY <1>4, <1>14 DEF PageInv, OneHeld, Held, NoticeIsForTheCode, CheckIsForTheCode
<1>19. Errors'
  <2>1. \A j \in Slots : jobs'[j].res = "bad" => jobs[j].res = "bad"
    BY <1>2, <1>12, <1>14
  <2>2. \A j \in Slots : jobs[j].kind \in RowActs => jobs'[j] = jobs[j]
    BY <1>15 DEF RowActs, Acts
  <2>3. Explained' = Explained
    BY <1>4 DEF Explained
  <2> QED
    BY <1>4, <1>14, <2>1, <2>2, <2>3 DEF PageInv, Errors
<1>20. Tables'
  <2>1. ASSUME page = "admin", NEW r \in RowsOf(page), NEW j \in Slots, r \in DOMAIN jobs'[j].snap
        PROVE  /\ TableOf[r] \in Lasting /\ jobs'[j].snap[r] # "none" => rows[r] # "none"
               /\ TableOf[r] # "categories" /\ jobs'[j].snap[r] = "none" => rows[r] = "none"
    <3>1. CASE jobs'[j] = jobs[j]
      BY <2>1, <3>1 DEF PageInv, Tables
    <3>2. CASE j = i
      BY <1>10, <1>12, <1>14, <2>1, <3>2 DEF PageInv, Tables
    <3> QED
      BY <1>14, <3>1, <3>2
  <2> QED
    BY <1>4, <1>14, <2>1 DEF PageInv, Tables
<1>21. Shown'
  <2>1. InOrder' = InOrder /\ Loads' = Loads
    BY <1>4, <1>14 DEF InOrder, Loads, Slots
  <2>2. i \in Loads
    BY <1>4 DEF Loads
  <2>3. \A j \in Slots : jobs[j].kind \in Replacing => jobs'[j] = jobs[j]
    BY <1>15 DEF Replacing, AdminReplacing
  <2>4. InOrder => \A j \in Loads : jobs'[j].res # "bad"
    BY <1>2, <1>12, <1>14 DEF PageInv, Shown, Loads
  <2> QED
    BY <1>4, <1>14, <2>1, <2>2, <2>3, <2>4 DEF PageInv, Shown
<1> QED
  BY <1>16, <1>17, <1>18, <1>19, <1>20, <1>21 DEF PageInv

LEMMA ObtainStep ==
  ASSUME page \in Pages, PageInv, ObtainToken
  PROVE  PageInv'
<1>1. /\ token' = gen + 1 /\ gen' = gen + 1 /\ gen \in Nat
      /\ UNCHANGED <<page, rows, ui, clicks, faults, hist>> /\ Free # {}
  BY DEF ObtainToken, PageInv, Typed
<1>2. CASE page \notin LoadedForToken
  <2>1. page \in {"reviews", "discount"} /\ jobs' = jobs
    BY <1>2 DEF ObtainToken, Pages
  <2>2. Typed' /\ Shapes' /\ Room'
    BY <1>1, <2>1, PartsUnchanged DEF PageInv, Typed
  <2>3. OneHeld' /\ NoticeIsForTheCode' /\ CheckIsForTheCode'
    BY <1>1, <2>1 DEF PageInv, OneHeld, Held, NoticeIsForTheCode, CheckIsForTheCode
  <2>4. Errors' /\ Tables'
    BY <1>1, <2>1 DEF PageInv, Errors, Explained, Tables
  <2>5. Shown'
    BY <1>1, <2>1 DEF PageInv, Shown, InOrder, Loads, Covers
  <2> QED
    BY <2>2, <2>3, <2>4, <2>5 DEF PageInv
<1>3. CASE page \in LoadedForToken
  <2>1. PICK i \in Slots : jobs[i].kind = "none" /\ jobs' = [jobs EXCEPT ![i] = Load]
    BY <1>1, <1>3, FreeSlot DEF ObtainToken, Started
  <2>2. /\ Load \in Jobs /\ Load.kind = "load" /\ JobShape(page, Load)
        /\ Load.res = "sent" /\ DOMAIN Load.snap = {}
    <3>1. /\ Load \in Jobs /\ Load.kind = "load" /\ JobShape(page, Load)
          /\ Load.res \in {"none", "sent"} /\ DOMAIN Load.snap = {}
      BY NextJobs
    <3> QED
      BY <3>1 DEF JobShape
  <2>3. /\ jobs' \in [Slots -> Jobs] /\ jobs'[i] = Load
        /\ \A j \in Slots \ {i} : jobs'[j] = jobs[j]
    BY <2>1, <2>2, OverwriteSlot DEF PageInv, Typed
  <2>4. \A j \in Slots : jobs'[j].kind # "load" => j # i /\ jobs'[j] = jobs[j]
    BY <2>2, <2>3
  <2>5. Typed' /\ Shapes'
    <3>1. Typed'
      BY <1>1, <2>3 DEF PageInv, Typed
    <3>2. \A j \in Slots : JobShape(page, jobs'[j])
      BY <2>2, <2>3 DEF PageInv, Shapes
    <3> QED
      BY <1>1, <3>1, <3>2 DEF Shapes
  <2>6. Room'
    <3>1. Created' = Created /\ FreeCategories' = FreeCategories
      BY <1>1 DEF Created, FreeCategories
    <3>2. SentCategories' = SentCategories
      BY <2>1, <2>2, <2>3 DEF SentCategories, Slots
    <3> QED
      BY <1>1, <2>4, <3>1, <3>2 DEF PageInv, Room
  <2>7. OneHeld'
    <3>1. \A j \in Slots : Held(j)' => Held(j)
      BY <2>4 DEF Held, HeldKinds
    <3> QED
      BY <1>1, <3>1 DEF PageInv, OneHeld
  <2>8. NoticeIsForTheCode' /\ CheckIsForTheCode'
    BY <1>1, <2>4 DEF PageInv, NoticeIsForTheCode, CheckIsForTheCode
  <2>9. Errors'
    <3>1. \A j \in Slots : jobs'[j].res = "bad" => jobs[j].res = "bad"
      BY <2>2, <2>3
    <3>2. \A j \in Slots : jobs'[j].kind \in RowActs => jobs'[j] = jobs[j]
      BY <2>4 DEF RowActs, Acts
    <3>3. Explained' = Explained
      BY <1>1 DEF Explained
    <3> QED
      BY <1>1, <3>1, <3>2, <3>3 DEF PageInv, Errors
  <2>10. Tables'
    <3>1. \A j \in Slots, r \in RowsOf(page) :
             r \in DOMAIN jobs'[j].snap => jobs'[j] = jobs[j]
      BY <2>2, <2>3
    <3>2. \A j \in Slots : jobs'[j].kind \in AdminReplacing => jobs'[j] = jobs[j]
      BY <2>4 DEF AdminReplacing
    <3> QED
      BY <1>1, <3>1, <3>2 DEF PageInv, Tables
  <2>11. Shown'
    <3>1. InOrder' = InOrder /\ i \in Loads'
      BY <1>1, <2>2, <2>3 DEF InOrder, Loads, Slots
    <3>2. \A j \in Slots : jobs'[j].kind \in Replacing => jobs'[j] = jobs[j]
      BY <2>4 DEF Replacing, AdminReplacing
    <3>3. InOrder => \A j \in Loads' : jobs'[j].res # "bad"
      BY <2>2, <2>3 DEF PageInv, Shown, Loads
    <3> QED
      BY <1>1, <3>1, <3>2, <3>3 DEF PageInv, Shown
  <2> QED
    BY <2>5, <2>6, <2>7, <2>8, <2>9, <2>10, <2>11 DEF PageInv
<1> QED
  BY <1>2, <1>3

-----------------------------------------------------------------------------
(***************************************************************************)
(* The invariant holds at first, and every step keeps it.                  *)
(***************************************************************************)

LEMMA FirstRows ==
  ASSUME page \in Pages, rows \in [RowsOf(page) -> Statuses(page)], InPlay(page, rows)
  PROVE  /\ RowsTyped(page, rows)
         /\ page \in {"types", "discount"} => \A r \in RowsOf(page) : rows[r] = "none"
<1>1. \A r \in RowsOf(page) : rows[r] \in FirstStatus(page, r)
  BY DEF InPlay
<1>2. ASSUME NEW r \in RowsOf(page)
      PROVE  /\ rows[r] \in Values
             /\ page = "mine" => rows[r] \in {"draft", "published"}
             /\ page \in {"attendees", "tickets"} => rows[r] \in {"confirmed", "cancelled"}
             /\ page = "types" => rows[r] = "none"
             /\ page \in {"reviews", "rate"} => rows[r] = "none"
             /\ page = "toggle" => rows[r] \in {"off", "on"}
             /\ page = "claim" => rows[r] \in {"free", "mine", "other"}
             /\ page = "discount" => rows[r] = "none"
  <2>1. rows[r] \in FirstStatus(page, r)
    BY <1>1
  <2>2. CASE page = "admin"
    <3>1. rows[r] \in {"none", "plain", "active", "admin", "there", "published"}
      BY <2>1, <2>2 DEF FirstStatus
    <3> QED
      BY <2>2, <3>1 DEF Values
  <2>3. CASE page # "admin"
    <3>1. page \in {"mine", "attendees", "tickets", "types", "toggle", "rate", "claim",
                    "reviews", "discount"}
      BY <2>3 DEF Pages, LoadedForToken, ListPage
    <3> QED
      BY <2>1, <3>1 DEF FirstStatus, Values
  <2> QED
    BY <2>2, <2>3
<1>3. ASSUME page = "admin", NEW r \in RowsOf(page)
      PROVE  /\ TableOf[r] = "events" => rows[r] \in {"none", "plain", "featured"}
             /\ TableOf[r] = "users" => rows[r] \in {"none", "active", "admin", "suspended"}
             /\ TableOf[r] = "categories" => rows[r] \in {"none", "there"}
             /\ TableOf[r] = "reviews" => rows[r] \in {"none", "published", "hidden"}
  <2>1. rows[r] \in FirstStatus("admin", r)
    BY <1>1, <1>3
  <2> QED
    BY <2>1 DEF FirstStatus
<1>4. rows \in [RowsOf(page) -> Values]
  BY <1>2
<1> QED
  BY <1>2, <1>3, <1>4 DEF RowsTyped

LEMMA FirstPage ==
  ASSUME Init
  PROVE  PageInv
<1>0. /\ page \in Pages /\ token \in {0, 1} /\ rows \in [RowsOf(page) -> Statuses(page)]
      /\ InPlay(page, rows) /\ clicks = 0 /\ faults = 0 /\ hist = NoHistory
      /\ page = "admin" => token = 1
  BY DEF Init
<1>1. /\ RowsTyped(page, rows)
      /\ page \in {"types", "discount"} => \A r \in RowsOf(page) : rows[r] = "none"
  BY <1>0, FirstRows
<1>2. gen \in Nat
  BY <1>0, BoundsAssumption DEF Init
<1>3. Blank(page, rows) \in [RowsOf(page) -> Values]
  BY DEF Blank, Values
<1>4. /\ ui \in Uis(page) /\ ui.copy = Blank(page, rows) /\ ui.error = FALSE
      /\ ui.shown = "none" /\ ui.busy = 0 /\ ui.typed = "none"
  <2>1. "none" \in Values
    BY DEF Values
  <2> QED
    BY <1>3, <2>1 DEF Init, Uis
<1>5. hist \in Hists /\ ~hist.released /\ ~hist.edited
  BY <1>0 DEF NoHistory, Hists
<1>6. /\ jobs \in [Slots -> Jobs]
      /\ \A i \in Slots : jobs[i] = NoJob \/ jobs[i] = Load
      /\ page \in Mounted(token) => jobs[1] = Load
      /\ 1 \in Slots
  <2>1. NoJob \in Jobs /\ Load \in Jobs
    BY NextJobs
  <2>2. 1 \in Slots
    BY BoundsAssumption DEF Slots
  <2> QED
    BY <2>1, <2>2 DEF Init
<1>7. /\ \A i \in Slots : /\ jobs[i].kind \in {"none", "load"}
                          /\ jobs[i].res \in {"none", "sent"} /\ DOMAIN jobs[i].snap = {}
                          /\ JobShape(page, jobs[i])
  BY <1>0, <1>6, NextJobs
<1>8. Typed /\ Shapes
  BY <1>0, <1>1, <1>2, <1>4, <1>5, <1>6, <1>7 DEF Typed, Shapes
<1>9. Room
  <2>1. page = "types" => Created = {}
    BY <1>0, <1>1 DEF Created
  <2>2. SentCategories = {}
    BY <1>7 DEF SentCategories
  <2>3. Cardinality({}) = 0 /\ MaxClicks \in Nat
    BY FS_EmptySet, BoundsAssumption
  <2>4. Cardinality(FreeCategories) \in Nat
    BY <1>0, <1>8, CreatedFinite
  <2>5. page = "types" => Cardinality(Created) <= clicks /\ clicks <= MaxClicks
    BY <1>0, <2>1, <2>3
  <2>6. Cardinality(SentCategories) <= Cardinality(FreeCategories)
    BY <2>2, <2>3, <2>4
  <2>7. \A i \in Slots : jobs[i].kind # "create"
    BY <1>7
  <2> QED
    BY <2>5, <2>6, <2>7 DEF Room
<1>10. OneHeld
  <2>1. \A i \in Slots : ~Held(i)
    BY <1>7 DEF Held, HeldKinds
  <2> QED
    BY <1>5, <2>1 DEF OneHeld
<1>11. NoticeIsForTheCode /\ CheckIsForTheCode
  BY <1>4, <1>7 DEF NoticeIsForTheCode, CheckIsForTheCode
<1>12. Errors
  <2>1. \A i \in Slots : jobs[i].kind \notin RowActs
    BY <1>7 DEF RowActs, Acts
  <2> QED
    BY <1>4, <1>7, <2>1 DEF Errors
<1>13. Tables
  <2>1. \A i \in Slots : jobs[i].kind \notin AdminReplacing
    BY <1>7 DEF AdminReplacing
  <2>2. page = "admin" => \A r \in RowsOf(page) : ui.copy[r] = "none"
    BY <1>4 DEF Blank
  <2> QED
    BY <1>7, <2>1, <2>2 DEF Tables
<1>14. Shown
  <2>1. \A i \in Slots : jobs[i].kind \notin Replacing /\ jobs[i].res # "bad"
    BY <1>7 DEF Replacing, AdminReplacing
  <2>2. ASSUME token # 0 \/ page \in {"reviews", "discount"}, Loads = {}, NEW r \in RowsOf(page)
        PROVE  ui.copy[r] = rows[r]
    <3>1. page \notin Mounted(token)
      BY <1>6, <2>2, NextJobs DEF Loads
    <3>2. page = "discount"
      BY <1>0, <2>2, <3>1 DEF Mounted, Pages
    <3> QED
      BY <1>1, <1>4, <3>2 DEF Blank
  <2> QED
    BY <2>1, <2>2 DEF Shown, Loads
<1> QED
  BY <1>8, <1>9, <1>10, <1>11, <1>12, <1>13, <1>14 DEF PageInv

LEMMA FirstDesk ==
  ASSUME DeskInit
  PROVE  DeskInv
<1>1. PICK text \in Codes \cup {Blankness} : desk = [DeskClosed EXCEPT !.field = text]
  BY DEF DeskInit
<1>2. text \in Texts
  BY <1>1, TextsTyped
<1>3. NoResult \in CheckResults /\ Blankness \in Texts
  BY TextsTyped
<1>4. /\ desk \in Desks /\ desk.calls = {} /\ desk.busy = FALSE /\ desk.scanner = "off"
  BY <1>1, <1>2, <1>3 DEF DeskClosed, Desks
<1> QED
  BY <1>4 DEF DeskInit, DeskInv

LEMMA FirstIInv ==
  ASSUME PagesInit
  PROVE  IInv
<1>1. CASE Init /\ desk = DeskClosed
  <2>1. page \in Pages /\ page # "desk"
    BY <1>1 DEF Init, Pages, LoadedForToken, ListPage
  <2> QED
    BY <1>1, <2>1, FirstPage DEF IInv
<1>2. CASE DeskInit
  <2>1. page = "desk" /\ page \notin Pages
    BY <1>2 DEF DeskInit, Pages, LoadedForToken, ListPage
  <2>2. Resting
    BY <1>2 DEF DeskInit, Resting
  <2> QED
    BY <1>2, <2>1, <2>2, FirstDesk DEF IInv
<1>3. CASE page \in {"lists", "kpis"} /\ Still /\ desk = DeskClosed
  <2>1. page # "desk" /\ page \notin Pages
    BY <1>3 DEF Pages, LoadedForToken, ListPage
  <2>2. Resting
    BY <1>3 DEF Still, Resting
  <2> QED
    BY <1>3, <2>1, <2>2 DEF IInv
<1> QED
  BY <1>1, <1>2, <1>3 DEF PagesInit

\* The user's steps on a page.
LEMMA UserStep ==
  ASSUME page \in Pages, PageInv, PageStep \/ AdminStep
  PROVE  PageInv'
<1>1. CASE \E id \in RowsOf(page) :
             HandlePublish(id) \/ HandleRemove(id) \/ HandleCancel(id) \/ HandleCalendar(id)
  BY <1>1, PublishClick, RemoveClick, CancelClick, CalendarClick
<1>2. CASE HandleExport \/ SubmitType \/ Toggle \/ HandleClaim
  BY <1>2, ExportClick, TypeClick, ToggleClick, ClaimClick
<1>3. CASE EditType \/ ToggleForm \/ RateAxes \/ EditCategory
  BY <1>3, FormEdits
<1>4. CASE SubmitReview \/ HandleCheckDiscount
  BY <1>4, ReviewStep, CheckStep
<1>5. CASE (\E score \in {"first", "second"} : HandleRate(score) \/ TypeCode(score))
              \/ TypeCode("none")
  BY <1>5, RateClick, CodeStep
<1>6. CASE PageStep
  BY <1>1, <1>2, <1>3, <1>4, <1>5, <1>6 DEF PageStep
<1>7. CASE \E cell \in DOMAIN TableOf :
             \/ HandleDeleteEvent(cell) \/ HandleToggleFeatured(cell)
             \/ HandleToggleSuspend(cell) \/ HandleDeleteCategory(cell)
             \/ HandleToggleReviewHidden(cell)
  BY <1>7, DeleteEventClick, FeaturedClick, SuspendClick, DeleteCategoryClick, HiddenClick
<1>8. CASE HandleCreateCategory \/ HandleRollupYesterday
  BY <1>8, CreateCategoryClick, RollupClick
<1>9. CASE AdminStep
  BY <1>3, <1>7, <1>8, <1>9 DEF AdminStep
<1> QED
  BY <1>6, <1>9

LEMMA EnvironmentStep ==
  ASSUME page \in Pages, PageInv, Environment
  PROVE  PageInv'
<1>1. CASE ObtainToken \/ ClearToken
  BY <1>1, ObtainStep, ClearStep
<1>2. ASSUME NEW i \in Slots,
             ReadPart(i) \/ Serve(i) \/ \E executed \in BOOLEAN : Fail(i, executed)
      PROVE  PageInv'
  BY <1>2, ReadStep, ServeStep, FailStep DEF ReadPart
<1> QED
  BY <1>1, <1>2 DEF Environment

LEMMA SamePage ==
  ASSUME PageStep \/ AdminStep \/ Environment \/ \E i \in Slots : AnswerPage(i) \/ AnswerAdmin(i)
  PROVE  page' = page
<1> USE DEF Click, Edit, Answer, Act
<1>1. CASE PageStep
  BY <1>1 DEF PageStep, HandlePublish, HandleRemove, HandleCancel, HandleCalendar, HandleExport,
     EditType, SubmitType, ToggleForm, RateAxes, SubmitReview, Toggle, HandleClaim,
     HandleCheckDiscount, HandleRate, TypeCode
<1>2. CASE AdminStep
  BY <1>2 DEF AdminStep, HandleDeleteEvent, HandleToggleFeatured, HandleToggleSuspend,
     HandleDeleteCategory, HandleToggleReviewHidden, EditCategory, HandleCreateCategory,
     HandleRollupYesterday
<1>3. CASE Environment
  BY <1>3 DEF Environment, ObtainToken, ClearToken, ReadPart, Read, Serve, Fail
<1>4. CASE \E i \in Slots : AnswerPage(i)
  BY <1>4 DEF AnswerPage, AnswerLoad, AnswerPublish, AnswerRefreshed, AnswerRemove, AnswerExport,
     AnswerCancel, AnswerCalendar, AnswerType, AnswerReview, AnswerToggle, AnswerRate,
     AnswerClaim, AnswerDiscount
<1>5. CASE \E i \in Slots : AnswerAdmin(i)
  BY <1>5 DEF AnswerAdmin, AnswerReplace, AnswerReload, AnswerCategory, AnswerRollup
<1> QED
  BY <1>1, <1>2, <1>3, <1>4, <1>5

LEMMA IInvStep ==
  ASSUME IInv, [PagesNext]_allVars
  PROVE  IInv'
<1>1. CASE UNCHANGED allVars
  <2>1. UNCHANGED <<page, token, gen, rows, ui, jobs, clicks, faults, hist, desk>>
    BY <1>1 DEF allVars, vars
  <2>2. page \in Pages => PageInv'
    <3> SUFFICES ASSUME page \in Pages PROVE PageInv'
      OBVIOUS
    <3>1. Typed' /\ Shapes' /\ Room'
      BY <2>1, PartsUnchanged DEF IInv, PageInv, Typed
    <3>2. OneHeld' /\ NoticeIsForTheCode' /\ CheckIsForTheCode'
      BY <2>1 DEF IInv, PageInv, OneHeld, Held, NoticeIsForTheCode, CheckIsForTheCode
    <3>3. Errors' /\ Tables' /\ Shown'
      BY <2>1 DEF IInv, PageInv, Errors, Explained, Tables, Shown, InOrder, Loads, Covers
    <3> QED
      BY <3>1, <3>2, <3>3 DEF PageInv
  <2>3. (page \notin Pages => Resting') /\ (page = "desk" => DeskInv')
        /\ (page # "desk" => desk' = DeskClosed)
    BY <2>1 DEF IInv, Resting, DeskInv
  <2> QED
    BY <2>1, <2>2, <2>3 DEF IInv
<1>2. CASE page \in Pages /\ (AnswerJob \/ ((PageStep \/ AdminStep \/ Environment)
                                             /\ UNCHANGED <<adminVars, desk>>))
  <2>1. /\ desk' = desk
        /\ \/ PageStep \/ AdminStep \/ Environment
           \/ \E i \in Slots : AnswerPage(i) \/ AnswerAdmin(i)
    BY <1>2 DEF AnswerJob
  <2>2. PageInv
    BY <1>2 DEF IInv
  <2>3. PageInv'
    BY <1>2, <2>1, <2>2, UserStep, EnvironmentStep, AnswerStep
  <2>4. page' = page
    BY <2>1, SamePage
  <2>5. page # "desk"
    BY <1>2 DEF Pages, LoadedForToken, ListPage
  <2> QED
    BY <1>2, <2>1, <2>3, <2>4, <2>5 DEF IInv
<1>3. CASE page = "lists" /\ ListStep /\ UNCHANGED desk
  <2>1. UNCHANGED vars
    BY <1>3 DEF ListStep, SelectTab, Refilter, Report, ScrollDown, ScrollUp, Lists
  <2>2. page \notin Pages /\ page # "desk"
    BY <1>3 DEF Pages, LoadedForToken, ListPage
  <2> QED
    BY <1>3, <2>1, <2>2 DEF IInv, Resting, vars
<1>4. CASE page = "desk" /\ DeskNext
  <2>1. page \notin Pages
    BY <1>4 DEF Pages, LoadedForToken, ListPage
  <2>2. DeskInv' /\ page' = page /\ UNCHANGED <<ui, jobs, hist>>
    BY <1>4, DeskStep DEF IInv
  <2> QED
    BY <1>4, <2>1, <2>2 DEF IInv, Resting
<1> QED
  BY <1>1, <1>2, <1>3, <1>4 DEF PagesNext

-----------------------------------------------------------------------------
(* The theorems *)

\* Every state of the pages satisfies the inductive invariant.
THEOREM PagesInvariant == PagesSpec => []IInv
<1>1. PagesInit => IInv
  BY FirstIInv
<1>2. IInv /\ [PagesNext]_allVars => IInv'
  BY IInvStep
<1> QED
  BY <1>1, <1>2, PTL DEF PagesSpec

LEMMA SafePages ==
  ASSUME IInv
  PROVE  /\ ShownIsCurrent /\ DoubleCallExplained /\ ErrorExplained /\ NoticeIsForTheCode
         /\ PausedScannerExplained
<1>1. ShownIsCurrent
  <2> SUFFICES ASSUME page \in Pages, Quiet, token # 0, faults = 0, ~hist.outrun,
                      ~(page = "admin" /\ hist.released)
               PROVE  ui.copy = rows
    BY DEF ShownIsCurrent
  <2>1. Typed /\ Shapes /\ Shown
    BY DEF IInv, PageInv
  <2>2. InOrder /\ Loads = {}
    BY DEF InOrder, Quiet, Loads
  <2>3. \A i \in Slots, r \in RowsOf(page) : ~Covers(i, r)
    BY <2>1 DEF Quiet, Shapes, JobShape, Covers
  <2>4. \A r \in RowsOf(page) : ui.copy[r] = rows[r]
    BY <2>1, <2>2, <2>3 DEF Shown
  <2>5. ui.copy \in [RowsOf(page) -> Values] /\ rows \in [RowsOf(page) -> Values]
    BY <2>1 DEF Typed, Uis, RowsTyped
  <2> QED
    BY <2>4, <2>5
<1>2. DoubleCallExplained
  <2> SUFFICES ASSUME NEW i \in Slots, NEW j \in Slots, i # j, jobs[i].kind \in Acts,
                      jobs[j].kind = jobs[i].kind, jobs[i].kind # "createCategory"
               PROVE  page \in {"attendees", "tickets", "admin"} /\ hist.released
    BY DEF DoubleCallExplained
  <2>1. CASE page \in Pages
    <3>1. Held(i) /\ Held(j)
      BY DEF Held, HeldKinds, Acts
    <3> QED
      BY <2>1, <3>1 DEF IInv, PageInv, OneHeld
  <2>2. CASE page \notin Pages
    <3>1. jobs[i].kind = "none"
      BY <2>2, NoJobFields DEF IInv, Resting
    <3> QED
      BY <3>1 DEF Acts
  <2> QED
    BY <2>1, <2>2
<1>3. ErrorExplained /\ NoticeIsForTheCode
  BY DEF ErrorExplained, NoticeIsForTheCode, IInv, PageInv, Resting, Errors, Explained
<1>4. PausedScannerExplained
  <2>1. CASE page = "desk"
    BY <2>1, DeskSafe DEF IInv
  <2>2. CASE page # "desk"
    <3>1. desk.calls = {} /\ desk.scanner = "off"
      BY <2>2 DEF IInv, DeskClosed
    <3> QED
      BY <3>1, FS_EmptySet DEF PausedScannerExplained
  <2> QED
    BY <2>1, <2>2
<1> QED
  BY <1>1, <1>2, <1>3, <1>4

\* A page at rest shows what the server holds, whatever was clicked, with however many
\* calls under way and tokens obtained, unless a call failed, an older list was applied
\* last, or an administrator's second call had been let through.
THEOREM PagesShowCurrent == PagesSpec => []ShownIsCurrent
<1>1. IInv => ShownIsCurrent
  BY SafePages
<1> QED
  BY <1>1, PagesInvariant, PTL

\* Two calls of one kind for one row are never under way together, but where one busyId
\* serves all rows and another row has overwritten it, or for a new category.
THEOREM PagesDoubleCall == PagesSpec => []DoubleCallExplained
<1>1. IInv => DoubleCallExplained
  BY SafePages
<1> QED
  BY <1>1, PagesInvariant, PTL

\* An error on a page has one of five reasons: the server never refuses the only call of
\* a row that the page showed as it was.
THEOREM PagesErrors == PagesSpec => []ErrorExplained
<1>1. IInv => ErrorExplained
  BY SafePages
<1> QED
  BY <1>1, PagesInvariant, PTL

\* The notice below the discount code is about the code in the field, unless the code
\* was edited while a check was under way.
THEOREM PagesNotice == PagesSpec => []NoticeIsForTheCode
<1>1. IInv => NoticeIsForTheCode
  BY SafePages
<1> QED
  BY <1>1, PagesInvariant, PTL

\* One check-in at a time, and a paused scanner has a result to resume from or gets one,
\* unless the text that paused it was blank: whatever texts the camera reads, whatever is
\* typed, and whichever calls fail.
THEOREM PagesScanner == PagesSpec => []PausedScannerExplained
<1>1. IInv => PausedScannerExplained
  BY SafePages
<1> QED
  BY <1>1, PagesInvariant, PTL
=============================================================================
