----------------------------- MODULE ListPages ------------------------------
(***************************************************************************)
(* A page, or a widget of a page, that keeps a copy of rows of the server  *)
(* and has buttons that change them.  They differ in what matters here:    *)
(* when a button is enabled, whether the answer replaces the row, starts a *)
(* new load that nobody waits for, or one that the handler waits for, and  *)
(* what a failure leaves behind.                                           *)
(*                                                                         *)
(*    "mine"       the organizer's events: publish                         *)
(*    "attendees"  the registrations of an event: remove, export           *)
(*    "tickets"    the user's registrations: cancel, calendar link         *)
(*    "types"      the ticket types of an event: create                    *)
(*    "reviews"    the reviews of an event: the user's own one             *)
(*    "toggle"     the buttons favourite, follow organizer, follow         *)
(*                 instructor                                              *)
(*    "rate"       the stars of an instructor or an organizer              *)
(*    "claim"      the button that claims an instructor profile            *)
(*    "discount"   the field of the discount code in TicketCheckout        *)
(*    "admin"      the administrator's page (handlers in AdminPanel)       *)
(*                                                                         *)
(* One of them is on the screen.  A call is a job: sent, executed by the   *)
(* server some time later (Serve), and answered (the Answer actions run    *)
(* the rest of the handler).  A call may fail, executed or not (Fail); a   *)
(* refusal by a rule of the server about anything but the row itself looks *)
(* the same.  Nobody else changes the rows: a copy that is out of date     *)
(* here is so because of this page.                                        *)
(***************************************************************************)
EXTENDS Naturals, Sequences, FiniteSets, FiniteSetsExt, Functions, TLC

CONSTANTS
    NumRows,    \* bound: rows of a list
    MaxGen,     \* bound: access tokens the browser obtains
    MaxClicks,  \* bound: clicks that send a call
    MaxAdminClicks, \* bound: the same on the administrator's page, see Allowed
    MaxFaults,  \* bound: calls that fail
    MaxJobs     \* bound: calls under way at a time

ASSUME BoundsAssumption ==
    /\ {MaxGen, MaxClicks, MaxAdminClicks, MaxFaults} \subseteq Nat
    /\ {NumRows, MaxJobs} \subseteq Nat \ {0}

VARIABLES
    page,       \* what is on the screen
    token,      \* the access token in the store, 0 for none
    gen,        \* tokens obtained so far
    rows,       \* server: the status of each row, "none" for no row
    ui,         \* the state of the page's component
    jobs,       \* the calls under way
    clicks, faults,
    hist        \* history, see NoHistory

vars == <<page, token, gen, rows, ui, jobs, clicks, faults, hist>>

Slots == 1 .. MaxJobs
\* The administrator's rows: rows of different tables may have the same id.
TableOf == <<"events", "events", "users", "categories", "categories", "reviews">>
IdOf == <<1, 2, 1, 1, 2, 1>>

\* A created ticket type is a row of its own: one for every click.
RowsOf(p) ==
    CASE p \in {"mine", "attendees", "tickets"} -> 1 .. NumRows
      [] p = "types" -> 1 .. MaxClicks
      [] p = "admin" -> DOMAIN TableOf
      [] OTHER -> {1}

ListPage == {"mine", "attendees", "tickets", "types", "admin"}
Acts == {"publish", "remove", "cancel", "create", "review", "toggle", "rate", "claim",
         "deleteEvent", "setEventFeatured", "setUserSuspended", "createCategory",
         "deleteCategory", "setReviewHidden"}

NoJob == [kind |-> "none", row |-> 0, val |-> "none", res |-> "none", snap |-> <<>>]
Job(kind, id, val) == [NoJob EXCEPT !.kind = kind, !.row = id, !.val = val, !.res = "sent"]
Load == Job("load", 0, "none")
Free == {i \in Slots : jobs[i].kind = "none"}
Started(job) == [jobs EXCEPT ![Min(Free)] = job]
Ended(i) == [jobs EXCEPT ![i] = NoJob]
Reloads(i) == [jobs EXCEPT ![i] = Load]
Quiet == \A i \in Slots : jobs[i].kind = "none"

\* outrun: the list applied last was read before a change that the server had
\* executed when it was applied.  released: a handler was started while another
\* row was busy, which overwrote busyId.  stale: a click on a row of which the
\* page showed another status than the server's.  edited: the discount code was
\* edited while a check was under way.
NoHistory == [outrun |-> FALSE, released |-> FALSE, stale |-> FALSE, edited |-> FALSE]

-----------------------------------------------------------------------------
(* The server: the rows before the page is opened, and the rules about the  *)
(* row itself (external here, see README).                                  *)

FirstStatus(p, r) ==
    CASE p = "mine" -> {"draft"}
      [] p \in {"attendees", "tickets"} -> {"confirmed"}
      [] p = "toggle" -> {"off", "on"}
      [] p = "claim" -> {"free", "mine", "other"}
      [] p = "admin" /\ TableOf[r] = "events" -> {"none", "plain"}
      [] p = "admin" /\ TableOf[r] = "users" -> {"none", "active", "admin"}
      [] p = "admin" /\ TableOf[r] = "categories" /\ IdOf[r] = 1 -> {"none", "there"}
      [] p = "admin" /\ TableOf[r] = "reviews" -> {"none", "published"}
      [] OTHER -> {"none"}

\* The statuses in which the server accepts an operation on a row; it accepts the
\* others in every status.
Needs(kind) ==
    CASE kind = "publish" -> {"draft"}
      [] kind \in {"remove", "cancel"} -> {"confirmed"}
      [] kind = "claim" -> {"free"}
      [] kind = "deleteCategory" -> {"there"}
      [] OTHER -> {"none", "off", "on", "first", "second", "there", "plain", "featured",
                   "active", "suspended", "published", "hidden"}

\* A created ticket type or category is the next free row.
Target(job) ==
    CASE job.kind = "create" -> Min({r \in DOMAIN rows : rows[r] = "none"})
      [] job.kind = "createCategory" ->
           Min({r \in DOMAIN rows : rows[r] = "none" /\ TableOf[r] = "categories"})
      [] OTHER -> job.row
Accepted(job) == job.kind \in Acts => rows[Target(job)] \in Needs(job.kind)

\* A deleted event keeps its row, which no list shows: nothing brings it back.
Execute(job) ==
    IF /\ job.kind \in Acts /\ Accepted(job)
       /\ ~(job.kind = "setEventFeatured" /\ rows[job.row] = "none")
    THEN [rows EXCEPT ![Target(job)] = job.val] ELSE rows

\* The administrator's lists are read by a call each, and a load is answered when
\* all of its calls are.  bound: the calls are executed at two moments.
Parts == IF page = "admin"
         THEN LET early == {r \in DOMAIN rows : TableOf[r] \in {"events", "users"}}
              IN {early, DOMAIN rows \ early}
         ELSE {DOMAIN rows}

Read(i, part) ==
    LET snap == [r \in part \cup DOMAIN jobs[i].snap |->
                    IF r \in part THEN rows[r] ELSE jobs[i].snap[r]] IN
    /\ jobs[i].kind \in {"load", "reload"} /\ jobs[i].res = "sent"
    /\ part \cap DOMAIN jobs[i].snap = {}
    /\ jobs' = [jobs EXCEPT ![i].snap = snap,
                            ![i].res = IF DOMAIN snap = DOMAIN rows THEN "ok" ELSE "sent"]
    /\ UNCHANGED <<page, token, gen, rows, ui, clicks, faults, hist>>

\* Of the two codes, "second" is not valid.
Serve(i) ==
    LET job == jobs[i] IN
    /\ job.kind \notin {"load", "reload"} /\ job.res = "sent"
    /\ rows' = Execute(job)
    /\ jobs' = [jobs EXCEPT ![i].res =
                   IF Accepted(job) /\ ~(job.kind = "check" /\ job.val = "second")
                   THEN "ok" ELSE "bad"]
    /\ UNCHANGED <<page, token, gen, ui, clicks, faults, hist>>

Fail(i, executed) ==
    /\ jobs[i].res = "sent" /\ faults < MaxFaults
    /\ faults' = faults + 1
    /\ rows' = IF executed THEN Execute(jobs[i]) ELSE rows
    /\ jobs' = [jobs EXCEPT ![i].res = "bad"]
    /\ UNCHANGED <<page, token, gen, ui, clicks, hist>>

-----------------------------------------------------------------------------
(* Mounting, and the effect on the access token.                            *)

LoadedForToken == ListPage \cup {"toggle", "rate", "claim"}
Pages == LoadedForToken \cup {"reviews", "discount"}
Mounted(tok) == IF tok # 0 THEN LoadedForToken \cup {"reviews"} ELSE {"reviews"}

Statuses(p) == UNION {FirstStatus(p, r) : r \in RowsOf(p)}

\* bound: two of the administrator's rows are there at first: two events, an event
\* and a user with the same id, or a category and a review with the same id.
InPlay(p, f) ==
    /\ \A r \in RowsOf(p) : f[r] \in FirstStatus(p, r)
    /\ p = "admin" => {r \in RowsOf(p) : f[r] # "none"} \in {{1, 2}, {1, 3}, {4, 6}}

\* What the component shows before its first load: an empty list, a button that
\* is off, no rating, or what the server rendered without a session (a profile
\* is claimed or not, and never one's own).
Blank(p, r) ==
    [k \in RowsOf(p) |->
        CASE p = "toggle" -> "off"
          [] p = "claim" -> IF r[k] = "free" THEN "free" ELSE "other"
          [] OTHER -> "none"]

Init ==
    /\ page \in Pages
    /\ token \in {0, 1}
    /\ gen = IF page = "admin" THEN MaxGen ELSE token  \* bound: one token for the administrator
    /\ page = "admin" => token = 1
    /\ rows \in {f \in [RowsOf(page) -> Statuses(page)] : InPlay(page, f)}
    /\ ui = [copy |-> Blank(page, rows), loading |-> TRUE, busy |-> 0, error |-> FALSE,
             form |-> FALSE, axes |-> FALSE, done |-> FALSE, exporting |-> FALSE,
             typed |-> "none", shown |-> "none"]
    /\ jobs = [i \in Slots |->
                 IF i = 1 /\ page \in Mounted(token) THEN Load ELSE NoJob]
    /\ clicks = 0 /\ faults = 0 /\ hist = NoHistory

\* The reviews are public and loaded once, the field of the discount code loads
\* nothing; the rest is loaded for every token.
ObtainToken ==
    /\ gen < MaxGen /\ Free # {}
    /\ gen' = gen + 1 /\ token' = gen'
    /\ jobs' = IF page \in LoadedForToken THEN Started(Load) ELSE jobs
    /\ UNCHANGED <<page, rows, ui, clicks, faults, hist>>

\* bound: the last token is not lost.
ClearToken ==
    /\ token # 0 /\ gen < MaxGen /\ token' = 0
    /\ UNCHANGED <<page, gen, rows, ui, jobs, clicks, faults, hist>>

\* The catch of a load: the lists show an error, a button turns off, the other
\* widgets and the reviews keep what they show.
LoadFailed ==
    CASE page \in ListPage -> [ui EXCEPT !.error = TRUE, !.loading = FALSE]
      [] page = "toggle" -> [ui EXCEPT !.copy = Blank(page, rows), !.loading = FALSE]
      [] OTHER -> [ui EXCEPT !.loading = FALSE]

AnswerLoad(i) ==
    /\ jobs[i].kind = "load" /\ jobs[i].res \in {"ok", "bad"}
    /\ jobs' = Ended(i)
    /\ IF jobs[i].res = "ok"
       THEN /\ ui' = [ui EXCEPT !.copy = jobs[i].snap, !.loading = FALSE]
            /\ hist' = [hist EXCEPT !.outrun = jobs[i].snap # rows]
       ELSE ui' = LoadFailed /\ UNCHANGED hist
    /\ UNCHANGED <<page, token, gen, rows, clicks, faults>>

-----------------------------------------------------------------------------
(* A click sends a call; u is the component's state then.                   *)

\* bound: the administrator has one click more once another row's call has
\* overwritten busyId, and can change the first row again.
Allowed ==
    CASE page # "admin" -> MaxClicks
      [] page = "admin" /\ ~hist.released -> MaxAdminClicks
      [] page = "admin" /\ hist.released -> MaxAdminClicks + 1

Click(job, u) ==
    /\ clicks < Allowed
    /\ Free # {}
    /\ clicks' = clicks + 1
    /\ jobs' = Started(job) /\ ui' = u
    /\ hist' = [hist EXCEPT
                  !.released = @ \/ (ui.busy # 0 /\ u.busy # ui.busy),
                  !.stale = @ \/ (job.row # 0 /\ ui.copy[job.row] # rows[job.row])]
    /\ UNCHANGED <<page, token, gen, rows, faults>>

\* The rest of a handler, when its call is answered: js and u afterwards.
Answer(i, kind, js, u) ==
    /\ jobs[i].kind = kind /\ jobs[i].res \in {"ok", "bad"}
    /\ jobs' = js /\ ui' = u
    /\ UNCHANGED <<page, token, gen, rows, clicks, faults, hist>>

\* A step of the user that only changes the component.
Edit(p, u) ==
    /\ page = p /\ ui' = u
    /\ UNCHANGED <<page, token, gen, rows, jobs, clicks, faults>>

Good(i) == jobs[i].res = "ok"

\* events/mine ---------------------------------------------------------------

\* Mutant: the button of a row is disabled only while that row is published.
PublishShown_PerRow(id) == token # 0 /\ ui.copy[id] = "draft" /\ ui.busy # id

\* Only drafts can be published, one at a time.
PublishShown(id) == token # 0 /\ ui.copy[id] = "draft" /\ ui.busy = 0

HandlePublish(id) ==
    /\ page = "mine" /\ PublishShown(id)
    /\ Click(Job("publish", id, "published"), [ui EXCEPT !.busy = id, !.error = FALSE])

\* publishingId is kept while the handler waits for the new list.
AnswerPublish(i) ==
    Answer(i, "publish",
           IF Good(i) THEN [jobs EXCEPT ![i] = Job("reload", 0, "none")] ELSE Ended(i),
           IF Good(i) THEN ui ELSE [ui EXCEPT !.error = TRUE, !.busy = 0])

AnswerRefreshed(i) ==
    /\ jobs[i].kind = "reload" /\ jobs[i].res \in {"ok", "bad"}
    /\ jobs' = Ended(i)
    /\ ui' = [ui EXCEPT !.busy = 0, !.error = @ \/ ~Good(i),
                        !.copy = IF Good(i) THEN jobs[i].snap ELSE @]
    /\ hist' = [hist EXCEPT !.outrun = IF Good(i) THEN jobs[i].snap # rows ELSE @]
    /\ UNCHANGED <<page, token, gen, rows, clicks, faults>>

\* organizer/events/[id]/attendees -------------------------------------------

RemoveShown(id) == token # 0 /\ ui.copy[id] = "confirmed" /\ ui.busy # id

HandleRemove(id) ==
    /\ page = "attendees" /\ RemoveShown(id)
    /\ Click(Job("remove", id, "cancelled"), [ui EXCEPT !.busy = id])

\* Mutant: the answer is dropped, the list keeps the row as it was.
AnswerRemove_NoReplace(i) ==
    Answer(i, "remove", Ended(i), [ui EXCEPT !.error = @ \/ ~Good(i), !.busy = 0])

\* The answer is the changed row.
AnswerRemove(i) ==
    Answer(i, "remove", Ended(i),
           IF Good(i) THEN [ui EXCEPT !.copy[jobs[i].row] = jobs[i].val, !.busy = 0]
           ELSE [ui EXCEPT !.error = TRUE, !.busy = 0])

HandleExport ==
    /\ page = "attendees" /\ token # 0 /\ ~ui.exporting
    /\ Click(Job("export", 0, "none"), [ui EXCEPT !.exporting = TRUE])

AnswerExport(i) ==
    Answer(i, "export", Ended(i), [ui EXCEPT !.error = @ \/ ~Good(i), !.exporting = FALSE])

\* tickets -------------------------------------------------------------------

\* Mutant: the button is there for every registration.
CancelShown_Always(id) == token # 0 /\ ui.copy[id] # "none" /\ ui.busy # id

CancelShown(id) == token # 0 /\ ui.copy[id] = "confirmed" /\ ui.busy # id

HandleCancel(id) ==
    /\ page = "tickets" /\ CancelShown(id)
    /\ Click(Job("cancel", id, "cancelled"), [ui EXCEPT !.busy = id])

\* Mutant: busyId is not reset when the call fails.
AnswerCancel_NoFinally(i) ==
    Answer(i, "cancel", IF Good(i) THEN Reloads(i) ELSE Ended(i),
           [ui EXCEPT !.error = @ \/ ~Good(i), !.busy = IF Good(i) THEN 0 ELSE @])

\* loadTickets is started, not awaited.
AnswerCancel(i) ==
    Answer(i, "cancel", IF Good(i) THEN Reloads(i) ELSE Ended(i),
           [ui EXCEPT !.error = @ \/ ~Good(i), !.busy = 0])

HandleCalendar(id) ==
    /\ page = "tickets" /\ token # 0 /\ ui.copy[id] = "confirmed"
    /\ Click(Job("calendar", 0, "none"), ui)

AnswerCalendar(i) == Answer(i, "calendar", Ended(i), [ui EXCEPT !.error = @ \/ ~Good(i)])

\* organizer/events/[id]/tickets ---------------------------------------------

\* The name of the new type is typed in, or emptied again.
EditType == token # 0 /\ Edit("types", [ui EXCEPT !.form = ~@]) /\ UNCHANGED hist

SubmitType ==
    /\ page = "types" /\ token # 0 /\ ui.form /\ ui.busy = 0
    /\ Click(Job("create", 0, "there"), [ui EXCEPT !.busy = 1, !.error = FALSE])

AnswerType(i) ==
    Answer(i, "create", IF Good(i) THEN Reloads(i) ELSE Ended(i),
           [ui EXCEPT !.error = @ \/ ~Good(i), !.form = @ /\ ~Good(i), !.busy = 0])

\* EventReviews --------------------------------------------------------------

ToggleForm == token # 0 /\ Edit("reviews", [ui EXCEPT !.form = ~@]) /\ UNCHANGED hist

\* The last of the four axes gets its score.
RateAxes ==
    ui.form /\ ~ui.axes /\ Edit("reviews", [ui EXCEPT !.axes = TRUE]) /\ UNCHANGED hist

\* A later review of the same user replaces the earlier one.
SubmitReview ==
    /\ page = "reviews" /\ token # 0 /\ ui.form /\ ui.busy = 0
    /\ \/ ~ui.axes /\ Edit("reviews", [ui EXCEPT !.error = TRUE]) /\ UNCHANGED hist
       \/ /\ ui.axes
          /\ Click(Job("review", 1, IF clicks = 0 THEN "first" ELSE "second"),
                   [ui EXCEPT !.busy = 1, !.error = FALSE, !.done = FALSE])

AnswerReview(i) ==
    Answer(i, "review", IF Good(i) THEN Reloads(i) ELSE Ended(i),
           [ui EXCEPT !.busy = 0, !.error = @ \/ ~Good(i), !.done = @ \/ Good(i),
                      !.form = @ /\ ~Good(i)])

\* The buttons that are on or off --------------------------------------------

\* Without a token the button is not rendered.
ToggleEnabled == page = "toggle" /\ token # 0 /\ ui.busy = 0

Toggle ==
    /\ ToggleEnabled
    /\ Click(Job("toggle", 1, IF ui.copy[1] = "on" THEN "off" ELSE "on"),
             [ui EXCEPT !.busy = 1])

\* No catch: a failure is not shown.
AnswerToggle(i) ==
    Answer(i, "toggle", Ended(i),
           [ui EXCEPT !.busy = 0, !.copy[1] = IF Good(i) THEN jobs[i].val ELSE @])

\* RateEntityWidget ----------------------------------------------------------

HandleRate(score) ==
    /\ page = "rate" /\ token # 0 /\ ui.busy = 0
    /\ Click(Job("rate", 1, score), [ui EXCEPT !.busy = 1])

AnswerRate(i) ==
    Answer(i, "rate", Ended(i),
           [ui EXCEPT !.busy = 0, !.copy[1] = IF Good(i) THEN jobs[i].val ELSE @])

\* ClaimInstructorButton -----------------------------------------------------

ClaimShown == token # 0 /\ ui.copy[1] = "free" /\ ui.busy = 0

HandleClaim ==
    /\ page = "claim" /\ ClaimShown
    /\ Click(Job("claim", 1, "mine"), [ui EXCEPT !.busy = 1, !.error = FALSE])

AnswerClaim(i) ==
    Answer(i, "claim", Ended(i),
           IF Good(i) THEN [ui EXCEPT !.busy = 0, !.copy[1] = "mine"]
           ELSE [ui EXCEPT !.busy = 0, !.error = TRUE])

\* The discount code of TicketCheckout ----------------------------------------

\* Mutant: editing the code keeps the notice about the old one.
TypeCode_KeepsNotice(code) ==
    /\ Edit("discount", [ui EXCEPT !.typed = code])
    /\ hist' = [hist EXCEPT !.edited = @ \/ ui.busy # 0]

\* Every edit takes the notice and the error away.
TypeCode(code) ==
    /\ Edit("discount", [ui EXCEPT !.typed = code, !.shown = "none", !.error = FALSE])
    /\ hist' = [hist EXCEPT !.edited = @ \/ ui.busy # 0]

HandleCheckDiscount ==
    /\ page = "discount" /\ ui.busy = 0
    /\ \/ /\ ui.typed = "none"
          /\ Edit("discount", [ui EXCEPT !.shown = "none", !.error = TRUE]) /\ UNCHANGED hist
       \/ /\ ui.typed # "none"
          /\ Click(Job("check", 0, ui.typed),
                   [ui EXCEPT !.shown = "none", !.error = FALSE, !.busy = 1])

AnswerDiscount(i) ==
    Answer(i, "check", Ended(i),
           [ui EXCEPT !.busy = 0, !.error = @ \/ ~Good(i),
                      !.shown = IF Good(i) THEN jobs[i].val ELSE @])

-----------------------------------------------------------------------------
AnswerPage(i) ==
    \/ AnswerLoad(i) \/ AnswerPublish(i) \/ AnswerRefreshed(i) \/ AnswerRemove(i)
    \/ AnswerExport(i) \/ AnswerCancel(i) \/ AnswerCalendar(i) \/ AnswerType(i)
    \/ AnswerReview(i) \/ AnswerToggle(i) \/ AnswerRate(i) \/ AnswerClaim(i)
    \/ AnswerDiscount(i)

ReadPart(i) == \E part \in Parts : Read(i, part)

PageStep ==
    \/ \E id \in RowsOf(page) :
          HandlePublish(id) \/ HandleRemove(id) \/ HandleCancel(id) \/ HandleCalendar(id)
    \/ HandleExport \/ EditType \/ SubmitType \/ ToggleForm \/ RateAxes \/ SubmitReview
    \/ Toggle \/ HandleClaim \/ HandleCheckDiscount
    \/ \E score \in {"first", "second"} : HandleRate(score) \/ TypeCode(score)
    \/ TypeCode("none")

Environment ==
    \/ ObtainToken \/ ClearToken
    \/ \E i \in Slots : ReadPart(i) \/ Serve(i) \/ \E executed \in BOOLEAN : Fail(i, executed)

-----------------------------------------------------------------------------
\* A page at rest shows what the server holds, unless a call failed, a list that was
\* read before a change was applied after it (loads that nobody waits for:
\* tickets/page.tsx:47, the effects on the token), or, on the administrator's page,
\* another row's call had overwritten busyId: a second change of a row may then be
\* answered before the first, whose answer replaces the row last (admin/page.tsx:416).
ShownIsCurrent ==
    (/\ page \in Pages /\ Quiet /\ token # 0
     /\ faults = 0 /\ ~hist.outrun /\ ~(page = "admin" /\ hist.released))
        => ui.copy = rows

\* Two calls that change the same row are under way together only on the pages
\* with one busyId for all rows, after another row's call had overwritten it
\* (attendees/page.tsx:48, tickets/page.tsx:44, admin/page.tsx:400), and for a
\* new category, whose form has no such flag (admin/page.tsx:441).
DoubleCallExplained ==
    \A i, j \in Slots :
        i # j /\ jobs[i].kind \in Acts /\ jobs[j].kind = jobs[i].kind
              /\ jobs[i].row = jobs[j].row
            => \/ page \in {"attendees", "tickets", "admin"} /\ hist.released
               \/ jobs[i].kind = "createCategory"

\* An error is shown only for a call that failed, a form that is not filled in, a
\* wrong code, a second call for a row that was let through, or a click on a row
\* that the page showed in an older status (between the reset of busyId and the
\* answer of the list).
ErrorExplained ==
    ui.error => \/ faults > 0 \/ hist.released \/ hist.stale
                \/ page \in {"reviews", "discount"}

\* The notice of a discount code is about the code in the field, unless the code
\* was edited while a check was under way (TicketCheckout.tsx:92).
NoticeIsForTheCode == ui.shown \in {"none", ui.typed} \/ hist.edited

\* Whatever a handler disables while it runs is enabled again.
PagesSettle == [](ui.busy # 0 => <>(ui.busy = 0)) /\ [](ui.exporting => <>~ui.exporting)
=============================================================================
