----------------------------- MODULE EventEditor -----------------------------
(***************************************************************************)
(* The organizer's three pages that write an event: create/page.tsx (a     *)
(* form, then the banner, the clip and the publication of the new event),  *)
(* edit/page.tsx (a form filled from the server and saved in two calls)    *)
(* and media/page.tsx (banner and clip of an existing event).  One of them *)
(* is on the screen.                                                       *)
(*                                                                         *)
(* The fields of a form are abstracted to what the calls do with them:     *)
(* "text" stands for the fields that are always sent, "refund" for those   *)
(* sent only when filled in (0 is an empty field), "cat" for the category  *)
(* and "rows" for the sessions, of which only the start matters (0 is a    *)
(* row without one).  A call is executed some time after it was sent and   *)
(* answered some time later; it may fail, or lose its answer.              *)
(***************************************************************************)
EXTENDS Naturals, Sequences, FiniteSets, FiniteSetsExt, Functions, TLC

CONSTANTS
    Parent,      \* the parent of each category, 0 for a top-level one
    Starts,      \* session starts a user may pick
    MaxRows,     \* bound: rows of the sessions part of the form
    MaxEdits,    \* bound: changes the user makes to a form
    MaxSaves,    \* bound: submissions of a form
    MaxUploads,  \* bound: files uploaded
    MaxGen,      \* bound: access tokens the browser obtains
    MaxFaults,   \* bound: calls that fail
    MaxJobs      \* bound: calls under way at a time

ASSUME ConstantsAssumption ==
    /\ {MaxRows, MaxEdits, MaxSaves, MaxUploads, MaxGen, MaxFaults} \subseteq Nat
    /\ Starts \subseteq Nat \ {0} /\ Starts # {} /\ MaxJobs \in Nat \ {0}

VARIABLES
    page,      \* "create", "edit" or "media"
    token, gen,
    profile,   \* server: the organizer's name is filled in
    events,    \* server: the organizer's events; the pages edit the first
    form,      \* the fields on the screen
    ui,        \* the other state of the page
    jobs,      \* the calls under way
    edits, saves, uploads, faults,
    sent,      \* history: the edit form as last submitted
    dirty,     \* history: edited since
    bubbled,   \* history: the prompt's submit event reached the outer form
    reread,    \* history: a load of the form overlapped the last save
    overlap    \* history: two of the calls that answer with the event overlapped

history == <<sent, dirty, bubbled, reread, overlap>>
bounds == <<edits, saves, uploads, faults>>
vars == <<page, token, gen, profile, events, form, ui, jobs, bounds, history>>

Slots == 1 .. MaxJobs
Texts == 0 .. 2

\* groupCategories and buildCategoryComboboxGroups: the items under a group are
\* the children of a top-level category.
Selectable == {c \in DOMAIN Parent : Parent[c] # 0 /\ Parent[Parent[c]] = 0}
\* The server's own rule: any category but a top-level one.
LeafCategory(c) == c \in DOMAIN Parent /\ Parent[c] # 0

EmptyRow == 0
EmptyForm == [text |-> 0, refund |-> 0, cat |-> 0, rows |-> <<EmptyRow>>]
Event(f, sessions) == [text |-> f.text, refund |-> f.refund, cat |-> f.cat,
                       sess |-> sessions, banner |-> 0, video |-> 0, status |-> "draft"]
NoEvent == Event(EmptyForm, <<>>)
\* The event an edit or media page is opened for.
OldEvent == [Event(EmptyForm, <<Min(Starts)>>) EXCEPT !.text = 1, !.cat = Min(Selectable)]

\* The sessions a form sends (rows without a start are left out), as the server
\* keeps them, in order of their start: the k-th is the earliest start by which k
\* of the sessions have begun.
SessionInputs(f) == [k \in {j \in DOMAIN f.rows : f.rows[j] # EmptyRow} |-> f.rows[k]]
Begun(sessions, start) == Cardinality({k \in DOMAIN sessions : sessions[k] <= start})
Stored(sessions) ==
    [k \in 1 .. Cardinality(DOMAIN sessions) |->
        Min({start \in Range(sessions) : Begun(sessions, start) >= k})]

NoJob == [kind |-> "none", call |-> "none", res |-> "none", form |-> EmptyForm, copy |-> NoEvent, id |-> 0]
Job(kind, call) == [NoJob EXCEPT !.kind = kind, !.call = call]
Free == {i \in Slots : jobs[i].kind = "none"}
Put(js, i, job) == [js EXCEPT ![i] = job]
Started(job) == Put(jobs, Min(Free), job)
Active(kinds) == {i \in Slots : jobs[i].kind \in kinds}
Ended(i) == Put(jobs, i, NoJob)

InitialUi ==
    [cats |-> FALSE, loading |-> TRUE, busy |-> FALSE, saved |-> FALSE, error |-> FALSE,
     needs |-> FALSE, copy |-> NoEvent, id |-> 0,
     banner |-> FALSE, video |-> FALSE, left |-> FALSE]

Init ==
    /\ page \in {"create", "edit", "media"}
    /\ token \in {0, 1} /\ gen = token
    /\ profile \in BOOLEAN /\ (page # "create" => profile)
    /\ events = IF page = "create" THEN <<>> ELSE <<OldEvent>>
    /\ form = EmptyForm /\ ui = InitialUi
    /\ jobs = [i \in Slots |->
                 CASE i = 1 /\ page = "create" -> Job("cats", "cats")
                   [] i = 1 /\ page # "create" /\ token # 0 -> Job("load", "load")
                   [] OTHER -> NoJob]
    /\ edits = 0 /\ saves = 0 /\ uploads = 0 /\ faults = 0
    /\ sent = EmptyForm /\ dirty = FALSE /\ bubbled = FALSE /\ reread = FALSE /\ overlap = FALSE

\* What the pages render: the login hint, the card of the new event, or the form.
View ==
    CASE page = "create" /\ ui.id # 0 -> "created"
      [] token = 0 -> "login"
      [] page = "edit" /\ ui.loading -> "loading"
      [] page = "media" /\ ui.copy = NoEvent -> "loading"
      [] OTHER -> "form"

-----------------------------------------------------------------------------
(* The server.                                                              *)

\* The event after a PATCH with a form: an empty optional field is not sent.
Patched(e, f) == [e EXCEPT !.text = f.text, !.cat = f.cat,
                           !.refund = IF f.refund = 0 THEN @ ELSE f.refund]

Ok(evs, e, id) == [res |-> "ok", events |-> evs, copy |-> e, id |-> id]
Refused(r) == [res |-> r, events |-> events, copy |-> NoEvent, id |-> 0]

Execute(job) ==
    LET f == job.form  sessions == Stored(SessionInputs(f))
        Keep(e) == Ok([events EXCEPT ![job.id] = e], e, job.id)
    IN
    CASE job.call = "create" ->
           IF ~profile THEN Refused("incomplete")
           ELSE IF sessions = <<>> \/ ~LeafCategory(f.cat) THEN Refused("refused")
           ELSE Ok(Append(events, Event(f, sessions)), Event(f, sessions), Len(events) + 1)
      [] job.call = "update" ->
           IF LeafCategory(f.cat) THEN Keep(Patched(events[job.id], f)) ELSE Refused("refused")
      [] job.call = "sessions" ->
           IF sessions = <<>> THEN Refused("refused")
           ELSE Keep([events[job.id] EXCEPT !.sess = sessions])
      [] job.call = "publish" ->
           IF events[job.id].status # "draft" \/ events[job.id].sess = <<>> THEN Refused("refused")
           ELSE Keep([events[job.id] EXCEPT !.status = "published"])
      [] job.call = "banner" -> Keep([events[job.id] EXCEPT !.banner = @ + 1])
      [] job.call = "video" -> Keep([events[job.id] EXCEPT !.video = @ + 1])
      [] job.call = "load" -> Ok(events, events[1], 1)
      [] OTHER -> Refused("ok")

Serve(i, lost) ==
    LET job == jobs[i]  out == Execute(job) IN
    /\ job.kind # "none" /\ job.res = "none"
    /\ events' = out.events
    /\ profile' = (profile \/ job.call = "profile")
    /\ jobs' = Put(jobs, i, IF lost THEN [NoJob EXCEPT !.kind = job.kind, !.call = job.call, !.res = "failed"]
                            ELSE [job EXCEPT !.res = out.res, !.copy = out.copy,
                                             !.form = IF job.kind = "create" THEN EmptyForm ELSE @,
                                             !.id = IF out.id # 0 THEN out.id ELSE @])
    /\ UNCHANGED <<page, token, gen, form, ui, edits, saves, uploads, history>>

ServeCall(i) == Serve(i, FALSE) /\ UNCHANGED faults
LoseAnswer(i) == faults < MaxFaults /\ faults' = faults + 1 /\ Serve(i, TRUE)
Fail(i) ==
    /\ faults < MaxFaults /\ faults' = faults + 1
    /\ jobs[i].kind # "none" /\ jobs[i].res = "none"
    /\ jobs' = Put(jobs, i, [NoJob EXCEPT !.kind = jobs[i].kind, !.call = jobs[i].call, !.res = "failed"])
    /\ UNCHANGED <<page, token, gen, profile, events, form, ui, edits, saves, uploads, history>>

Answered(i, kind) == jobs[i].kind = kind /\ jobs[i].res # "none"
Good(i) == jobs[i].res = "ok"
Server == <<profile, events>>

-----------------------------------------------------------------------------
(* A new token runs the effects of the edit and media pages again; on the   *)
(* create page only the first one matters.                                  *)

ObtainToken ==
    /\ gen < MaxGen /\ gen' = gen + 1 /\ token' = gen + 1
    /\ IF page = "create" THEN token = 0 /\ UNCHANGED jobs
       ELSE Free # {} /\ jobs' = Started(Job("load", "load"))
    /\ reread' = (reread \/ Active({"save"}) # {})
    /\ overlap' = (overlap \/ (page # "create" /\ Active({"load", "banner", "video"}) # {}))
    /\ UNCHANGED <<page, Server, form, ui, bounds, sent, dirty, bubbled>>

AnswerCategories(i) ==
    /\ Answered(i, "cats")
    /\ ui' = [ui EXCEPT !.cats = Good(i), !.error = @ \/ ~Good(i)]
    /\ jobs' = Ended(i)
    /\ UNCHANGED <<page, token, gen, Server, form, bounds, history>>

\* The form (or the copy of the media page) is overwritten by what was read; a
\* failed load ends the loading state all the same.
AnswerLoad(i) ==
    LET e == jobs[i].copy IN
    /\ Answered(i, "load")
    /\ ui' = IF ~Good(i) THEN [ui EXCEPT !.loading = FALSE, !.error = TRUE]
             ELSE [ui EXCEPT !.loading = FALSE, !.cats = TRUE,
                             !.copy = IF page = "media" THEN e ELSE @]
    /\ form' = IF Good(i) /\ page = "edit"
                 THEN [text |-> e.text, refund |-> e.refund, cat |-> e.cat, rows |-> e.sess]
                 ELSE form
    /\ dirty' = (dirty /\ ~(Good(i) /\ page = "edit"))
    /\ jobs' = Ended(i)
    /\ UNCHANGED <<page, token, gen, Server, bounds, sent, bubbled, reread, overlap>>

-----------------------------------------------------------------------------
(* Filling in the form.                                                     *)

Edit(f) ==
    /\ page # "media" /\ View = "form" /\ f # form
    /\ edits < MaxEdits /\ edits' = edits + 1
    /\ form' = f /\ dirty' = (page = "edit")
    /\ UNCHANGED <<page, token, gen, Server, ui, jobs, saves, uploads, faults, sent, bubbled, reread, overlap>>

EditText(t) == Edit([form EXCEPT !.text = t])
EditRefund(r) == page = "edit" /\ Edit([form EXCEPT !.refund = r])
SelectCategory(c) == ui.cats /\ Edit([form EXCEPT !.cat = c])
AddSession == Len(form.rows) < MaxRows /\ Edit([form EXCEPT !.rows = Append(@, EmptyRow)])
RemoveSession(k) ==
    /\ Len(form.rows) > 1
    /\ Edit([form EXCEPT !.rows = SubSeq(@, 1, k - 1) \o SubSeq(@, k + 1, Len(@))])
UpdateSession(k, start) == Edit([form EXCEPT !.rows[k] = start])

-----------------------------------------------------------------------------
(* Submitting the create form: submitEvent.                                 *)

\* Mutant: the button is not disabled while the call is under way.
CanSubmit_NotBusy == View = "form" /\ form.text # 0 /\ form.cat # 0 /\ ~ui.left

CanSubmit == View = "form" /\ ~ui.busy /\ form.text # 0 /\ form.cat # 0 /\ ~ui.left
CreateUi == [ui EXCEPT !.busy = TRUE, !.error = FALSE, !.needs = FALSE]
CreateJob(f) == [Job("create", "create") EXCEPT !.form = f]

ClickCreate ==
    /\ page = "create" /\ CanSubmit /\ Free # {}
    /\ saves < MaxSaves /\ saves' = saves + 1
    /\ ui' = CreateUi /\ jobs' = Started(CreateJob(form))
    /\ UNCHANGED <<page, token, gen, Server, form, edits, uploads, faults, history>>

AnswerCreate(i) ==
    /\ Answered(i, "create")
    /\ ui' = CASE Good(i) -> [ui EXCEPT !.busy = FALSE, !.copy = jobs[i].copy, !.id = jobs[i].id]
               [] jobs[i].res = "incomplete" -> [ui EXCEPT !.busy = FALSE, !.needs = TRUE]
               [] OTHER -> [ui EXCEPT !.busy = FALSE, !.error = TRUE]
    /\ jobs' = Ended(i)
    /\ UNCHANGED <<page, token, gen, Server, form, bounds, history>>

\* The prompt's form stands inside the create form: its submit event also reaches
\* handleSubmit of the outer form, which submits at once, without the name.
SavePrompt ==
    /\ page = "create" /\ View = "form" /\ ui.needs /\ Cardinality(Free) > 1
    /\ LET inner == [Job("prompt", "profile") EXCEPT !.form = form] IN
       jobs' = Put(Started(inner), Min(Free \ {Min(Free)}), CreateJob(form))
    /\ ui' = CreateUi
    /\ bubbled' = TRUE
    /\ UNCHANGED <<page, token, gen, Server, form, bounds, sent, dirty, reread, overlap>>

\* onCompleted is submitEvent with the fields of the render that was submitted.
AnswerPrompt(i) ==
    /\ Answered(i, "prompt")
    /\ IF Good(i) THEN ui' = CreateUi /\ jobs' = Put(jobs, i, CreateJob(jobs[i].form))
       ELSE UNCHANGED ui /\ jobs' = Ended(i)
    /\ UNCHANGED <<page, token, gen, Server, form, bounds, history>>

\* publish, and the push to the event's page.
HandlePublish ==
    /\ View = "created" /\ token # 0 /\ ~ui.left /\ Free # {}
    /\ ui' = [ui EXCEPT !.error = FALSE]
    /\ jobs' = Started([Job("publish", "publish") EXCEPT !.id = ui.id])
    /\ UNCHANGED <<page, token, gen, Server, form, bounds, history>>

AnswerPublish(i) ==
    /\ Answered(i, "publish")
    /\ ui' = IF Good(i) THEN [ui EXCEPT !.left = TRUE] ELSE [ui EXCEPT !.error = TRUE]
    /\ jobs' = Ended(i)
    /\ UNCHANGED <<page, token, gen, Server, form, bounds, history>>

-----------------------------------------------------------------------------
(* Saving the edit form: the event, then its sessions.                      *)

\* Mutant: the form is reset when it is submitted.
ClickSave_Resets ==
    /\ page = "edit" /\ CanSubmit /\ Free # {}
    /\ saves < MaxSaves /\ saves' = saves + 1
    /\ ui' = [ui EXCEPT !.busy = TRUE, !.error = FALSE, !.saved = FALSE]
    /\ jobs' = Started([Job("save", "update") EXCEPT !.form = form, !.id = 1])
    /\ sent' = form /\ form' = EmptyForm /\ dirty' = FALSE /\ reread' = (Active({"load"}) # {})
    /\ UNCHANGED <<page, token, gen, Server, edits, uploads, faults, bubbled, overlap>>

ClickSave ==
    /\ page = "edit" /\ CanSubmit /\ Free # {}
    /\ saves < MaxSaves /\ saves' = saves + 1
    /\ ui' = [ui EXCEPT !.busy = TRUE, !.error = FALSE, !.saved = FALSE]
    /\ jobs' = Started([Job("save", "update") EXCEPT !.form = form, !.id = 1])
    /\ sent' = form /\ dirty' = FALSE /\ reread' = (Active({"load"}) # {})
    /\ UNCHANGED <<page, token, gen, Server, form, edits, uploads, faults, bubbled, overlap>>

\* Mutant: the save ends after its first call.
AnswerUpdate_Ends(i) ==
    /\ Answered(i, "save") /\ jobs[i].call = "update" /\ Good(i)
    /\ ui' = [ui EXCEPT !.saved = TRUE, !.busy = FALSE]
    /\ jobs' = Ended(i)
    /\ UNCHANGED <<page, token, gen, Server, form, bounds, history>>

AnswerUpdate(i) ==
    /\ Answered(i, "save") /\ jobs[i].call = "update" /\ Good(i)
    /\ jobs' = Put(jobs, i, [jobs[i] EXCEPT !.call = "sessions", !.res = "none", !.copy = NoEvent])
    /\ UNCHANGED <<page, token, gen, Server, form, ui, bounds, history>>

AnswerSessions(i) ==
    /\ Answered(i, "save") /\ jobs[i].call = "sessions" /\ Good(i)
    /\ ui' = [ui EXCEPT !.saved = TRUE, !.busy = FALSE]
    /\ jobs' = Ended(i)
    /\ UNCHANGED <<page, token, gen, Server, form, bounds, history>>

\* Mutant: setSaving(false) is missing when a call fails.
AnswerSaveFailure_StaysBusy(i) ==
    /\ Answered(i, "save") /\ ~Good(i)
    /\ ui' = [ui EXCEPT !.error = TRUE]
    /\ jobs' = Ended(i)
    /\ UNCHANGED <<page, token, gen, Server, form, bounds, history>>

AnswerSaveFailure(i) ==
    /\ Answered(i, "save") /\ ~Good(i)
    /\ ui' = [ui EXCEPT !.busy = FALSE, !.error = TRUE]
    /\ jobs' = Ended(i)
    /\ UNCHANGED <<page, token, gen, Server, form, bounds, history>>

-----------------------------------------------------------------------------
(* Uploads, on the card of the new event and on the media page.             *)

Files == {"banner", "video"}

Upload(file) ==
    /\ uploads < MaxUploads /\ uploads' = uploads + 1
    /\ View = "created" \/ (page = "media" /\ View = "form")
    /\ token # 0 /\ ~ui.left /\ Free # {}
    /\ ui' = [ui EXCEPT ![file] = TRUE, !.error = FALSE]
    /\ jobs' = Started([Job(file, file) EXCEPT !.id = IF page = "create" THEN ui.id ELSE 1])
    /\ overlap' = (overlap \/ Active(Files \cup {"load"}) # {})
    /\ UNCHANGED <<page, token, gen, Server, form, edits, saves, faults, sent, dirty, bubbled, reread>>

\* Mutant: the page keeps its own copy.
AnswerUpload_KeepsCopy(i) ==
    LET file == jobs[i].kind IN
    /\ file \in Files /\ jobs[i].res # "none"
    /\ ui' = [ui EXCEPT ![file] = FALSE, !.error = @ \/ ~Good(i)]
    /\ jobs' = Ended(i)
    /\ UNCHANGED <<page, token, gen, Server, form, bounds, history>>

\* The answer replaces the page's whole copy of the event.
AnswerUpload(i) ==
    LET file == jobs[i].kind IN
    /\ file \in Files /\ jobs[i].res # "none"
    /\ ui' = IF Good(i) THEN [ui EXCEPT ![file] = FALSE, !.copy = jobs[i].copy,
                                    !.id = IF page = "create" THEN jobs[i].id ELSE @]
             ELSE [ui EXCEPT ![file] = FALSE, !.error = TRUE]
    /\ jobs' = Ended(i)
    /\ UNCHANGED <<page, token, gen, Server, form, bounds, history>>

-----------------------------------------------------------------------------
Answer(i) ==
    \/ AnswerCategories(i) \/ AnswerLoad(i) \/ AnswerCreate(i) \/ AnswerPrompt(i) \/ AnswerPublish(i)
    \/ AnswerUpdate(i) \/ AnswerSessions(i) \/ AnswerSaveFailure(i) \/ AnswerUpload(i)

Fill ==
    \/ \E t \in Texts \ {0} : EditText(t) \/ EditRefund(t - 1)
    \/ \E c \in Selectable \cup {0} : SelectCategory(c)
    \/ AddSession
    \/ \E k \in DOMAIN form.rows : RemoveSession(k) \/ \E s \in Starts \cup {EmptyRow} : UpdateSession(k, s)

Next ==
    \/ \E i \in Slots : ServeCall(i) \/ LoseAnswer(i) \/ Fail(i) \/ Answer(i)
    \/ ObtainToken \/ Fill
    \/ ClickCreate \/ SavePrompt \/ HandlePublish \/ ClickSave
    \/ \E file \in Files : Upload(file)

\* Every call is executed or fails, and its promise is settled.
Fairness == \A i \in Slots : WF_vars(ServeCall(i)) /\ WF_vars(Answer(i))
Spec == Init /\ [][Next]_vars /\ Fairness

-----------------------------------------------------------------------------
(* Properties.                                                              *)

Rest == \A i \in Slots : jobs[i].kind = "none"

\* Filling in the create form once makes one event, unless a call failed or the
\* profile prompt, a form inside the form, submitted both.
OneEventPerForm == Len(events) > 1 => faults > 0 \/ bubbled

\* "Saved" means that the server holds the fields and the sessions that were
\* submitted; an optional field that was emptied keeps its old value.
SavedMeansStored ==
    ui.saved /\ ~ui.busy =>
        /\ events[1].text = sent.text /\ events[1].cat = sent.cat
        /\ sent.refund # 0 => events[1].refund = sent.refund
        /\ events[1].sess = Stored(SessionInputs(sent))

\* What the form shows is what a load of the event would put into it, but for
\* an optional field that was emptied.
Shows(f, e) ==
    /\ f.text = e.text /\ f.cat = e.cat
    /\ f.refund # 0 => f.refund = e.refund
    /\ Stored(SessionInputs(f)) = e.sess

\* After a save, an unedited form shows the stored event, unless a load of the
\* form (a token was renewed) overlapped the save and read before its last call.
SavedFormIsCurrent == ui.saved /\ Rest /\ ~dirty => Shows(form, events[1]) \/ reread

\* With no call under way the page's copy shows the files the server has, unless
\* two of the calls that answer with the event overlapped, or an answer was lost.
CopyIsCurrent ==
    Rest /\ ui.copy # NoEvent /\ page # "edit" =>
        LET e == events[IF page = "create" THEN ui.id ELSE 1] IN
        \/ ui.copy.banner = e.banner /\ ui.copy.video = e.video
        \/ overlap \/ faults > 0

\* Every button and progress bar is released.
EditorSettles == (ui.busy \/ ui.banner \/ ui.video) ~> ~(ui.busy \/ ui.banner \/ ui.video)

-----------------------------------------------------------------------------
(* What makes the properties inductive.  V is any set that holds the values *)
(* of the fields, whose form does not matter here.                          *)

Forms(V) == [text : V, refund : V, cat : V, rows : V]
Copies(V) == [text : V, refund : V, cat : V, sess : V, banner : Nat, video : Nat, status : V]
Kinds == {"none", "cats", "load", "create", "prompt", "publish", "save", "banner", "video"}
Calls == (Kinds \ {"prompt", "save"}) \cup {"profile", "update", "sessions"}
Jobs(V) == [kind : Kinds, call : Calls, res : {"none", "ok", "refused", "incomplete", "failed"},
            form : Forms(V), copy : Copies(V), id : Nat]
Uis(V) == [cats : BOOLEAN, loading : BOOLEAN, busy : BOOLEAN, saved : BOOLEAN, error : BOOLEAN,
           needs : BOOLEAN, copy : Copies(V), id : Nat,
           banner : BOOLEAN, video : BOOLEAN, left : BOOLEAN]

Typed(V) ==
    /\ {0, <<>>, <<EmptyRow>>, "draft", "published"} \subseteq V
    /\ page \in {"create", "edit", "media"} /\ profile \in BOOLEAN
    /\ events \in Seq(Copies(V)) /\ form \in Forms(V) /\ sent \in Forms(V)
    /\ ui \in Uis(V) /\ jobs \in [Slots -> Jobs(V)]
    /\ faults \in Nat /\ bubbled \in BOOLEAN /\ overlap \in BOOLEAN

TypeOK == \E V : Typed(V)

\* The calls each page makes, and the events they are about.
PageKinds ==
    IF page = "create" THEN {"none", "cats", "create", "prompt", "publish", "banner", "video"}
    ELSE IF page = "edit" THEN {"none", "load", "save"}
    ELSE {"none", "load", "banner", "video"}

CallOf(job) ==
    /\ job.kind = "prompt" => job.call = "profile"
    /\ job.kind = "save" => job.call \in {"update", "sessions"}
    /\ job.kind \notin {"prompt", "save"} => job.call = job.kind

JobShape(job) ==
    /\ job.kind \in PageKinds /\ CallOf(job)
    /\ job.id = 0 \/ job.id \in DOMAIN events
    /\ (job.kind \in {"publish", "save"} \cup Files /\ job.res # "failed") => job.id # 0
    /\ (job.kind = "create" /\ job.res = "ok") => job.id # 0
    /\ (page = "create" /\ job.kind \in {"publish"} \cup Files) => ui.id # 0
    /\ job.res = "failed" => faults > 0

Shape ==
    /\ page # "create" => DOMAIN events = {1} /\ ui.id = 0
    /\ ui.id = 0 \/ ui.id \in DOMAIN events
    /\ \A i \in Slots : JobShape(jobs[i])

\* Without failing calls and the prompt, one submission is under way or done.
OneForm ==
    (page = "create" /\ faults = 0 /\ ~bubbled) =>
        /\ \A i \in Slots : jobs[i].kind # "prompt"
        /\ \A i, j \in Active({"create"}) : i = j
        /\ \A i \in Active({"create"}) :
             ui.busy /\ ui.id = 0 /\ Len(events) = IF Good(i) THEN 1 ELSE 0
        /\ Active({"create"}) = {} => Len(events) = IF ui.id = 0 THEN 0 ELSE 1

FieldsStored ==
    /\ events[1].text = sent.text /\ events[1].cat = sent.cat
    /\ sent.refund # 0 => events[1].refund = sent.refund
SessionsStored == events[1].sess = Stored(SessionInputs(sent))

\* A save carries the form that was submitted, and what it has done is stored.
SaveGood(job) ==
    job.res # "failed" =>
        /\ job.form = sent /\ job.id = 1
        /\ (job.call = "sessions" \/ job.res = "ok") => FieldsStored
        /\ (job.call = "sessions" /\ job.res = "ok") => SessionsStored

\* One save is under way, and its first call was executed before its second.
SaveKnown ==
    /\ page # "edit" => ~ui.saved
    /\ page = "edit" =>
        /\ ui.saved => ~ui.busy /\ FieldsStored /\ SessionsStored
        /\ \A i, j \in Active({"save"}) : i = j
        /\ \A i \in Active({"save"}) : ui.busy /\ SaveGood(jobs[i])

SameFiles(a, b) == a.banner = b.banner /\ a.video = b.video
Target == IF page = "create" THEN ui.id ELSE 1
Readers == Files \cup {"load"}

\* Without failing and overlapping calls, a copy that is on its way is as good
\* as the event, and a new event is untouched until the page knows of it.
CopyKnown ==
    (page # "edit" /\ faults = 0 /\ ~overlap) =>
        /\ \A i, j \in Active(Readers) : i = j
        /\ \A i \in Active(Readers \cup {"create"}) :
             Good(i) => jobs[i].id \in DOMAIN events /\ SameFiles(jobs[i].copy, events[jobs[i].id])
        /\ \A i \in Active({"create"}) :
             Good(i) => jobs[i].id # ui.id /\ \A j \in Slots \ {i} : jobs[j].id # jobs[i].id
        /\ ui.copy # NoEvent =>
             /\ Target \in DOMAIN events
             /\ \/ SameFiles(ui.copy, events[Target])
                \/ \E i \in Active(Files) : Good(i) /\ jobs[i].id = Target

\* The sessions of the edit page are starts, also those that a load brings.
RowsTyped ==
    page = "edit" =>
        /\ form.rows \in Seq(Nat) /\ sent.rows \in Seq(Nat) /\ events[1].sess \in Seq(Nat)
        /\ \A i \in Slots : jobs[i].kind = "load" /\ Good(i) => jobs[i].copy.sess \in Seq(Nat)

\* Unless it is noted, no load overlaps a save, and an unedited form is the one that
\* was sent; afterwards it shows what is stored, and every load reads just that.
FormKnown ==
    page = "edit" /\ ~reread =>
        /\ \A i \in Slots : jobs[i].kind = "save" =>
              (dirty \/ form = sent) /\ \A j \in Slots : jobs[j].kind # "load"
        /\ ui.saved => dirty \/ Shows(form, events[1])
        /\ \A i \in Slots : ui.saved /\ jobs[i].kind = "load" /\ Good(i) => jobs[i].copy = events[1]

IInv == Shape /\ OneForm /\ SaveKnown /\ CopyKnown
=============================================================================
