------------------------------ MODULE Checkout ------------------------------
(***************************************************************************)
(* Buying a ticket in the browser, on either of its two surfaces: the      *)
(* checkout card of an event page (TicketCheckout) and the dialog of an    *)
(* event card (InstantRegisterButton, InstantRegisterModal).  Both show    *)
(* CompleteProfilePrompt when the server answers 422 to a user without a   *)
(* name.                                                                   *)
(*                                                                         *)
(* Every call to the server is a job: the page sends it, the server        *)
(* executes it some time later (Serve), and its answer runs the rest of    *)
(* the handler (the Answer actions).  A call may fail before it is         *)
(* executed, or be executed and lose its answer (Fail); the page cannot    *)
(* tell the two apart.  Calls that only read the server, at a time when    *)
(* the page shows nothing of them yet, are executed when they answer.  A   *)
(* dialog that is closed forgets what its jobs answer, but the jobs go on. *)
(* Which of several sessions is selected plays no part below; the field of *)
(* the discount code is in module ListPages, here a code is usable or not. *)
(* Messages are left out.                                                  *)
(***************************************************************************)
EXTENDS Naturals, Sequences, FiniteSets, FiniteSetsExt

CONSTANTS
    NumTypes,   \* bound: ticket types of the event, in the order of the list
    EarlyBird,  \* the ones sold at an early-bird price
    MaxGen,     \* bound: access tokens the browser obtains
    MaxClicks,  \* bound: clicks that start a purchase
    MaxFaults,  \* bound: calls that fail
    MaxJobs     \* bound: calls under way at a time

ASSUME ConstantsAssumption ==
    /\ {NumTypes, MaxGen, MaxClicks, MaxFaults} \subseteq Nat
    /\ EarlyBird \subseteq 1 .. NumTypes
    /\ MaxJobs \in Nat \ {0, 1}

VARIABLES
    surface,    \* what is on the screen: "page" or "modal"
    sessions,   \* the event has a session
    token,      \* the access token in the store, 0 for none
    gen,        \* tokens obtained so far
    profile,    \* server: the user's name is filled in
    avail,      \* server: what a ticket type offers
    held,       \* server: the user held a ticket before the page was opened
    orders,     \* server: the orders of these surfaces, in order of creation
    page,       \* the state of TicketCheckout
    modal,      \* the state of InstantRegisterButton and its dialog
    jobs,       \* the calls under way
    clicks, faults,
    late,       \* history: TicketCheckout was mounted before a token arrived
    crossed     \* history: the button was clicked while the prompt was saving

vars == <<surface, sessions, token, gen, profile, avail, held, orders, page,
          modal, jobs, clicks, faults, late, crossed>>
server == <<profile, avail, held, orders>>
user == <<surface, sessions, late, token, gen>>

Types == 1 .. NumTypes
Slots == 1 .. MaxJobs
\* "ended": an early-bird type whose time is over.
Offers == {"open", "sold_out", "ended"}

NoJob == [kind |-> "none", call |-> "none", res |-> "none", type |-> 0,
          ord |-> 0, found |-> FALSE, live |-> TRUE]
\* Calls executed at their answer.
Reads == {"list", "detail", "otp", "verify"}
Job(kind, call) == [NoJob EXCEPT !.kind = kind, !.call = call]
Free == {i \in Slots : jobs[i].kind = "none"}
Put(js, i, job) == [js EXCEPT ![i] = job]
Started(job) == Put(jobs, Min(Free), job)
Active(kind) == {i \in Slots : jobs[i].kind = kind}

-----------------------------------------------------------------------------
(* TicketCheckout mounts with its two effects: the list of types, and the   *)
(* user's tickets when there is a token.                                    *)

\* Mutant: checkingExisting starts FALSE even with a token.
MountPage_Unchecked(tok) ==
    [list |-> FALSE, seen |-> <<>>, sel |-> 0, session |-> sessions,
     checking |-> FALSE, existing |-> FALSE,
     busy |-> FALSE, needs |-> FALSE, saving |-> FALSE, done |-> FALSE]

MountPage(tok) ==
    [list |-> FALSE, seen |-> <<>>, sel |-> 0, session |-> sessions,
     checking |-> tok # 0, existing |-> FALSE,
     busy |-> FALSE, needs |-> FALSE, saving |-> FALSE, done |-> FALSE]

MountModal(tok) ==
    [open |-> FALSE, step |-> IF tok = 0 THEN "destination" ELSE "confirm",
     loading |-> FALSE, saving |-> FALSE]

Init ==
    /\ surface \in {"page", "modal"} /\ sessions \in BOOLEAN
    /\ token \in {0, 1} /\ gen = token
    /\ profile \in BOOLEAN
    /\ \E n \in 0 .. NumTypes : avail \in [1 .. n -> {"open", "ended"}]
    /\ \A t \in DOMAIN avail \ EarlyBird : avail[t] = "open"
    /\ held \in BOOLEAN /\ (held => profile /\ surface = "page")
    /\ orders = <<>>
    /\ page = MountPage(token) /\ modal = MountModal(token)
    /\ jobs = [i \in Slots |->
                 CASE surface = "page" /\ i = 1 -> Job("list", "list")
                   [] surface = "page" /\ i = 2 /\ token # 0 -> Job("mine", "mine")
                   [] OTHER -> NoJob]
    /\ clicks = 0 /\ faults = 0 /\ late = (token = 0) /\ crossed = FALSE

\* What TicketCheckout renders; the id "ticket-checkout" is on the cards only.
View ==
    CASE ~page.list \/ page.checking -> "loading"
      [] page.existing /\ ~page.done -> "existing"
      [] page.seen = <<>> -> "empty"
      [] page.done -> "success"
      [] OTHER -> "form"

-----------------------------------------------------------------------------
(* The server, and the calls that fail.                                     *)

\* What the server does for a call, and the orders after it.  POST /orders wants
\* a named user, a type on sale and, if a discount code was typed, a valid one.
Execute(job, badCode) ==
    LET refused == avail[job.type] # "open" \/ (job.kind = "submit" /\ badCode)
        full == avail[job.type] = "sold_out"
    IN
    CASE job.call = "create" /\ ~profile -> [res |-> "incomplete", orders |-> orders]
      [] job.call = "create" /\ profile /\ refused -> [res |-> "refused", orders |-> orders]
      [] job.call = "create" /\ profile /\ ~refused ->
            [res |-> "ok", orders |-> Append(orders, [type |-> job.type, status |-> "pending"])]
      [] job.call = "complete" /\ full -> [res |-> "refused", orders |-> orders]
      [] job.call = "complete" /\ ~full ->
            [res |-> "ok", orders |-> [orders EXCEPT ![job.ord].status = "completed"]]
      [] OTHER -> [res |-> "ok", orders |-> orders]

Owned(os) == held \/ \E k \in DOMAIN os : os[k].status = "completed"

\* The server executes the call of job i; "lost" if the answer does not get through.
Serve(i, lost) == \E badCode \in BOOLEAN :
    LET job == jobs[i]  out == Execute(job, badCode) IN
    /\ job.kind # "none" /\ job.res = "none" /\ job.call \notin Reads
    /\ orders' = out.orders
    /\ profile' = (profile \/ job.call = "profile")
    /\ jobs' = Put(jobs, i,
         [job EXCEPT !.res = IF lost THEN "failed" ELSE out.res,
                     !.found = job.call = "mine" /\ Owned(orders),
                     !.ord = IF job.call = "create" /\ out.res = "ok" THEN Len(out.orders) ELSE @])
    /\ UNCHANGED <<avail, held, user, page, modal, clicks, crossed>>

ServeCall(i) == Serve(i, FALSE) /\ UNCHANGED faults
LoseAnswer(i) == faults < MaxFaults /\ faults' = faults + 1 /\ Serve(i, TRUE)

Fail(i) ==
    /\ faults < MaxFaults /\ faults' = faults + 1
    /\ jobs[i].kind # "none" /\ jobs[i].res = "none"
    /\ jobs' = [jobs EXCEPT ![i].res = "failed"]
    /\ UNCHANGED <<server, user, page, modal, clicks, crossed>>

\* Other buyers take the last ticket of a type.
OthersBuy(t) ==
    /\ t \in DOMAIN avail /\ avail[t] = "open" /\ avail' = [avail EXCEPT ![t] = "sold_out"]
    /\ UNCHANGED <<profile, held, orders, user, page, modal, jobs, clicks, faults, crossed>>

-----------------------------------------------------------------------------
(* The access token: obtained by SessionBootstrap or renewed after a 401,   *)
(* and cleared when a renewal is refused.  Each new token runs the effect   *)
(* that asks for the user's tickets again.                                  *)

ObtainToken ==
    /\ gen < MaxGen /\ gen' = gen + 1 /\ token' = gen + 1
    /\ IF surface = "page"
         THEN Free # {} /\ jobs' = Started(Job("mine", "mine"))
         ELSE UNCHANGED jobs
    /\ UNCHANGED <<server, surface, sessions, late, page, modal, clicks, faults, crossed>>

ClearToken ==
    /\ token # 0 /\ token' = 0
    /\ UNCHANGED <<server, surface, sessions, late, gen, page, modal, jobs, clicks, faults, crossed>>

-----------------------------------------------------------------------------
(* Answers to the effects of the event page.                                *)

Settled(i) == jobs[i].res # "none" \/ jobs[i].call \in Reads
Ok(i) == jobs[i].res = "ok" \/ (jobs[i].res = "none" /\ jobs[i].call \in Reads)
Answered(i, kind) == jobs[i].kind = kind /\ Settled(i)
Ended(i) == Put(jobs, i, NoJob)

FirstAvailable(s) ==
    LET open == {t \in DOMAIN s : s[t] # "sold_out"} IN
    IF open # {} THEN Min(open) ELSE IF s # <<>> THEN 1 ELSE 0

AnswerList(i) ==
    /\ Answered(i, "list")
    /\ page' = IF Ok(i)
                 THEN [page EXCEPT !.list = TRUE, !.seen = avail,
                                   !.sel = FirstAvailable(avail)]
                 ELSE [page EXCEPT !.list = TRUE]
    /\ jobs' = Ended(i)
    /\ UNCHANGED <<server, user, modal, clicks, faults, crossed>>

AnswerMine(i) ==
    /\ Answered(i, "mine")
    /\ page' = [page EXCEPT !.checking = FALSE,
                            !.existing = IF Ok(i) THEN jobs[i].found ELSE @,
                            !.saving = @ /\ ~(Ok(i) /\ jobs[i].found)]
    /\ jobs' = Ended(i)
    /\ UNCHANGED <<server, user, modal, clicks, faults, crossed>>

-----------------------------------------------------------------------------
(* The form of TicketCheckout.                                              *)

OnForm == surface = "page" /\ View = "form"

SelectTicket(t) ==
    /\ OnForm /\ t \in DOMAIN page.seen /\ page.seen[t] = "open"
    /\ page' = [page EXCEPT !.sel = t]
    /\ UNCHANGED <<server, user, modal, jobs, clicks, faults, crossed>>

SubmitEnabled ==
    /\ OnForm /\ token # 0 /\ ~page.busy
    /\ page.sel \in DOMAIN page.seen /\ page.session
    /\ page.seen[page.sel] # "sold_out"

\* handleSubmit with the selection its closure captured.
SubmitPage == [page EXCEPT !.busy = TRUE, !.needs = FALSE, !.saving = FALSE]
SubmitJob(type) == [Job("submit", "create") EXCEPT !.type = type]

ClickSubmit ==
    /\ SubmitEnabled /\ Free # {}
    /\ clicks < MaxClicks /\ clicks' = clicks + 1
    /\ page' = SubmitPage
    /\ jobs' = Started(SubmitJob(page.sel))
    /\ crossed' = (crossed \/ Active("prompt") # {})
    /\ UNCHANGED <<server, user, modal, faults>>

-----------------------------------------------------------------------------
(* CompleteProfilePrompt, on either surface.  onCompleted runs with the     *)
(* selection of the render in which the name was submitted.                 *)

PromptShown ==
    \/ OnForm /\ page.needs /\ ~page.saving
    \/ surface = "modal" /\ modal.open /\ modal.step = "needsProfile" /\ ~modal.saving

SavePrompt ==
    /\ PromptShown /\ token # 0 /\ Free # {}
    /\ page' = [page EXCEPT !.saving = (surface = "page")]
    /\ modal' = [modal EXCEPT !.saving = (surface = "modal")]
    /\ jobs' = Started([Job("prompt", "profile") EXCEPT !.type = page.sel])
    /\ UNCHANGED <<server, user, clicks, faults, crossed>>

RegisterModal == [modal EXCEPT !.step = "submitting", !.loading = TRUE, !.saving = FALSE]

AnswerPrompt(i) ==
    LET job == jobs[i] IN
    /\ Answered(i, "prompt")
    /\ CASE ~Ok(i) ->
              /\ page' = [page EXCEPT !.saving = FALSE]
              /\ modal' = IF job.live THEN [modal EXCEPT !.saving = FALSE] ELSE modal
              /\ jobs' = Ended(i)
         [] Ok(i) /\ surface = "page" ->
              /\ page' = SubmitPage
              /\ jobs' = Put(jobs, i, SubmitJob(job.type))
              /\ UNCHANGED modal
         [] Ok(i) /\ surface = "modal" ->
              /\ modal' = IF job.live THEN RegisterModal ELSE modal
              /\ jobs' = Put(jobs, i, [Job("register", "list") EXCEPT !.live = job.live])
              /\ UNCHANGED page
    /\ UNCHANGED <<server, user, clicks, faults, crossed>>

-----------------------------------------------------------------------------
(* Creating and completing the order; a failure of either is the catch of   *)
(* handleSubmit or register.                                                *)

\* Mutant: setSubmitting(false) and setLoading(false) are not in a finally block.
Finish_NoFinally(job, outcome) ==
    /\ page' = IF job.kind # "submit" THEN page
               ELSE [page EXCEPT !.busy = (outcome = "error"), !.done = @ \/ outcome = "success",
                                 !.needs = @ \/ outcome = "needsProfile"]
    /\ modal' = IF job.kind # "register" \/ ~job.live THEN modal
                ELSE [modal EXCEPT !.step = IF outcome = "error" THEN @ ELSE outcome]

\* The rest of a handler whose outcome is "success", "needsProfile" or "error".
Finish(job, outcome) ==
    /\ page' = IF job.kind # "submit" THEN page
               ELSE [page EXCEPT !.busy = FALSE,
                                 !.done = @ \/ outcome = "success",
                                 !.needs = @ \/ outcome = "needsProfile"]
    /\ modal' = IF job.kind # "register" \/ ~job.live THEN modal
                ELSE [modal EXCEPT !.step = outcome, !.loading = FALSE]

FailureOutcome(job) ==
    IF job.call = "create" /\ job.res = "incomplete" THEN "needsProfile" ELSE "error"

Buying(i) == jobs[i].kind \in {"submit", "register"} /\ Settled(i)

\* Mutant: success is reported when the order is created.
AnswerCreate_Done(i) ==
    /\ Buying(i) /\ jobs[i].call = "create" /\ Ok(i)
    /\ Finish(jobs[i], "success")
    /\ jobs' = Ended(i)
    /\ UNCHANGED <<server, user, clicks, faults, crossed>>

\* Mutant: a dialog that was closed does not complete its order.
AnswerCreate_StopsWhenClosed(i) ==
    /\ Buying(i) /\ jobs[i].call = "create" /\ Ok(i)
    /\ jobs' = IF jobs[i].live THEN Put(jobs, i, [jobs[i] EXCEPT !.call = "complete", !.res = "none"])
               ELSE Ended(i)
    /\ UNCHANGED <<server, user, page, modal, clicks, faults, crossed>>

AnswerCreate(i) ==
    /\ Buying(i) /\ jobs[i].call = "create" /\ Ok(i)
    /\ jobs' = Put(jobs, i, [jobs[i] EXCEPT !.call = "complete", !.res = "none"])
    /\ UNCHANGED <<server, user, page, modal, clicks, faults, crossed>>

AnswerComplete(i) ==
    /\ Buying(i) /\ jobs[i].call = "complete" /\ Ok(i)
    /\ Finish(jobs[i], "success")
    /\ jobs' = Ended(i)
    /\ UNCHANGED <<server, user, clicks, faults, crossed>>

AnswerFailure(i) ==
    /\ Buying(i) /\ ~Ok(i)
    /\ Finish(jobs[i], FailureOutcome(jobs[i]))
    /\ jobs' = Ended(i)
    /\ UNCHANGED <<server, user, clicks, faults, crossed>>

-----------------------------------------------------------------------------
(* The dialog of InstantRegisterModal.                                      *)

InStep(s) == surface = "modal" /\ modal.open /\ modal.step = s

\* InstantRegisterButton mounts a new dialog each time it is opened; of the calls
\* of a closed one, the request of a code changes nothing any more.
OpenModal ==
    /\ surface = "modal" /\ ~modal.open
    /\ modal' = [MountModal(token) EXCEPT !.open = TRUE]
    /\ UNCHANGED <<server, user, page, jobs, clicks, faults, crossed>>

CloseModal ==
    /\ surface = "modal" /\ modal.open
    /\ modal' = MountModal(token)
    /\ jobs' = [i \in Slots |-> IF jobs[i].kind \in {"none", "otp"} THEN NoJob
                                ELSE [jobs[i] EXCEPT !.live = FALSE]]
    /\ UNCHANGED <<server, user, page, clicks, faults, crossed>>

HandleRequestOtp ==
    /\ InStep("destination") /\ ~modal.loading /\ Free # {}
    /\ modal' = [modal EXCEPT !.loading = TRUE]
    /\ jobs' = Started(Job("otp", "otp"))
    /\ UNCHANGED <<server, user, page, clicks, faults, crossed>>

AnswerOtp(i) ==
    /\ Answered(i, "otp")
    /\ modal' = [modal EXCEPT !.loading = FALSE, !.step = IF Ok(i) THEN "otp" ELSE @]
    /\ jobs' = Ended(i)
    /\ UNCHANGED <<server, user, page, clicks, faults, crossed>>

HandleVerifyOtp ==
    /\ InStep("otp") /\ ~modal.loading /\ Free # {}
    /\ clicks < MaxClicks /\ clicks' = clicks + 1
    /\ modal' = [modal EXCEPT !.loading = TRUE]
    /\ jobs' = Started(Job("verify", "verify"))
    /\ UNCHANGED <<server, user, page, faults, crossed>>

\* A wrong code stays on the step; a right one logs in and registers at once,
\* the dialog open or not.
AnswerVerify(i) ==
    /\ Answered(i, "verify")
    /\ \/ /\ modal' = IF jobs[i].live THEN [modal EXCEPT !.loading = FALSE] ELSE modal
          /\ jobs' = Ended(i)
          /\ UNCHANGED <<token, gen>>
       \/ /\ Ok(i) /\ gen < MaxGen /\ gen' = gen + 1 /\ token' = gen + 1
          /\ modal' = IF jobs[i].live THEN RegisterModal ELSE modal
          /\ jobs' = Put(jobs, i, [Job("register", "list") EXCEPT !.live = jobs[i].live])
    /\ UNCHANGED <<server, surface, sessions, late, page, clicks, faults, crossed>>

ClickConfirm ==
    /\ InStep("confirm") /\ token # 0 /\ ~modal.loading /\ Free # {}
    /\ clicks < MaxClicks /\ clicks' = clicks + 1
    /\ modal' = RegisterModal
    /\ jobs' = Started(Job("register", "list"))
    /\ UNCHANGED <<server, user, page, faults, crossed>>

Retry ==
    /\ InStep("error")
    /\ modal' = [modal EXCEPT !.step = IF token # 0 THEN "confirm" ELSE "destination"]
    /\ UNCHANGED <<server, user, page, jobs, clicks, faults, crossed>>

\* register: the first type that is not sold out (or the first), then the
\* event's first session, then the order.
AnswerTypes(i) ==
    LET job == jobs[i]  ticket == FirstAvailable(avail) IN
    /\ Buying(i) /\ job.call = "list" /\ Ok(i)
    /\ IF ticket = 0
         THEN Finish(job, "error") /\ jobs' = Ended(i)
         ELSE /\ jobs' = Put(jobs, i, [job EXCEPT !.call = "detail", !.res = "none", !.type = ticket])
              /\ UNCHANGED <<page, modal>>
    /\ UNCHANGED <<server, user, clicks, faults, crossed>>

AnswerDetail(i) ==
    /\ Buying(i) /\ jobs[i].call = "detail" /\ Ok(i)
    /\ IF ~sessions
         THEN Finish(jobs[i], "error") /\ jobs' = Ended(i)
         ELSE /\ jobs' = Put(jobs, i, [jobs[i] EXCEPT !.call = "create", !.res = "none"])
              /\ UNCHANGED <<page, modal>>
    /\ UNCHANGED <<server, user, clicks, faults, crossed>>

-----------------------------------------------------------------------------
Answer(i) ==
    \/ AnswerList(i) \/ AnswerMine(i)
    \/ AnswerPrompt(i) \/ AnswerCreate(i) \/ AnswerComplete(i) \/ AnswerFailure(i)
    \/ AnswerOtp(i) \/ AnswerVerify(i) \/ AnswerTypes(i) \/ AnswerDetail(i)

UserStep ==
    \/ \E t \in Types : SelectTicket(t)
    \/ ClickSubmit \/ SavePrompt
    \/ OpenModal \/ CloseModal \/ HandleRequestOtp \/ HandleVerifyOtp \/ ClickConfirm \/ Retry

Next ==
    \/ \E i \in Slots : ServeCall(i) \/ LoseAnswer(i) \/ Fail(i) \/ Answer(i)
    \/ \E t \in Types : OthersBuy(t)
    \/ ObtainToken \/ ClearToken \/ UserStep

\* A call is executed or fails, and its promise is settled: request() returns
\* or throws on every path, and the browser gives up on a silent connection.
Fairness == \A i \in Slots : WF_vars(ServeCall(i)) /\ WF_vars(Answer(i))

Spec == Init /\ [][Next]_vars /\ Fairness
-----------------------------------------------------------------------------
(* Properties.                                                              *)

Completed == {k \in DOMAIN orders : orders[k].status = "completed"}
Tickets == Cardinality(Completed) + (IF held THEN 1 ELSE 0)
Buyers == Active("submit") \cup Active("register")

\* Type correctness of the browser's and the server's state.
JobRecord ==
    [kind : {"none", "list", "mine", "prompt", "submit", "register", "otp", "verify"},
     call : {"none", "list", "mine", "profile", "create", "complete", "detail", "otp", "verify"},
     res : {"none", "ok", "incomplete", "refused", "failed"},
     type : Nat, ord : Nat, found : BOOLEAN, live : BOOLEAN]
OrderRecord == [type : Types, status : {"pending", "completed"}]
PageRecord ==
    [list : BOOLEAN, seen : Seq(Offers), sel : Nat, session : BOOLEAN, checking : BOOLEAN,
     existing : BOOLEAN, busy : BOOLEAN, needs : BOOLEAN, saving : BOOLEAN, done : BOOLEAN]
ModalRecord ==
    [open : BOOLEAN, loading : BOOLEAN, saving : BOOLEAN,
     step : {"destination", "otp", "confirm", "submitting", "needsProfile", "success", "error"}]

TypeOK ==
    /\ surface \in {"page", "modal"} /\ sessions \in BOOLEAN
    /\ token \in Nat /\ gen \in Nat
    /\ profile \in BOOLEAN /\ held \in BOOLEAN /\ late \in BOOLEAN /\ crossed \in BOOLEAN
    /\ avail \in Seq(Offers) /\ DOMAIN avail \subseteq Types
    /\ orders \in Seq(OrderRecord)
    /\ page \in PageRecord /\ modal \in ModalRecord
    /\ jobs \in [Slots -> JobRecord]
    /\ clicks \in Nat /\ faults \in Nat

\* The checkout card never sells a second ticket to the same user, except when
\* no check stood in the way: the page was mounted before SessionBootstrap had a
\* token (checkingExisting then starts FALSE), a call failed, or the button was
\* clicked while the profile prompt was saving, whose onCompleted submits again.
SecondTicketExplained ==
    surface = "page" /\ Tickets > 1 => late \/ faults > 0 \/ crossed

\* Success is shown only to a user who got a ticket on this surface, and the
\* checkout card never ends with an unreported ticket unless an answer was lost.
SuccessIsReal ==
    /\ page.done \/ modal.step = "success" => Completed # {}
    /\ surface = "page" /\ Buyers = {} /\ Completed # {} /\ faults = 0 => page.done

\* A pending order is one the browser still carries to its completion, or its
\* completion was refused because the type sold out meanwhile, or a call failed:
\* no handler stops between create and complete.
NoOrderForgotten ==
    \A k \in DOMAIN orders :
        orders[k].status = "pending" =>
            \/ \E i \in Buyers : jobs[i].ord = k
            \/ avail[orders[k].type] = "sold_out"
            \/ faults > 0

\* The buttons come back: neither the card nor the dialog stays busy for ever.
CheckoutSettles ==
    (page.busy \/ modal.step = "submitting") ~> ~(page.busy \/ modal.step = "submitting")

-----------------------------------------------------------------------------
(* What makes the properties above inductive.                               *)

\* The calls a job of each kind makes, and the kinds of jobs a surface starts.
CallsOf(kind) ==
    CASE kind = "prompt"   -> {"profile"}
      [] kind = "submit"   -> {"create", "complete"}
      [] kind = "register" -> {"list", "detail", "create", "complete"}
      [] OTHER             -> {kind}
KindsOn(s) == IF s = "page" THEN {"none", "list", "mine", "prompt", "submit"}
                            ELSE {"none", "prompt", "register", "otp", "verify"}
Fits(job) == job.kind \in KindsOn(surface) /\ job.call \in CallsOf(job.kind)

\* A job that is to buy, or may have to after the prompt, names a type of the event.
Buys(job) == job.kind \in {"submit", "register"}
NamesType(job) ==
    \/ Buys(job) /\ job.call # "list"
    \/ job.kind = "prompt" /\ surface = "page"
    => job.type \in DOMAIN avail
ListNamed ==
    page.seen # <<>> => page.sel \in DOMAIN avail /\ DOMAIN page.seen = DOMAIN avail

\* Where a job that buys is between the creation and the completion of its order.
Carries(job) ==
    /\ job.res = "failed" => faults > 0
    /\ job.ord \in 0 .. Len(orders)
    /\ job.call \in {"list", "detail"} => job.ord = 0 /\ job.res \in {"none", "failed"}
    /\ job.call = "create" =>
         /\ job.res \in {"none", "incomplete", "refused"} => job.ord = 0
         /\ job.res = "ok" => job.ord # 0 /\ orders[job.ord] = [type |-> job.type, status |-> "pending"]
    /\ job.call = "complete" =>
         /\ job.ord # 0 /\ orders[job.ord].type = job.type /\ job.res # "incomplete"
         /\ job.res = "ok" => orders[job.ord].status = "completed"
         /\ job.res \in {"none", "refused"} => orders[job.ord].status = "pending"
         /\ job.res = "refused" => avail[job.type] = "sold_out"

JobsRight == \A i \in Slots :
    Fits(jobs[i]) /\ NamesType(jobs[i]) /\ (Buys(jobs[i]) => Carries(jobs[i]))

\* No two jobs carry one order.
OrdersApart == \A i, j \in Buyers : jobs[i].ord = jobs[j].ord /\ jobs[i].ord # 0 => i = j

\* Success is shown of a completed order only, and a completed order is shown, or
\* about to be, unless a call failed.
Shown == page.done \/ modal.step = "success" => Completed # {}
Reported ==
    surface = "page" /\ faults = 0 =>
        \A k \in Completed : page.done \/ \E i \in Buyers : jobs[i].ord = k

\* A user who had a ticket never sees the form: the check is under way or found it.
HolderKept ==
    surface = "page" /\ held /\ ~late /\ faults = 0 =>
        /\ page.checking \/ page.existing
        /\ Completed = {}
        /\ \A i \in Slots :
             /\ jobs[i].kind \notin {"submit", "prompt"}
             /\ jobs[i].kind = "mine" =>
                  jobs[i].res = "none" \/ (jobs[i].res = "ok" /\ jobs[i].found)

\* One purchase at a time, and none after a completed one.
Purchasing == Active("submit") \cup Active("prompt")
OneFlow ==
    surface = "page" /\ ~held /\ ~crossed /\ faults = 0 =>
        /\ \A i, j \in Purchasing : i = j
        /\ Active("submit") # {} => page.busy /\ ~page.needs
        /\ Active("prompt") # {} => page.saving
        /\ page.done => Purchasing = {}
        /\ \A j, k \in Completed : j = k
        /\ \A i \in Active("mine") : jobs[i].found => Completed # {}

IInv == /\ TypeOK /\ ListNamed /\ JobsRight /\ OrdersApart
        /\ NoOrderForgotten /\ Shown /\ Reported /\ HolderKept /\ OneFlow
=============================================================================
