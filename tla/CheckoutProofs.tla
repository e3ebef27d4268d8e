---------------------------- MODULE CheckoutProofs ----------------------------
(***************************************************************************)
(* Proofs about Checkout for any number of ticket types, tokens, clicks,   *)
(* failing calls and calls under way.                                      *)
(***************************************************************************)
EXTENDS Checkout, SequenceTheorems, TLAPS, FiniteSetTheorems, WellFoundedInduction

\* The least element of a set of numbers is in the set.
LEMMA MinInSet ==
  ASSUME NEW S, S \subseteq Nat, S # {}
  PROVE  Min(S) \in S
<1>1. PICK x \in S : \A y \in S : ~(<<y, x>> \in OpToRel(<, Nat))
  BY NatLessThanWellFounded, WFMin
<1>2. \A y \in S : x <= y
  <2> SUFFICES ASSUME NEW y \in S, y < x PROVE FALSE
    OBVIOUS
  <2>1. <<y, x>> \in OpToRel(<, Nat)
    BY DEF OpToRel
  <2> QED
    BY <1>1, <2>1
<1> QED
  BY <1>2 DEF Min

\* A slot that is free is a slot; slots are numbers.
LEMMA FreeSlot == Free # {} => Min(Free) \in Free /\ Min(Free) \in Slots
<1>1. Free \subseteq Slots /\ Slots \subseteq Nat
  BY ConstantsAssumption DEF Free, Slots
<1> QED
  BY <1>1, MinInSet

\* Rows of the tables are typed.
LEMMA Rows ==
  ASSUME TypeOK
  PROVE  /\ \A k \in DOMAIN orders : orders[k] \in OrderRecord
         /\ \A t \in DOMAIN avail : avail[t] \in Offers
         /\ DOMAIN orders = 1 .. Len(orders) /\ Len(orders) \in Nat
         /\ \A t \in DOMAIN avail : t \in Types /\ t \in Nat
<1>1. orders \in Seq(OrderRecord) /\ avail \in Seq(Offers) /\ DOMAIN avail \subseteq Types
  BY DEF TypeOK
<1>2. \A k \in DOMAIN orders : orders[k] \in OrderRecord
  BY <1>1, LenProperties, ElementOfSeq
<1>3. \A t \in DOMAIN avail : avail[t] \in Offers
  BY <1>1, LenProperties, ElementOfSeq
<1>4. DOMAIN orders = 1 .. Len(orders) /\ Len(orders) \in Nat
  BY <1>1, LenProperties
<1>5. \A t \in DOMAIN avail : t \in Types /\ t \in Nat
  BY <1>1, ConstantsAssumption DEF Types
<1> QED
  BY <1>2, <1>3, <1>4, <1>5

\* The type a page or a dialog chooses first is a type of the event, if it has one.
LEMMA FirstAvailableType ==
  ASSUME TypeOK
  PROVE  /\ FirstAvailable(avail) \in Nat
         /\ avail # <<>> => FirstAvailable(avail) \in DOMAIN avail
         /\ FirstAvailable(avail) # 0 => FirstAvailable(avail) \in DOMAIN avail
<1>1. PICK open : open = {t \in DOMAIN avail : avail[t] # "sold_out"}
  OBVIOUS
<1>2. /\ \A t \in DOMAIN avail : t \in Nat
      /\ DOMAIN avail = 1 .. Len(avail) /\ Len(avail) \in Nat
  BY Rows, LenProperties DEF TypeOK
<1>3. open # {} => Min(open) \in DOMAIN avail
  BY <1>1, <1>2, MinInSet
<1>4. avail # <<>> => 1 \in DOMAIN avail
  <2>1. avail # <<>> => Len(avail) # 0
    BY EmptySeq DEF TypeOK
  <2> QED
    BY <1>2, <2>1
<1>5. FirstAvailable(avail) = IF open # {} THEN Min(open) ELSE IF avail # <<>> THEN 1 ELSE 0
  BY <1>1 DEF FirstAvailable
<1>6. open # {} => avail # <<>>
  BY <1>1
<1> QED
  BY <1>2, <1>3, <1>4, <1>5, <1>6

\* The slot that is not used holds nothing.
LEMMA NoJobFacts ==
  /\ NoJob \in JobRecord /\ NoJob.kind = "none" /\ NoJob.call = "none" /\ NoJob.res = "none"
  /\ NoJob.type = 0 /\ NoJob.ord = 0 /\ ~NoJob.found /\ NoJob.live
BY DEF NoJob, JobRecord

\* A job as it is started.
LEMMA JobFacts ==
  ASSUME NEW kind \in {"list", "mine", "prompt", "submit", "register", "otp", "verify"},
         NEW call \in {"list", "mine", "profile", "create", "otp", "verify"}
  PROVE  /\ Job(kind, call) \in JobRecord
         /\ Job(kind, call).kind = kind /\ Job(kind, call).call = call
         /\ Job(kind, call).res = "none" /\ Job(kind, call).type = 0 /\ Job(kind, call).ord = 0
         /\ ~Job(kind, call).found /\ Job(kind, call).live
BY DEF Job, NoJob, JobRecord

\* The orders that are completed, and the jobs of one kind, depend on little.
LEMMA SameOrders == orders' = orders => Completed' = Completed
BY DEF Completed

-----------------------------------------------------------------------------
(***************************************************************************)
(* A step that puts a job into slot i and changes no order.  What it must  *)
(* respect, in four parts.                                                 *)
(***************************************************************************)

\* The rest of the state stays well typed, and success once shown stays.
Calm ==
  /\ UNCHANGED <<surface, sessions, late, avail, held, orders>>
  /\ profile' \in BOOLEAN /\ token' \in Nat /\ gen' \in Nat /\ clicks' \in Nat
  /\ crossed' \in BOOLEAN /\ (crossed => crossed')
  /\ faults' \in Nat /\ faults <= faults'
  /\ page' \in PageRecord /\ modal' \in ModalRecord
  /\ ListNamed' /\ Shown' /\ (page.done => page'.done)

\* The job is right where it now is and carries no order but its own; an order it
\* lets go of was completed and is reported, or can no longer be completed, or a
\* call failed.
Carried(i, job) ==
  /\ job \in JobRecord /\ Fits(job) /\ NamesType(job) /\ (Buys(job) => Carries(job)')
  /\ Buys(job) /\ job.ord # 0 => Buys(jobs[i]) /\ job.ord = jobs[i].ord
  /\ (Buys(jobs[i]) /\ jobs[i].ord # 0 /\ ~(Buys(job) /\ job.ord = jobs[i].ord)) =>
       \/ faults' > 0
       \/ /\ \/ orders[jobs[i].ord].status = "completed"
             \/ avail[orders[jobs[i].ord].type] = "sold_out"
          /\ surface # "page" \/ page'.done \/ orders[jobs[i].ord].status # "completed"

\* A user who had a ticket still does not see the form.
HolderKeeps(job) ==
  surface = "page" /\ held /\ ~late /\ faults' = 0 =>
    /\ page'.checking \/ page'.existing
    /\ job.kind \notin {"submit", "prompt"}
    /\ job.kind = "mine" => job.res = "none" \/ (job.res = "ok" /\ job.found)

\* A purchase starts only where none is under way, and only a purchase touches what
\* the form says of it.
FlowKept(i, job) ==
  surface = "page" /\ ~held /\ ~crossed' /\ faults' = 0 =>
    /\ job.kind \in {"submit", "prompt"} =>
         /\ jobs[i].kind \in {"submit", "prompt"} \/ Purchasing = {}
         /\ ~page'.done
    /\ job.kind = "submit" => page'.busy /\ ~page'.needs
    /\ job.kind = "prompt" => page'.saving
    /\ \/ jobs[i].kind \in {"submit", "prompt"} \/ Purchasing = {}
       \/ /\ page.busy => page'.busy
          /\ page'.needs => page.needs
          /\ Active("prompt") # {} => (page.saving => page'.saving)
    /\ page'.done => page.done \/ jobs[i].kind \in {"submit", "prompt"}
    /\ job.kind = "mine" => (job.found => Completed # {})

\* The part of the invariant about one purchase at a time.
LEMMA FlowStep ==
  ASSUME IInv, NEW i \in Slots, NEW job, jobs' = [jobs EXCEPT ![i] = job],
         Calm, Carried(i, job), FlowKept(i, job)
  PROVE  OneFlow'
<1> /\ UNCHANGED <<surface, sessions, late, avail, held, orders>>
    /\ crossed' \in BOOLEAN /\ (crossed => crossed')
    /\ faults' \in Nat /\ faults <= faults' /\ job \in JobRecord
  BY DEF Calm, Carried
<1>1. jobs \in [Slots -> JobRecord] /\ faults \in Nat /\ crossed \in BOOLEAN
  BY DEF IInv, TypeOK
<1>2. jobs'[i] = job /\ \A j \in Slots \ {i} : jobs'[j] = jobs[j]
  BY <1>1
<1>3. \A kind : Active(kind) = {j \in Slots : jobs[j].kind = kind}
  BY DEF Active
<1>4. \A kind : Active(kind)' = {j \in Slots : jobs'[j].kind = kind}
  BY DEF Active
<1>5. \A j \in Slots : j \in Purchasing <=> jobs[j].kind \in {"submit", "prompt"}
  BY <1>3 DEF Purchasing
<1>6. \A j \in Slots : j \in Purchasing' <=> jobs'[j].kind \in {"submit", "prompt"}
  BY <1>4 DEF Purchasing
<1>7. Purchasing \subseteq Slots /\ Purchasing' \subseteq Slots
  BY <1>3, <1>4 DEF Purchasing
<1> SUFFICES ASSUME surface = "page", ~held, ~crossed', faults' = 0
             PROVE  /\ \A j, k \in Purchasing' : j = k
                    /\ Active("submit")' # {} => page'.busy /\ ~page'.needs
                    /\ Active("prompt")' # {} => page'.saving
                    /\ page'.done => Purchasing' = {}
                    /\ \A j, k \in Completed' : j = k
                    /\ \A j \in Active("mine")' : jobs'[j].found => Completed' # {}
  BY DEF OneFlow
<1>8. /\ \A j, k \in Purchasing : j = k
      /\ Active("submit") # {} => page.busy /\ ~page.needs
      /\ Active("prompt") # {} => page.saving
      /\ page.done => Purchasing = {}
      /\ \A j, k \in Completed : j = k
      /\ \A j \in Active("mine") : jobs[j].found => Completed # {}
  BY <1>1 DEF IInv, OneFlow
<1> /\ job.kind \in {"submit", "prompt"} =>
         /\ jobs[i].kind \in {"submit", "prompt"} \/ Purchasing = {}
         /\ ~page'.done
    /\ job.kind = "submit" => page'.busy /\ ~page'.needs
    /\ job.kind = "prompt" => page'.saving
    /\ \/ jobs[i].kind \in {"submit", "prompt"} \/ Purchasing = {}
       \/ /\ page.busy => page'.busy
          /\ page'.needs => page.needs
          /\ Active("prompt") # {} => (page.saving => page'.saving)
    /\ page'.done => page.done \/ jobs[i].kind \in {"submit", "prompt"}
    /\ job.kind = "mine" => (job.found => Completed # {})
  BY DEF FlowKept
<1>9. \A j \in Purchasing' : j = i \/ j \in Purchasing
  BY <1>2, <1>5, <1>6, <1>7
<1>10. \A j, k \in Purchasing' : j = k
  <2>1. CASE i \in Purchasing'
    <3>1. i \in Purchasing \/ Purchasing = {}
      BY <1>2, <1>5, <1>6, <2>1
    <3> QED
      BY <1>8, <1>9, <3>1
  <2>2. CASE i \notin Purchasing'
    BY <1>8, <1>9, <2>2
  <2> QED
    BY <2>1, <2>2
<1>11. ASSUME NEW j \in Slots, j \in Purchasing', j # i
       PROVE  /\ i \notin Purchasing /\ Purchasing # {} /\ jobs'[j] = jobs[j]
              /\ page.busy => page'.busy
              /\ page'.needs => page.needs
              /\ Active("prompt") # {} => (page.saving => page'.saving)
  BY <1>2, <1>5, <1>8, <1>9, <1>11
<1>12. Active("submit")' # {} => page'.busy /\ ~page'.needs
  <2> SUFFICES ASSUME NEW j \in Slots, jobs'[j].kind = "submit" PROVE page'.busy /\ ~page'.needs
    BY <1>4
  <2>1. CASE j = i
    BY <1>2, <2>1
  <2>2. CASE j # i
    BY <1>3, <1>6, <1>8, <1>11, <2>2
  <2> QED
    BY <2>1, <2>2
<1>13. Active("prompt")' # {} => page'.saving
  <2> SUFFICES ASSUME NEW j \in Slots, jobs'[j].kind = "prompt" PROVE page'.saving
    BY <1>4
  <2>1. CASE j = i
    BY <1>2, <2>1
  <2>2. CASE j # i
    BY <1>3, <1>6, <1>8, <1>11, <2>2
  <2> QED
    BY <2>1, <2>2
<1>14. page'.done => Purchasing' = {}
  <2> SUFFICES ASSUME page'.done, NEW j \in Slots, j \in Purchasing' PROVE FALSE
    BY <1>7
  <2>1. CASE j = i
    BY <1>2, <1>6, <2>1
  <2>2. CASE j # i
    BY <1>5, <1>8, <1>11, <2>2
  <2> QED
    BY <2>1, <2>2
<1>15. \A j \in Active("mine")' : jobs'[j].found => Completed' # {}
  BY <1>2, <1>3, <1>4, <1>8, SameOrders
<1> QED
  BY <1>8, <1>10, <1>12, <1>13, <1>14, <1>15, SameOrders

\* The whole invariant.
LEMMA JobStep ==
  ASSUME IInv, NEW i \in Slots, NEW job, jobs' = [jobs EXCEPT ![i] = job],
         Calm, Carried(i, job), HolderKeeps(job), FlowKept(i, job)
  PROVE  IInv'
<1> /\ UNCHANGED <<surface, sessions, late, avail, held, orders>>
    /\ crossed' \in BOOLEAN /\ (crossed => crossed')
    /\ faults' \in Nat /\ faults <= faults' /\ job \in JobRecord
  BY DEF Calm, Carried
<1> /\ Fits(job) /\ NamesType(job) /\ (Buys(job) => Carries(job)')
    /\ Buys(job) /\ job.ord # 0 => Buys(jobs[i]) /\ job.ord = jobs[i].ord
    /\ page.done => page'.done
  BY DEF Calm, Carried
<1>1. jobs \in [Slots -> JobRecord] /\ faults \in Nat
  BY DEF IInv, TypeOK
<1>2. jobs'[i] = job /\ \A j \in Slots \ {i} : jobs'[j] = jobs[j]
  BY <1>1
<1>3. faults' = 0 => faults = 0
  BY <1>1
<1>4. TypeOK'
  BY <1>1 DEF IInv, TypeOK, Calm
<1>5. JobsRight'
  <2> SUFFICES ASSUME NEW j \in Slots
               PROVE  (Fits(jobs[j]) /\ NamesType(jobs[j]) /\ (Buys(jobs[j]) => Carries(jobs[j])))'
    BY DEF JobsRight
  <2>1. CASE j = i
    <3>1. Fits(jobs[j])' /\ NamesType(jobs[j])'
      BY <1>2, <2>1 DEF Fits, NamesType, Buys, CallsOf
    <3>2. Buys(jobs[j])' => Carries(jobs[j])'
      BY <1>2, <2>1 DEF Buys, Carries
    <3> QED
      BY <3>1, <3>2
  <2>2. CASE j # i
    <3>1. jobs'[j] = jobs[j] /\ Fits(jobs[j]) /\ NamesType(jobs[j]) /\ (Buys(jobs[j]) => Carries(jobs[j]))
      BY <1>2, <2>2 DEF IInv, JobsRight
    <3>2. Fits(jobs[j])' /\ NamesType(jobs[j])'
      BY <3>1 DEF Fits, NamesType, Buys, CallsOf
    <3>3. Buys(jobs[j])' => Carries(jobs[j])'
      BY <1>1, <3>1 DEF Buys, Carries
    <3> QED
      BY <3>2, <3>3
  <2> QED
    BY <2>1, <2>2
<1>6. \A j \in Slots : j \in Buyers <=> Buys(jobs[j])
  BY DEF Buyers, Active, Buys
<1>7. \A j \in Slots : j \in Buyers' <=> Buys(jobs'[j])
  BY DEF Buyers, Active, Buys
<1>8. Buyers \subseteq Slots /\ Buyers' \subseteq Slots
  BY DEF Buyers, Active
<1>9. \A j \in Buyers' : jobs'[j].ord # 0 => j \in Buyers /\ jobs'[j].ord = jobs[j].ord
  BY <1>2, <1>6, <1>7, <1>8
<1>10. OrdersApart'
  BY <1>9 DEF IInv, OrdersApart
<1>11. ASSUME NEW j \in Buyers, jobs[j].ord # 0, ~(j \in Buyers' /\ jobs'[j].ord = jobs[j].ord)
       PROVE  j = i /\ Buys(jobs[i]) /\ ~(Buys(job) /\ job.ord = jobs[i].ord)
  BY <1>2, <1>6, <1>7, <1>8, <1>11
<1>12. NoOrderForgotten'
  <2> SUFFICES ASSUME NEW k \in DOMAIN orders, orders[k].status = "pending"
               PROVE  \/ \E j \in Buyers' : jobs'[j].ord = k
                      \/ avail[orders[k].type] = "sold_out"
                      \/ faults' > 0
    BY DEF NoOrderForgotten
  <2>1. \/ \E j \in Buyers : jobs[j].ord = k
        \/ avail[orders[k].type] = "sold_out"
        \/ faults > 0
    BY DEF IInv, NoOrderForgotten
  <2>2. k # 0
    BY Rows DEF IInv
  <2>3. ASSUME NEW j \in Buyers, jobs[j].ord = k
        PROVE  \/ \E m \in Buyers' : jobs'[m].ord = k
               \/ avail[orders[k].type] = "sold_out"
               \/ faults' > 0
    BY <1>11, <2>2, <2>3 DEF Carried
  <2> QED
    BY <1>1, <2>1, <2>3
<1>13. Reported'
  <2> SUFFICES ASSUME surface = "page", faults' = 0, NEW k \in Completed
               PROVE  page'.done \/ \E j \in Buyers' : jobs'[j].ord = k
    BY SameOrders DEF Reported
  <2>1. page.done \/ \E j \in Buyers : jobs[j].ord = k
    BY <1>3 DEF IInv, Reported
  <2>2. k # 0 /\ orders[k].status = "completed"
    BY Rows DEF IInv, Completed
  <2>3. ASSUME NEW j \in Buyers, jobs[j].ord = k
        PROVE  page'.done \/ \E m \in Buyers' : jobs'[m].ord = k
    BY <1>11, <2>2, <2>3 DEF Carried
  <2> QED
    BY <2>1, <2>3
<1>14. HolderKept'
  <2> SUFFICES ASSUME surface = "page", held, ~late, faults' = 0
               PROVE  /\ page'.checking \/ page'.existing
                      /\ Completed' = {}
                      /\ \A j \in Slots :
                           /\ jobs'[j].kind \notin {"submit", "prompt"}
                           /\ jobs'[j].kind = "mine" =>
                                jobs'[j].res = "none" \/ (jobs'[j].res = "ok" /\ jobs'[j].found)
    BY DEF HolderKept
  <2>1. /\ Completed = {}
        /\ \A j \in Slots :
             /\ jobs[j].kind \notin {"submit", "prompt"}
             /\ jobs[j].kind = "mine" =>
                  jobs[j].res = "none" \/ (jobs[j].res = "ok" /\ jobs[j].found)
    BY <1>3 DEF IInv, HolderKept
  <2> QED
    BY <1>2, <2>1, SameOrders DEF HolderKeeps
<1>15. OneFlow'
  BY FlowStep
<1> QED
  BY <1>4, <1>5, <1>10, <1>12, <1>13, <1>14, <1>15 DEF IInv, Calm

-----------------------------------------------------------------------------
(* The effects of the event page *)

\* What every proof of a step starts from.
LEMMA Start ==
  ASSUME IInv, NEW i \in Slots
  PROVE  /\ jobs \in [Slots -> JobRecord] /\ jobs[i] \in JobRecord
         /\ Fits(jobs[i]) /\ NamesType(jobs[i]) /\ (Buys(jobs[i]) => Carries(jobs[i]))
         /\ page \in PageRecord /\ modal \in ModalRecord /\ surface \in {"page", "modal"}
         /\ profile \in BOOLEAN /\ token \in Nat /\ gen \in Nat /\ clicks \in Nat
         /\ crossed \in BOOLEAN /\ faults \in Nat
BY DEF IInv, TypeOK, JobsRight

\* An unused slot is right anywhere.
LEMMA NoJobRight == NoJob \in JobRecord /\ Fits(NoJob) /\ NamesType(NoJob) /\ ~Buys(NoJob)
BY DEF NoJob, JobRecord, Fits, NamesType, Buys, CallsOf, KindsOn

\* The list of types arrives.
LEMMA AnswerListStep ==
  ASSUME IInv, NEW i \in Slots, AnswerList(i)
  PROVE  IInv'
<1>1. jobs[i].kind = "list" /\ jobs' = [jobs EXCEPT ![i] = NoJob]
  BY DEF AnswerList, Answered, Ended, Put
<1>2. UNCHANGED <<surface, sessions, late, avail, held, orders, profile, token, gen, modal, clicks, faults, crossed>>
  BY DEF AnswerList, server, user
<1>3. page \in PageRecord
  BY Start
<1>4. PICK seen, sel : seen = avail /\ sel = FirstAvailable(avail)
  OBVIOUS
<1>5. seen \in Seq(Offers) /\ sel \in Nat /\ (seen # <<>> => sel \in DOMAIN avail)
  BY <1>4, FirstAvailableType DEF IInv, TypeOK
<1>6. \/ page' = [page EXCEPT !.list = TRUE, !.seen = seen, !.sel = sel]
      \/ page' = [page EXCEPT !.list = TRUE]
  BY <1>4 DEF AnswerList
<1>7. /\ page' \in PageRecord
      /\ page'.checking = page.checking /\ page'.existing = page.existing
      /\ page'.busy = page.busy /\ page'.needs = page.needs /\ page'.saving = page.saving
      /\ page'.done = page.done
      /\ (page'.seen = seen /\ page'.sel = sel) \/ (page'.seen = page.seen /\ page'.sel = page.sel)
  BY <1>3, <1>5, <1>6 DEF PageRecord
<1>8. ListNamed'
  BY <1>2, <1>4, <1>5, <1>7 DEF IInv, ListNamed
<1>9. Shown'
  BY <1>2, <1>7, SameOrders DEF IInv, Shown
<1>10. Calm
  <2>1. /\ profile' \in BOOLEAN /\ token' \in Nat /\ gen' \in Nat /\ clicks' \in Nat
        /\ crossed' \in BOOLEAN /\ (crossed => crossed')
        /\ faults' \in Nat /\ faults <= faults' /\ modal' \in ModalRecord
    BY <1>2, Start
  <2> QED
    BY <1>2, <1>7, <1>8, <1>9, <2>1 DEF Calm
<1>11. Carried(i, NoJob)
  BY <1>1, NoJobRight DEF Carried, Buys
<1>12. HolderKeeps(NoJob)
  BY <1>2, <1>7, NoJobFacts DEF HolderKeeps, IInv, HolderKept
<1>13. FlowKept(i, NoJob)
  BY <1>1, <1>7, NoJobFacts DEF FlowKept
<1> QED
  BY <1>1, <1>10, <1>11, <1>12, <1>13, JobStep

\* The rest of the state when a step changes neither a table nor a fault.
LEMMA CalmStep ==
  ASSUME IInv, UNCHANGED <<surface, sessions, late, avail, held, orders, profile, faults>>,
         token' \in Nat, gen' \in Nat, clicks' \in Nat, crossed' \in BOOLEAN, crossed => crossed',
         page' \in PageRecord, modal' \in ModalRecord,
         page'.seen = page.seen, page'.sel = page.sel \/ page'.sel \in DOMAIN avail,
         page.done => page'.done,
         page'.done => page.done \/ Completed # {},
         modal'.step = "success" => modal.step = "success" \/ Completed # {}
  PROVE  Calm
<1>1. ListNamed'
  BY DEF IInv, ListNamed
<1>2. Shown'
  BY SameOrders DEF IInv, Shown
<1>3. profile \in BOOLEAN /\ faults \in Nat
  BY DEF IInv, TypeOK
<1> QED
  BY <1>1, <1>2, <1>3 DEF Calm

\* A purchase that stays what it is, or a step that is none.
LEMMA FlowSame ==
  ASSUME IInv, NEW i \in Slots, NEW job, crossed => crossed', faults' \in Nat, faults <= faults',
         page'.busy = page.busy, page'.needs = page.needs, page'.saving = page.saving,
         page'.done = page.done,
         job.kind = jobs[i].kind \/ job.kind \notin {"submit", "prompt"},
         job.kind = "mine" /\ job.found => held \/ Completed # {}
  PROVE  FlowKept(i, job)
<1>1. crossed \in BOOLEAN /\ faults \in Nat
  BY DEF IInv, TypeOK
<1>2. surface = "page" /\ ~held /\ ~crossed' /\ faults' = 0 => ~crossed /\ faults = 0
  BY <1>1
<1>3. /\ jobs[i].kind = "submit" => i \in Active("submit") /\ i \in Purchasing
      /\ jobs[i].kind = "prompt" => i \in Active("prompt") /\ i \in Purchasing
  BY DEF Active, Purchasing
<1>4. surface = "page" /\ ~held /\ ~crossed' /\ faults' = 0 =>
        /\ jobs[i].kind = "submit" => page.busy /\ ~page.needs
        /\ jobs[i].kind = "prompt" => page.saving
        /\ jobs[i].kind \in {"submit", "prompt"} => ~page.done
  BY <1>2, <1>3 DEF IInv, OneFlow
<1> QED
  BY <1>4 DEF FlowKept

\* The answer about the user's tickets arrives.
LEMMA AnswerMineStep ==
  ASSUME IInv, NEW i \in Slots, AnswerMine(i)
  PROVE  IInv'
<1>1. jobs[i].kind = "mine" /\ jobs' = [jobs EXCEPT ![i] = NoJob] /\ (jobs[i].res # "none" \/ jobs[i].call \in Reads)
  BY DEF AnswerMine, Answered, Settled, Ended, Put
<1>2. UNCHANGED <<surface, sessions, late, avail, held, orders, profile, token, gen, modal, clicks, faults, crossed>>
  BY DEF AnswerMine, server, user
<1>3. page \in PageRecord /\ jobs[i] \in JobRecord /\ Fits(jobs[i])
  BY Start
<1>4. jobs[i].call = "mine" /\ jobs[i].res # "none"
  BY <1>1, <1>3 DEF Fits, CallsOf, Reads
<1>5. PICK ex, sv : /\ ex = (IF Ok(i) THEN jobs[i].found ELSE page.existing)
                    /\ sv = (page.saving /\ ~(Ok(i) /\ jobs[i].found))
  OBVIOUS
<1>6. ex \in BOOLEAN /\ sv \in BOOLEAN
  BY <1>3, <1>5 DEF PageRecord, JobRecord
<1>7. page' = [page EXCEPT !.checking = FALSE, !.existing = ex, !.saving = sv]
  BY <1>5 DEF AnswerMine
<1>8. /\ page' \in PageRecord /\ page'.existing = ex /\ page'.saving = sv
      /\ page'.seen = page.seen /\ page'.sel = page.sel
      /\ page'.busy = page.busy /\ page'.needs = page.needs /\ page'.done = page.done
  BY <1>3, <1>6, <1>7 DEF PageRecord
<1>9. Calm
  <2>1. token \in Nat /\ gen \in Nat /\ clicks \in Nat /\ crossed \in BOOLEAN /\ modal \in ModalRecord
    BY Start
  <2> QED
    BY <1>2, <1>8, <2>1, CalmStep
<1>10. Carried(i, NoJob)
  BY <1>1, NoJobRight DEF Carried, Buys
<1>11. HolderKeeps(NoJob)
  <2> SUFFICES ASSUME surface = "page", held, ~late, faults = 0 PROVE ex
    BY <1>2, <1>8, NoJobFacts DEF HolderKeeps
  <2>1. jobs[i].res = "ok" /\ jobs[i].found
    BY <1>1, <1>4 DEF IInv, HolderKept
  <2> QED
    BY <1>5, <2>1 DEF Ok
<1>12. FlowKept(i, NoJob)
  <2> SUFFICES ASSUME surface = "page", ~held, ~crossed, faults = 0, Active("prompt") # {}, page.saving
               PROVE  sv
    BY <1>2, <1>8, NoJobFacts DEF FlowKept
  <2> SUFFICES ASSUME jobs[i].found PROVE FALSE
    BY <1>5
  <2>1. /\ Completed # {} /\ ~page.done
        /\ \A j, k \in Purchasing : j = k
    BY <1>1 DEF IInv, OneFlow, Active, Purchasing
  <2>2. PICK j \in Buyers : TRUE
    BY <2>1 DEF IInv, Reported
  <2>3. j \in Purchasing /\ j \in Active("submit")
    <3>1. j \in Slots /\ jobs[j].kind \in {"submit", "register"} /\ jobs[j].kind \in KindsOn(surface)
      BY <2>2 DEF Buyers, Active, IInv, JobsRight, Fits
    <3> QED
      BY <3>1 DEF KindsOn, Purchasing, Active
  <2>4. PICK m \in Active("prompt") : TRUE
    OBVIOUS
  <2>5. m \in Purchasing
    BY <2>4 DEF Purchasing
  <2> QED
    BY <2>1, <2>3, <2>4, <2>5 DEF Active
<1> QED
  BY <1>1, <1>9, <1>10, <1>11, <1>12, JobStep

-----------------------------------------------------------------------------
(* Steps that start a call, and steps that start none *)

\* On the dialog the two parts about the event page say nothing.
LEMMA OffPage ==
  ASSUME surface # "page", NEW i, NEW job
  PROVE  HolderKeeps(job) /\ FlowKept(i, job)
BY DEF HolderKeeps, FlowKept

\* A call that is new in a slot whose job, if it buys, has no order yet.
LEMMA CarriedNew ==
  ASSUME IInv, NEW i \in Slots, Buys(jobs[i]) => jobs[i].ord = 0,
         NEW job \in JobRecord, Fits(job), NamesType(job), job.ord = 0, job.res = "none",
         job.call # "complete", orders' = orders
  PROVE  Carried(i, job)
<1>1. Len(orders) \in Nat
  BY Rows DEF IInv
<1>2. 0 \in 0 .. Len(orders)
  BY <1>1
<1>3. Carries(job)'
  BY <1>2 DEF Carries
<1> QED
  BY <1>3 DEF Carried

\* A call is started in a free slot.
LEMMA StartStep ==
  ASSUME IInv, Free # {}, NEW job \in JobRecord, jobs' = Started(job), Calm,
         Fits(job), NamesType(job), job.ord = 0, job.res = "none", job.call # "complete",
         HolderKeeps(job), FlowKept(Min(Free), job)
  PROVE  IInv'
<1>1. PICK i : i = Min(Free)
  OBVIOUS
<1>2. i \in Slots /\ jobs[i].kind = "none"
  BY <1>1, FreeSlot DEF Free
<1>3. jobs' = [jobs EXCEPT ![i] = job]
  BY <1>1 DEF Started, Put
<1>4. ~Buys(jobs[i])
  BY <1>2 DEF Buys
<1>5. orders' = orders
  BY DEF Calm
<1>6. Carried(i, job)
  BY <1>2, <1>4, <1>5, CarriedNew
<1> QED
  BY <1>1, <1>2, <1>3, <1>6, JobStep

\* A step that leaves all calls alone.
LEMMA StillStep ==
  ASSUME IInv, jobs' = jobs, Calm,
         page'.checking = page.checking, page'.existing = page.existing,
         page'.busy = page.busy, page'.needs = page.needs, page'.saving = page.saving,
         page'.done = page.done
  PROVE  IInv'
<1>1. 1 \in Slots
  BY ConstantsAssumption DEF Slots
<1>2. PICK job : job = jobs[1]
  OBVIOUS
<1>3. jobs \in [Slots -> JobRecord] /\ job \in JobRecord /\ Fits(job) /\ NamesType(job)
      /\ (Buys(job) => Carries(job)) /\ faults \in Nat
  BY <1>1, <1>2, Start
<1>4. jobs' = [jobs EXCEPT ![1] = job]
  BY <1>1, <1>2, <1>3
<1>5. faults' \in Nat /\ faults <= faults' /\ (crossed => crossed') /\ UNCHANGED <<avail, orders, held, surface, late>>
  BY DEF Calm
<1>6. Buys(job) => Carries(job)'
  BY <1>3, <1>5 DEF Carries
<1>7. Carried(1, job)
  BY <1>2, <1>3, <1>6 DEF Carried
<1>8. HolderKeeps(job)
  <2>1. faults' = 0 => faults = 0
    BY <1>3, <1>5
  <2> QED
    BY <1>1, <1>2, <2>1 DEF HolderKeeps, IInv, HolderKept
<1>9. FlowKept(1, job)
  <2>1. surface = "page" /\ ~held /\ ~crossed' /\ faults' = 0 =>
          (job.kind = "mine" /\ job.found => Completed # {})
    <3>1. faults' = 0 => faults = 0
      BY <1>3, <1>5
    <3> QED
      BY <1>1, <1>2, <1>5, <3>1 DEF IInv, OneFlow, Active
  <2>2. CASE surface = "page" /\ ~held /\ ~crossed' /\ faults' = 0
    BY <1>1, <1>2, <1>5, <2>1, <2>2, FlowSame
  <2>3. CASE ~(surface = "page" /\ ~held /\ ~crossed' /\ faults' = 0)
    BY <2>3 DEF FlowKept
  <2> QED
    BY <2>2, <2>3
<1> QED
  BY <1>1, <1>4, <1>7, <1>8, <1>9, JobStep

\* What the form of the event page says when it is on the screen.
LEMMA OnFormFacts ==
  ASSUME IInv, OnForm
  PROVE  /\ surface = "page" /\ page.seen # <<>> /\ page.sel \in DOMAIN avail /\ page.sel \in Nat
         /\ ~page.checking /\ ~page.existing /\ ~page.done
         /\ ~(held /\ ~late /\ faults = 0)
<1>1. page \in PageRecord
  BY DEF IInv, TypeOK
<1>2. surface = "page" /\ View = "form"
  BY DEF OnForm
<1>3. ~page.checking /\ page.seen # <<>> /\ ~page.done /\ ~page.existing
  BY <1>1, <1>2 DEF View, PageRecord
<1>4. page.sel \in DOMAIN avail
  BY <1>3 DEF IInv, ListNamed
<1>5. page.sel \in Nat
  BY <1>1 DEF PageRecord
<1>6. ~(held /\ ~late /\ faults = 0)
  BY <1>2, <1>3 DEF IInv, HolderKept
<1> QED
  BY <1>2, <1>3, <1>4, <1>5, <1>6

\* A type is chosen on the form.
LEMMA SelectTicketStep ==
  ASSUME IInv, NEW t, SelectTicket(t)
  PROVE  IInv'
<1>1. /\ page' = [page EXCEPT !.sel = t] /\ jobs' = jobs /\ t \in DOMAIN page.seen
      /\ UNCHANGED <<surface, sessions, late, avail, held, orders, profile, faults>>
      /\ UNCHANGED <<token, gen, clicks, crossed, modal>>
  BY DEF SelectTicket, server, user
<1>2. page \in PageRecord /\ t \in DOMAIN avail /\ t \in Nat
  <2>1. page.seen # <<>>
    BY OnFormFacts DEF SelectTicket
  <2>2. t \in DOMAIN avail
    BY <1>1, <2>1 DEF IInv, ListNamed
  <2> QED
    BY <2>2, Rows DEF IInv, TypeOK
<1>3. /\ page' \in PageRecord /\ page'.seen = page.seen /\ page'.sel = t
      /\ page'.checking = page.checking /\ page'.existing = page.existing
      /\ page'.busy = page.busy /\ page'.needs = page.needs /\ page'.saving = page.saving
      /\ page'.done = page.done
  BY <1>1, <1>2 DEF PageRecord
<1>4. Calm
  <2>1. token \in Nat /\ gen \in Nat /\ clicks \in Nat /\ crossed \in BOOLEAN /\ modal \in ModalRecord
    BY DEF IInv, TypeOK
  <2> QED
    BY <1>1, <1>2, <1>3, <2>1, CalmStep
<1> QED
  BY <1>1, <1>3, <1>4, StillStep

\* The user submits the form.
LEMMA ClickSubmitStep ==
  ASSUME IInv, ClickSubmit
  PROVE  IInv'
<1>1. /\ OnForm /\ ~page.busy /\ Free # {}
      /\ jobs' = Started(SubmitJob(page.sel)) /\ page' = SubmitPage
      /\ clicks' = clicks + 1 /\ crossed' = (crossed \/ Active("prompt") # {})
      /\ UNCHANGED <<surface, sessions, late, avail, held, orders, profile, faults>>
      /\ UNCHANGED <<token, gen, modal>>
  BY DEF ClickSubmit, SubmitEnabled, server, user
<1>2. PICK job : job = SubmitJob(page.sel)
  OBVIOUS
<1>3. page.sel \in DOMAIN avail /\ page.sel \in Nat /\ ~page.done /\ surface = "page"
      /\ ~(held /\ ~late /\ faults = 0)
  BY <1>1, OnFormFacts
<1>4. /\ job \in JobRecord /\ job.kind = "submit" /\ job.call = "create" /\ job.res = "none"
      /\ job.type = page.sel /\ job.ord = 0
  BY <1>2, <1>3 DEF SubmitJob, Job, NoJob, JobRecord
<1>5. Fits(job) /\ NamesType(job)
  BY <1>3, <1>4 DEF Fits, NamesType, CallsOf, KindsOn
<1>6. /\ token \in Nat /\ gen \in Nat /\ clicks \in Nat /\ crossed \in BOOLEAN /\ modal \in ModalRecord
      /\ page \in PageRecord /\ faults \in Nat
  BY DEF IInv, TypeOK
<1>7. /\ page' \in PageRecord /\ page'.seen = page.seen /\ page'.sel = page.sel
      /\ page'.busy /\ ~page'.needs /\ page'.done = page.done
  BY <1>1, <1>6 DEF PageRecord, SubmitPage
<1>8. Calm
  BY <1>1, <1>6, <1>7, CalmStep
<1>9. HolderKeeps(job)
  BY <1>1, <1>3 DEF HolderKeeps
<1>10. FlowKept(Min(Free), job)
  <2> SUFFICES ASSUME ~held, ~crossed', faults = 0 PROVE Purchasing = {}
    BY <1>1, <1>3, <1>4, <1>7 DEF FlowKept
  <2>1. Active("prompt") = {} /\ ~crossed
    BY <1>1, <1>6
  <2>2. Active("submit") = {}
    BY <1>1, <1>3, <2>1 DEF IInv, OneFlow
  <2> QED
    BY <2>1, <2>2 DEF Purchasing
<1> QED
  BY <1>1, <1>2, <1>4, <1>5, <1>8, <1>9, <1>10, StartStep

-----------------------------------------------------------------------------
(* The profile prompt *)

\* The user saves the profile.
LEMMA SavePromptStep ==
  ASSUME IInv, SavePrompt
  PROVE  IInv'
<1>1. /\ PromptShown /\ Free # {}
      /\ page' = [page EXCEPT !.saving = (surface = "page")]
      /\ modal' = [modal EXCEPT !.saving = (surface = "modal")]
      /\ jobs' = Started([Job("prompt", "profile") EXCEPT !.type = page.sel])
      /\ UNCHANGED <<surface, sessions, late, avail, held, orders, profile, faults>>
      /\ UNCHANGED <<token, gen, clicks, crossed>>
  BY DEF SavePrompt, server, user
<1>2. PICK job : job = [Job("prompt", "profile") EXCEPT !.type = page.sel]
  OBVIOUS
<1>3. /\ token \in Nat /\ gen \in Nat /\ clicks \in Nat /\ crossed \in BOOLEAN /\ modal \in ModalRecord
      /\ page \in PageRecord /\ faults \in Nat /\ surface \in {"page", "modal"}
  BY DEF IInv, TypeOK
<1>4. /\ job \in JobRecord /\ job.kind = "prompt" /\ job.call = "profile" /\ job.res = "none"
      /\ job.type = page.sel /\ job.ord = 0
  BY <1>2, <1>3 DEF Job, NoJob, JobRecord, PageRecord
<1>5. surface = "page" => OnForm /\ page.needs /\ ~page.saving
  BY <1>1 DEF PromptShown
<1>6. surface = "page" => page.sel \in DOMAIN avail /\ ~page.done /\ ~(held /\ ~late /\ faults = 0)
  BY <1>5, OnFormFacts
<1>7. Fits(job) /\ NamesType(job)
  BY <1>3, <1>4, <1>6 DEF Fits, NamesType, CallsOf, KindsOn, Buys
<1>8. /\ page' \in PageRecord /\ page'.seen = page.seen /\ page'.sel = page.sel
      /\ page'.done = page.done /\ (surface = "page" => page'.saving)
      /\ modal' \in ModalRecord /\ modal'.step = modal.step
  <2>1. PICK sp, sm : sp = (surface = "page") /\ sm = (surface = "modal")
    OBVIOUS
  <2>2. sp \in BOOLEAN /\ sm \in BOOLEAN /\ page' = [page EXCEPT !.saving = sp]
        /\ modal' = [modal EXCEPT !.saving = sm]
    BY <1>1, <2>1
  <2> QED
    BY <1>3, <2>1, <2>2 DEF PageRecord, ModalRecord
<1>9. Calm
  BY <1>1, <1>3, <1>8, CalmStep
<1>10. HolderKeeps(job)
  BY <1>1, <1>6 DEF HolderKeeps
<1>11. FlowKept(Min(Free), job)
  <2> SUFFICES ASSUME surface = "page", ~held, ~crossed, faults = 0 PROVE Purchasing = {}
    BY <1>1, <1>3, <1>4, <1>6, <1>8 DEF FlowKept
  <2>1. Active("prompt") = {} /\ Active("submit") = {}
    BY <1>5 DEF IInv, OneFlow
  <2> QED
    BY <2>1 DEF Purchasing
<1> QED
  BY <1>1, <1>2, <1>4, <1>7, <1>9, <1>10, <1>11, StartStep

\* The profile is saved, or not.
LEMMA AnswerPromptStep ==
  ASSUME IInv, NEW i \in Slots, AnswerPrompt(i)
  PROVE  IInv'
<1>1. /\ jobs[i].kind = "prompt"
      /\ UNCHANGED <<surface, sessions, late, avail, held, orders, profile, faults>>
      /\ UNCHANGED <<token, gen, clicks, crossed>>
  BY DEF AnswerPrompt, Answered, server, user
<1>2. /\ token \in Nat /\ gen \in Nat /\ clicks \in Nat /\ crossed \in BOOLEAN /\ modal \in ModalRecord
      /\ page \in PageRecord /\ faults \in Nat /\ surface \in {"page", "modal"}
      /\ jobs[i] \in JobRecord /\ NamesType(jobs[i])
  BY Start
<1>3. ~Buys(jobs[i])
  BY <1>1 DEF Buys
<1>4. CASE ~Ok(i)
  <2>1. /\ page' = [page EXCEPT !.saving = FALSE] /\ jobs' = [jobs EXCEPT ![i] = NoJob]
        /\ modal' = [modal EXCEPT !.saving = FALSE] \/ modal' = modal
    BY <1>4 DEF AnswerPrompt, Ended, Put
  <2>2. /\ page' \in PageRecord /\ page'.seen = page.seen /\ page'.sel = page.sel
        /\ page'.done = page.done /\ page'.checking = page.checking /\ page'.existing = page.existing
        /\ modal' \in ModalRecord /\ modal'.step = modal.step
    BY <1>2, <2>1 DEF PageRecord, ModalRecord
  <2>3. Calm
    BY <1>1, <1>2, <2>2, CalmStep
  <2>4. Carried(i, NoJob)
    BY <1>3, NoJobRight DEF Carried
  <2>5. HolderKeeps(NoJob)
    BY <1>1, <2>2, NoJobFacts DEF HolderKeeps, IInv, HolderKept
  <2>6. FlowKept(i, NoJob)
    BY <1>1, <2>2, NoJobFacts DEF FlowKept
  <2> QED
    BY <2>1, <2>3, <2>4, <2>5, <2>6, JobStep
<1>5. CASE Ok(i) /\ surface = "page"
  <2>1. PICK job : job = SubmitJob(jobs[i].type)
    OBVIOUS
  <2>2. page' = SubmitPage /\ jobs' = [jobs EXCEPT ![i] = job] /\ modal' = modal
    BY <1>5, <2>1 DEF AnswerPrompt, Put
  <2>3. jobs[i].type \in DOMAIN avail /\ jobs[i].type \in Nat
    BY <1>1, <1>2, <1>5 DEF NamesType, JobRecord
  <2>4. /\ job \in JobRecord /\ job.kind = "submit" /\ job.call = "create" /\ job.res = "none"
        /\ job.type = jobs[i].type /\ job.ord = 0
    BY <2>1, <2>3 DEF SubmitJob, Job, NoJob, JobRecord
  <2>5. Fits(job) /\ NamesType(job)
    BY <1>5, <2>3, <2>4 DEF Fits, NamesType, CallsOf, KindsOn
  <2>6. /\ page' \in PageRecord /\ page'.seen = page.seen /\ page'.sel = page.sel
        /\ page'.busy /\ ~page'.needs /\ page'.done = page.done
    BY <1>2, <2>2 DEF PageRecord, SubmitPage
  <2>7. Calm
    BY <1>1, <1>2, <2>2, <2>6, CalmStep
  <2>8. Carried(i, job)
    BY <1>1, <1>3, <2>4, <2>5, CarriedNew
  <2>9. HolderKeeps(job)
    BY <1>1 DEF HolderKeeps, IInv, HolderKept
  <2>10. FlowKept(i, job)
    <3> SUFFICES ASSUME ~held, ~crossed, faults = 0 PROVE ~page.done
      BY <1>1, <1>5, <2>4, <2>6 DEF FlowKept
    <3>1. i \in Purchasing
      BY <1>1 DEF Purchasing, Active
    <3> QED
      BY <1>5, <3>1 DEF IInv, OneFlow
  <2> QED
    BY <2>2, <2>7, <2>8, <2>9, <2>10, JobStep
<1>6. CASE Ok(i) /\ surface = "modal"
  <2>1. PICK job : job = [Job("register", "list") EXCEPT !.live = jobs[i].live]
    OBVIOUS
  <2>2. page' = page /\ jobs' = [jobs EXCEPT ![i] = job] /\ (modal' = RegisterModal \/ modal' = modal)
    BY <1>6, <2>1 DEF AnswerPrompt, Put
  <2>3. /\ job \in JobRecord /\ job.kind = "register" /\ job.call = "list" /\ job.res = "none"
        /\ job.ord = 0
    BY <1>2, <2>1 DEF Job, NoJob, JobRecord
  <2>4. Fits(job) /\ NamesType(job)
    BY <1>6, <2>3 DEF Fits, NamesType, CallsOf, KindsOn
  <2>5. modal' \in ModalRecord /\ (modal'.step = "success" => modal.step = "success")
    BY <1>2, <2>2 DEF ModalRecord, RegisterModal
  <2>6. Calm
    BY <1>1, <1>2, <2>2, <2>5, CalmStep
  <2>7. Carried(i, job)
    BY <1>1, <1>3, <2>3, <2>4, CarriedNew
  <2>8. HolderKeeps(job) /\ FlowKept(i, job)
    BY <1>6, OffPage
  <2> QED
    BY <2>2, <2>6, <2>7, <2>8, JobStep
<1> QED
  BY <1>2, <1>4, <1>5, <1>6

-----------------------------------------------------------------------------
(* Creating and completing the order *)

\* A handler that ends: success only of a completed order, and the order it carried
\* is completed, or cannot be, or a call failed.
LEMMA FinishStep ==
  ASSUME IInv, NEW i \in Slots, Buying(i), NEW outcome \in {"success", "needsProfile", "error"},
         Finish(jobs[i], outcome), jobs' = [jobs EXCEPT ![i] = NoJob],
         UNCHANGED <<surface, sessions, late, avail, held, orders, profile, faults>>,
         UNCHANGED <<token, gen, clicks, crossed>>,
         outcome = "success" => Completed # {},
         jobs[i].ord # 0 =>
           \/ faults > 0
           \/ outcome = "success" /\ orders[jobs[i].ord].status = "completed"
           \/ /\ avail[orders[jobs[i].ord].type] = "sold_out"
              /\ orders[jobs[i].ord].status # "completed"
  PROVE  IInv'
<1>1. /\ token \in Nat /\ gen \in Nat /\ clicks \in Nat /\ crossed \in BOOLEAN /\ modal \in ModalRecord
      /\ page \in PageRecord /\ faults \in Nat /\ surface \in {"page", "modal"}
      /\ jobs[i] \in JobRecord /\ Fits(jobs[i])
  BY Start
<1>2. jobs[i].kind = (IF surface = "page" THEN "submit" ELSE "register")
  BY <1>1 DEF Buying, Fits, KindsOn
<1>3. PICK dn, nd : dn = (page.done \/ outcome = "success") /\ nd = (page.needs \/ outcome = "needsProfile")
  OBVIOUS
<1>4. dn \in BOOLEAN /\ nd \in BOOLEAN
  BY <1>1, <1>3 DEF PageRecord
<1>5. page' = IF surface # "page" THEN page
              ELSE [page EXCEPT !.busy = FALSE, !.done = dn, !.needs = nd]
  BY <1>1, <1>2, <1>3 DEF Finish
<1>6. \/ modal' = modal
      \/ modal' = [modal EXCEPT !.step = outcome, !.loading = FALSE]
  BY DEF Finish
<1>7. /\ page' \in PageRecord /\ page'.seen = page.seen /\ page'.sel = page.sel
      /\ page'.checking = page.checking /\ page'.existing = page.existing
      /\ page'.done = (IF surface # "page" THEN page.done ELSE dn)
      /\ modal' \in ModalRecord /\ (modal'.step = modal.step \/ modal'.step = outcome)
  BY <1>1, <1>4, <1>5, <1>6 DEF PageRecord, ModalRecord
<1>8. (page.done => page'.done) /\ (page'.done => page.done \/ outcome = "success")
      /\ (surface = "page" /\ outcome = "success" => page'.done)
  BY <1>3, <1>7
<1>9. Calm
  BY <1>1, <1>7, <1>8, CalmStep
<1>10. Carried(i, NoJob)
  BY <1>1, <1>8, NoJobRight DEF Carried
<1>11. HolderKeeps(NoJob)
  BY <1>7, NoJobFacts DEF HolderKeeps, IInv, HolderKept
<1>12. FlowKept(i, NoJob)
  BY <1>2, NoJobFacts DEF FlowKept
<1> QED
  BY <1>9, <1>10, <1>11, <1>12, JobStep

\* A call of a purchase that goes on to its next call.
LEMMA GoOnStep ==
  ASSUME IInv, NEW i \in Slots, Buys(jobs[i]), NEW job \in JobRecord, jobs' = [jobs EXCEPT ![i] = job],
         UNCHANGED <<surface, sessions, late, avail, held, orders, profile, faults>>,
         UNCHANGED <<token, gen, clicks, crossed, page, modal>>,
         job.kind = jobs[i].kind, job.ord = jobs[i].ord,
         Fits(job), NamesType(job), Carries(job)
  PROVE  IInv'
<1>1. /\ token \in Nat /\ gen \in Nat /\ clicks \in Nat /\ crossed \in BOOLEAN /\ modal \in ModalRecord
      /\ page \in PageRecord /\ faults \in Nat
  BY Start
<1>2. Calm
  BY <1>1, CalmStep
<1>3. Carries(job)'
  BY DEF Carries
<1>4. Carried(i, job)
  BY <1>3 DEF Carried, Buys
<1>5. HolderKeeps(job)
  BY DEF HolderKeeps, IInv, HolderKept, Buys
<1>6. FlowKept(i, job)
  BY <1>1, FlowSame DEF Buys
<1> QED
  BY <1>2, <1>4, <1>5, <1>6, JobStep

\* What a call of a purchase answered.
LEMMA BuyingFacts ==
  ASSUME IInv, NEW i \in Slots, Buying(i)
  PROVE  /\ jobs[i] \in JobRecord /\ Buys(jobs[i]) /\ Fits(jobs[i]) /\ NamesType(jobs[i])
         /\ Carries(jobs[i]) /\ jobs[i].call \in {"list", "detail", "create", "complete"}
         /\ jobs[i].call \in {"create", "complete"} => jobs[i].res # "none" /\ (Ok(i) <=> jobs[i].res = "ok")
         /\ jobs[i].call \in {"list", "detail"} /\ jobs[i].res = "none" => Ok(i)
         /\ Ok(i) => jobs[i].res \in {"none", "ok"}
<1>1. jobs[i] \in JobRecord /\ Buys(jobs[i])
  BY Start DEF Buying, Buys
<1>2. Fits(jobs[i]) /\ NamesType(jobs[i]) /\ Carries(jobs[i])
  BY <1>1, Start
<1>3. jobs[i].call \in {"list", "detail", "create", "complete"}
  BY <1>1, <1>2 DEF Fits, CallsOf, Buys
<1> QED
  BY <1>1, <1>2, <1>3 DEF Buying, Settled, Ok, Reads

\* The order is created; the handler asks for its completion.
LEMMA AnswerCreateStep ==
  ASSUME IInv, NEW i \in Slots, AnswerCreate(i)
  PROVE  IInv'
<1>1. /\ Buying(i) /\ jobs[i].call = "create" /\ Ok(i)
      /\ UNCHANGED <<surface, sessions, late, avail, held, orders, profile, faults>>
      /\ UNCHANGED <<token, gen, clicks, crossed, page, modal>>
  BY DEF AnswerCreate, server, user
<1>2. PICK job : job = [jobs[i] EXCEPT !.call = "complete", !.res = "none"]
  OBVIOUS
<1>3. jobs' = [jobs EXCEPT ![i] = job]
  BY <1>2 DEF AnswerCreate, Put
<1>4. /\ jobs[i] \in JobRecord /\ Buys(jobs[i]) /\ Fits(jobs[i]) /\ NamesType(jobs[i])
      /\ Carries(jobs[i]) /\ jobs[i].res = "ok"
  BY <1>1, BuyingFacts
<1>5. /\ job \in JobRecord /\ job.kind = jobs[i].kind /\ job.ord = jobs[i].ord
      /\ job.type = jobs[i].type /\ job.call = "complete" /\ job.res = "none"
  BY <1>2, <1>4 DEF JobRecord
<1>6. Fits(job) /\ NamesType(job)
  BY <1>1, <1>4, <1>5 DEF Fits, NamesType, CallsOf, Buys
<1>7. Carries(job)
  BY <1>1, <1>4, <1>5 DEF Carries
<1> QED
  BY <1>1, <1>3, <1>4, <1>5, <1>6, <1>7, GoOnStep

\* The order is completed.
LEMMA AnswerCompleteStep ==
  ASSUME IInv, NEW i \in Slots, AnswerComplete(i)
  PROVE  IInv'
<1>1. /\ Buying(i) /\ jobs[i].call = "complete" /\ Ok(i) /\ Finish(jobs[i], "success")
      /\ jobs' = [jobs EXCEPT ![i] = NoJob]
      /\ UNCHANGED <<surface, sessions, late, avail, held, orders, profile, faults>>
      /\ UNCHANGED <<token, gen, clicks, crossed>>
  BY DEF AnswerComplete, server, user, Ended, Put
<1>2. Carries(jobs[i]) /\ jobs[i].res = "ok"
  BY <1>1, BuyingFacts
<1>3. jobs[i].ord # 0 /\ jobs[i].ord \in 0 .. Len(orders) /\ orders[jobs[i].ord].status = "completed"
  BY <1>1, <1>2 DEF Carries
<1>4. jobs[i].ord \in Completed
  BY <1>3, Rows DEF IInv, Completed
<1> QED
  BY <1>1, <1>3, <1>4, FinishStep

\* A call of the purchase is refused or fails.
LEMMA AnswerFailureStep ==
  ASSUME IInv, NEW i \in Slots, AnswerFailure(i)
  PROVE  IInv'
<1>1. /\ Buying(i) /\ ~Ok(i) /\ Finish(jobs[i], FailureOutcome(jobs[i]))
      /\ jobs' = [jobs EXCEPT ![i] = NoJob]
      /\ UNCHANGED <<surface, sessions, late, avail, held, orders, profile, faults>>
      /\ UNCHANGED <<token, gen, clicks, crossed>>
  BY DEF AnswerFailure, server, user, Ended, Put
<1>2. PICK outcome : outcome = FailureOutcome(jobs[i])
  OBVIOUS
<1>3. outcome \in {"success", "needsProfile", "error"} /\ outcome # "success"
  BY <1>2 DEF FailureOutcome
<1>4. jobs[i].ord # 0 =>
        \/ faults > 0
        \/ /\ avail[orders[jobs[i].ord].type] = "sold_out"
           /\ orders[jobs[i].ord].status # "completed"
  <2>1. jobs[i] \in JobRecord /\ Carries(jobs[i]) /\ jobs[i].call \in {"list", "detail", "create", "complete"}
    BY <1>1, BuyingFacts
  <2>2. jobs[i].call \in {"list", "detail"} => jobs[i].res # "none"
    BY <1>1, BuyingFacts
  <2>3. jobs[i].call \in {"create", "complete"} => jobs[i].res \notin {"none", "ok"}
    BY <1>1, BuyingFacts
  <2>4. jobs[i].res \in {"none", "ok", "incomplete", "refused", "failed"}
    BY <2>1 DEF JobRecord
  <2> QED
    BY <2>1, <2>2, <2>3, <2>4 DEF Carries
<1> QED
  BY <1>1, <1>2, <1>3, <1>4, FinishStep

-----------------------------------------------------------------------------
(* The access token *)

\* A token arrives; on the event page it starts the check of the user's tickets.
LEMMA ObtainTokenStep ==
  ASSUME IInv, ObtainToken
  PROVE  IInv'
<1>1. /\ gen' = gen + 1 /\ token' = gen + 1
      /\ UNCHANGED <<surface, sessions, late, avail, held, orders, profile, faults>>
      /\ UNCHANGED <<clicks, crossed, page, modal>>
  BY DEF ObtainToken, server
<1>2. /\ gen \in Nat /\ clicks \in Nat /\ crossed \in BOOLEAN /\ modal \in ModalRecord
      /\ page \in PageRecord /\ faults \in Nat
  BY DEF IInv, TypeOK
<1>3. Calm
  BY <1>1, <1>2, CalmStep
<1>4. CASE surface = "page"
  <2>1. PICK job : job = Job("mine", "mine")
    OBVIOUS
  <2>2. Free # {} /\ jobs' = Started(job)
    BY <1>4, <2>1 DEF ObtainToken
  <2>3. /\ job \in JobRecord /\ job.kind = "mine" /\ job.call = "mine" /\ job.res = "none"
        /\ job.ord = 0 /\ ~job.found
    BY <2>1, JobFacts
  <2>4. Fits(job) /\ NamesType(job)
    BY <1>4, <2>3 DEF Fits, NamesType, Buys, CallsOf, KindsOn
  <2>5. HolderKeeps(job)
    BY <1>1, <2>3 DEF HolderKeeps, IInv, HolderKept
  <2>6. Min(Free) \in Slots
    BY <2>2, FreeSlot
  <2>7. FlowKept(Min(Free), job)
    BY <1>1, <1>2, <2>3, <2>6, FlowSame
  <2> QED
    BY <1>3, <2>2, <2>3, <2>4, <2>5, <2>7, StartStep
<1>5. CASE surface # "page"
  <2>1. jobs' = jobs
    BY <1>5 DEF ObtainToken
  <2> QED
    BY <1>1, <1>3, <2>1, StillStep
<1> QED
  BY <1>4, <1>5

\* The token is cleared.
LEMMA ClearTokenStep ==
  ASSUME IInv, ClearToken
  PROVE  IInv'
<1>1. /\ token' = 0 /\ jobs' = jobs
      /\ UNCHANGED <<surface, sessions, late, avail, held, orders, profile, faults>>
      /\ UNCHANGED <<gen, clicks, crossed, page, modal>>
  BY DEF ClearToken, server
<1>2. /\ gen \in Nat /\ clicks \in Nat /\ crossed \in BOOLEAN /\ modal \in ModalRecord
      /\ page \in PageRecord
  BY DEF IInv, TypeOK
<1>3. Calm
  BY <1>1, <1>2, CalmStep
<1> QED
  BY <1>1, <1>3, StillStep

-----------------------------------------------------------------------------
(* The dialog *)

\* A dialog as it is mounted.
LEMMA MountModalFacts ==
  ASSUME NEW tok
  PROVE  /\ MountModal(tok) \in ModalRecord /\ MountModal(tok).step # "success"
         /\ [MountModal(tok) EXCEPT !.open = TRUE] \in ModalRecord
         /\ [MountModal(tok) EXCEPT !.open = TRUE].step # "success"
BY DEF MountModal, ModalRecord

\* Opening the dialog and going back to its first step start no call.
LEMMA OpenRetryStep ==
  ASSUME IInv, OpenModal \/ Retry
  PROVE  IInv'
<1>1. /\ jobs' = jobs /\ UNCHANGED <<surface, sessions, late, avail, held, orders, profile, faults>>
      /\ UNCHANGED <<token, gen, clicks, crossed, page>>
  BY DEF OpenModal, Retry, server, user
<1>2. /\ token \in Nat /\ gen \in Nat /\ clicks \in Nat /\ crossed \in BOOLEAN /\ modal \in ModalRecord
      /\ page \in PageRecord
  BY DEF IInv, TypeOK
<1>3. modal' \in ModalRecord /\ modal'.step # "success"
  <2>1. CASE OpenModal
    BY <2>1, MountModalFacts DEF OpenModal
  <2>2. CASE Retry
    <3>1. PICK st : st = (IF token # 0 THEN "confirm" ELSE "destination")
      OBVIOUS
    <3>2. modal' = [modal EXCEPT !.step = st] /\ st \in {"confirm", "destination"}
      BY <2>2, <3>1 DEF Retry
    <3> QED
      BY <1>2, <3>2 DEF ModalRecord
  <2> QED
    BY <2>1, <2>2
<1>4. Calm
  BY <1>1, <1>2, <1>3, CalmStep
<1> QED
  BY <1>1, <1>4, StillStep

\* The dialog starts a call: for a code, with a code, or to register.
LEMMA DialogStartStep ==
  ASSUME IInv, HandleRequestOtp \/ HandleVerifyOtp \/ ClickConfirm
  PROVE  IInv'
<1>1. /\ surface = "modal" /\ Free # {}
      /\ UNCHANGED <<surface, sessions, late, avail, held, orders, profile, faults>>
      /\ UNCHANGED <<token, gen, crossed, page>>
      /\ clicks' = clicks \/ clicks' = clicks + 1
      /\ modal' = [modal EXCEPT !.loading = TRUE] \/ modal' = RegisterModal
  BY DEF HandleRequestOtp, HandleVerifyOtp, ClickConfirm, InStep, server, user
<1>2. PICK kind \in {"otp", "verify", "register"}, call \in {"otp", "verify", "list"} :
        call \in CallsOf(kind) /\ jobs' = Started(Job(kind, call))
  BY DEF HandleRequestOtp, HandleVerifyOtp, ClickConfirm, CallsOf
<1>3. PICK job : job = Job(kind, call)
  OBVIOUS
<1>4. /\ job \in JobRecord /\ job.kind = kind /\ job.call = call /\ job.res = "none" /\ job.ord = 0
  BY <1>3, JobFacts
<1>5. Fits(job)
  BY <1>1, <1>2, <1>4 DEF Fits, KindsOn
<1>6. NamesType(job)
  BY <1>1, <1>2, <1>4 DEF NamesType, Buys, CallsOf
<1>7. /\ token \in Nat /\ gen \in Nat /\ clicks \in Nat /\ crossed \in BOOLEAN /\ modal \in ModalRecord
      /\ page \in PageRecord
  BY DEF IInv, TypeOK
<1>8. modal' \in ModalRecord /\ (modal'.step = "success" => modal.step = "success")
  BY <1>1, <1>7 DEF ModalRecord, RegisterModal
<1>9. clicks' \in Nat
  BY <1>1, <1>7
<1>10. Calm
  BY <1>1, <1>7, <1>8, <1>9, CalmStep
<1>11. HolderKeeps(job) /\ FlowKept(Min(Free), job)
  BY <1>1, OffPage
<1>12. job.call # "complete"
  BY <1>4
<1> QED
  BY <1>1, <1>2, <1>3, <1>4, <1>5, <1>6, <1>10, <1>11, <1>12, StartStep

\* The dialog's calls for a code and with a code answer.
LEMMA AnswerOtpStep ==
  ASSUME IInv, NEW i \in Slots, AnswerOtp(i)
  PROVE  IInv'
<1>1. /\ jobs[i].kind = "otp" /\ jobs' = [jobs EXCEPT ![i] = NoJob]
      /\ UNCHANGED <<surface, sessions, late, avail, held, orders, profile, faults>>
      /\ UNCHANGED <<token, gen, clicks, crossed, page>>
  BY DEF AnswerOtp, Answered, Ended, Put, server, user
<1>2. PICK st : st = (IF Ok(i) THEN "otp" ELSE modal.step)
  OBVIOUS
<1>3. modal' = [modal EXCEPT !.loading = FALSE, !.step = st]
  BY <1>2 DEF AnswerOtp
<1>4. /\ token \in Nat /\ gen \in Nat /\ clicks \in Nat /\ crossed \in BOOLEAN /\ modal \in ModalRecord
      /\ page \in PageRecord /\ surface \in {"page", "modal"} /\ Fits(jobs[i])
  BY Start
<1>5. modal' \in ModalRecord /\ (modal'.step = "success" => modal.step = "success")
  <2>1. st \in {"destination", "otp", "confirm", "submitting", "needsProfile", "success", "error"}
        /\ (st = "success" => modal.step = "success")
    BY <1>2, <1>4 DEF ModalRecord
  <2> QED
    BY <1>3, <1>4, <2>1 DEF ModalRecord
<1>6. surface # "page"
  BY <1>1, <1>4 DEF Fits, KindsOn
<1>7. Calm
  BY <1>1, <1>4, <1>5, CalmStep
<1>8. Carried(i, NoJob)
  BY <1>1, NoJobRight DEF Carried, Buys
<1>9. HolderKeeps(NoJob) /\ FlowKept(i, NoJob)
  BY <1>6, OffPage
<1> QED
  BY <1>1, <1>7, <1>8, <1>9, JobStep

\* The code is checked: wrong, or the dialog registers at once.
LEMMA AnswerVerifyStep ==
  ASSUME IInv, NEW i \in Slots, AnswerVerify(i)
  PROVE  IInv'
<1>1. /\ jobs[i].kind = "verify"
      /\ UNCHANGED <<surface, sessions, late, avail, held, orders, profile, faults>>
      /\ UNCHANGED <<clicks, crossed, page>>
      /\ (token' = token /\ gen' = gen) \/ (token' = gen + 1 /\ gen' = gen + 1)
      /\ \/ modal' = modal \/ modal' = RegisterModal
         \/ modal' = [modal EXCEPT !.loading = FALSE]
  BY DEF AnswerVerify, Answered, server, user
<1>2. PICK reg : reg = [Job("register", "list") EXCEPT !.live = jobs[i].live]
  OBVIOUS
<1>3. jobs' = [jobs EXCEPT ![i] = NoJob] \/ jobs' = [jobs EXCEPT ![i] = reg]
  BY <1>2 DEF AnswerVerify, Ended, Put
<1>4. /\ token \in Nat /\ gen \in Nat /\ clicks \in Nat /\ crossed \in BOOLEAN /\ modal \in ModalRecord
      /\ page \in PageRecord /\ surface \in {"page", "modal"} /\ Fits(jobs[i]) /\ jobs[i] \in JobRecord
  BY Start
<1>5. modal' \in ModalRecord /\ (modal'.step = "success" => modal.step = "success")
  BY <1>1, <1>4 DEF ModalRecord, RegisterModal
<1>6. surface = "modal"
  BY <1>1, <1>4 DEF Fits, KindsOn
<1>7. token' \in Nat /\ gen' \in Nat
  BY <1>1, <1>4
<1>8. Calm
  BY <1>1, <1>4, <1>5, <1>7, CalmStep
<1>9. ~Buys(jobs[i])
  BY <1>1 DEF Buys
<1>10. Carried(i, NoJob)
  BY <1>9, NoJobRight DEF Carried
<1>11. /\ reg \in JobRecord /\ reg.kind = "register" /\ reg.call = "list" /\ reg.res = "none"
       /\ reg.ord = 0
  BY <1>2, <1>4 DEF Job, NoJob, JobRecord
<1>12. Fits(reg) /\ NamesType(reg)
  BY <1>6, <1>11 DEF Fits, NamesType, CallsOf, KindsOn
<1>13. Carried(i, reg)
  BY <1>1, <1>9, <1>11, <1>12, CarriedNew
<1>14. HolderKeeps(NoJob) /\ FlowKept(i, NoJob) /\ HolderKeeps(reg) /\ FlowKept(i, reg)
  BY <1>6, OffPage
<1>15. CASE jobs' = [jobs EXCEPT ![i] = NoJob]
  BY <1>8, <1>10, <1>14, <1>15, JobStep
<1>16. CASE jobs' = [jobs EXCEPT ![i] = reg]
  BY <1>8, <1>13, <1>14, <1>16, JobStep
<1> QED
  BY <1>3, <1>15, <1>16

\* register goes from the list of types to the event's sessions, and to the order.
LEMMA AnswerTypesStep ==
  ASSUME IInv, NEW i \in Slots, AnswerTypes(i)
  PROVE  IInv'
<1>1. /\ Buying(i) /\ jobs[i].call = "list" /\ Ok(i)
      /\ UNCHANGED <<surface, sessions, late, avail, held, orders, profile, faults>>
      /\ UNCHANGED <<token, gen, clicks, crossed>>
  BY DEF AnswerTypes, server, user
<1>2. /\ jobs[i] \in JobRecord /\ Buys(jobs[i]) /\ Fits(jobs[i]) /\ Carries(jobs[i])
  BY <1>1, BuyingFacts
<1>3. jobs[i].ord = 0
  BY <1>1, <1>2 DEF Carries
<1>4. PICK ticket : ticket = FirstAvailable(avail)
  OBVIOUS
<1>5. CASE ticket = 0
  <2>1. Finish(jobs[i], "error") /\ jobs' = [jobs EXCEPT ![i] = NoJob]
    BY <1>4, <1>5 DEF AnswerTypes, Ended, Put
  <2> QED
    BY <1>1, <1>3, <2>1, FinishStep
<1>6. CASE ticket # 0
  <2>1. PICK job : job = [jobs[i] EXCEPT !.call = "detail", !.res = "none", !.type = ticket]
    OBVIOUS
  <2>2. jobs' = [jobs EXCEPT ![i] = job] /\ UNCHANGED <<page, modal>>
    BY <1>4, <1>6, <2>1 DEF AnswerTypes, Put
  <2>3. ticket \in DOMAIN avail /\ ticket \in Nat
    BY <1>4, <1>6, FirstAvailableType DEF IInv
  <2>4. /\ job \in JobRecord /\ job.kind = jobs[i].kind /\ job.ord = 0
        /\ job.type = ticket /\ job.call = "detail" /\ job.res = "none"
    BY <1>2, <1>3, <2>1, <2>3 DEF JobRecord
  <2>5. Fits(job) /\ NamesType(job)
    BY <1>1, <1>2, <2>3, <2>4 DEF Fits, NamesType, CallsOf, Buys
  <2>6. Carries(job)
    BY <1>2, <1>3, <2>4 DEF Carries
  <2> QED
    BY <1>1, <1>2, <1>3, <2>2, <2>4, <2>5, <2>6, GoOnStep
<1> QED
  BY <1>5, <1>6

\* The event has a session, and register creates the order; or it has none.
LEMMA AnswerDetailStep ==
  ASSUME IInv, NEW i \in Slots, AnswerDetail(i)
  PROVE  IInv'
<1>1. /\ Buying(i) /\ jobs[i].call = "detail" /\ Ok(i)
      /\ UNCHANGED <<surface, sessions, late, avail, held, orders, profile, faults>>
      /\ UNCHANGED <<token, gen, clicks, crossed>>
  BY DEF AnswerDetail, server, user
<1>2. /\ jobs[i] \in JobRecord /\ Buys(jobs[i]) /\ Fits(jobs[i]) /\ NamesType(jobs[i]) /\ Carries(jobs[i])
  BY <1>1, BuyingFacts
<1>3. jobs[i].ord = 0
  BY <1>1, <1>2 DEF Carries
<1>4. CASE ~sessions
  <2>1. Finish(jobs[i], "error") /\ jobs' = [jobs EXCEPT ![i] = NoJob]
    BY <1>4 DEF AnswerDetail, Ended, Put
  <2> QED
    BY <1>1, <1>3, <2>1, FinishStep
<1>5. CASE sessions
  <2>1. PICK job : job = [jobs[i] EXCEPT !.call = "create", !.res = "none"]
    OBVIOUS
  <2>2. jobs' = [jobs EXCEPT ![i] = job] /\ UNCHANGED <<page, modal>>
    BY <1>5, <2>1 DEF AnswerDetail, Put
  <2>3. /\ job \in JobRecord /\ job.kind = jobs[i].kind /\ job.ord = 0
        /\ job.type = jobs[i].type /\ job.call = "create" /\ job.res = "none"
    BY <1>2, <1>3, <2>1 DEF JobRecord
  <2>4. Fits(job) /\ NamesType(job)
    BY <1>1, <1>2, <2>3 DEF Fits, NamesType, CallsOf, Buys
  <2>5. Carries(job)
    BY <1>2, <1>3, <2>3 DEF Carries
  <2> QED
    BY <1>1, <1>2, <1>3, <2>2, <2>3, <2>4, <2>5, GoOnStep
<1> QED
  BY <1>4, <1>5

-----------------------------------------------------------------------------
(* The server *)

\* A call fails.
LEMMA FailStep ==
  ASSUME IInv, NEW i \in Slots, Fail(i)
  PROVE  IInv'
<1>1. /\ faults' = faults + 1 /\ jobs[i].res = "none"
      /\ UNCHANGED <<surface, sessions, late, avail, held, orders, profile>>
      /\ UNCHANGED <<token, gen, clicks, crossed, page, modal>>
  BY DEF Fail, server, user
<1>2. PICK job : job = [jobs[i] EXCEPT !.res = "failed"]
  OBVIOUS
<1>3. jobs' = [jobs EXCEPT ![i] = job]
  BY <1>2 DEF Fail
<1>4. /\ token \in Nat /\ gen \in Nat /\ clicks \in Nat /\ crossed \in BOOLEAN /\ modal \in ModalRecord
      /\ page \in PageRecord /\ faults \in Nat /\ profile \in BOOLEAN
      /\ jobs[i] \in JobRecord /\ Fits(jobs[i]) /\ NamesType(jobs[i]) /\ (Buys(jobs[i]) => Carries(jobs[i]))
  BY Start
<1>5. faults' \in Nat /\ faults <= faults' /\ faults' > 0
  BY <1>1, <1>4
<1>6. /\ job \in JobRecord /\ job.kind = jobs[i].kind /\ job.call = jobs[i].call
      /\ job.ord = jobs[i].ord /\ job.type = jobs[i].type /\ job.res = "failed"
  BY <1>2, <1>4 DEF JobRecord
<1>7. Calm
  <2>1. ListNamed' /\ Shown'
    BY <1>1, SameOrders DEF IInv, ListNamed, Shown
  <2> QED
    BY <1>1, <1>4, <1>5, <2>1 DEF Calm
<1>8. Fits(job) /\ NamesType(job)
  BY <1>4, <1>6 DEF Fits, NamesType, Buys
<1>9. Buys(job) => Carries(job)'
  BY <1>1, <1>4, <1>5, <1>6 DEF Buys, Carries
<1>10. Carried(i, job)
  BY <1>6, <1>8, <1>9 DEF Carried, Buys
<1>11. HolderKeeps(job) /\ FlowKept(i, job)
  BY <1>5 DEF HolderKeeps, FlowKept
<1> QED
  BY <1>3, <1>7, <1>10, <1>11, JobStep

\* What the server does for a call leaves all orders as they were.
LEMMA ServeQuiet ==
  ASSUME IInv, NEW i \in Slots, NEW r \in {"ok", "incomplete", "refused", "failed"}, NEW f \in BOOLEAN,
         jobs[i].res = "none",
         jobs' = [jobs EXCEPT ![i] = [jobs[i] EXCEPT !.res = r, !.found = f, !.ord = jobs[i].ord]],
         UNCHANGED <<surface, sessions, late, avail, held, orders>>,
         UNCHANGED <<token, gen, clicks, crossed, page, modal>>,
         profile' \in BOOLEAN, faults' \in Nat, faults <= faults', r = "failed" => faults' > 0,
         f = (jobs[i].call = "mine" /\ Owned(orders)),
         jobs[i].call \notin {"list", "detail"},
         jobs[i].call = "mine" => r \in {"ok", "failed"},
         jobs[i].call = "create" => r # "ok",
         jobs[i].call = "complete" => r = "failed" \/ (r = "refused" /\ avail[jobs[i].type] = "sold_out")
  PROVE  IInv'
<1>1. PICK job : job = [jobs[i] EXCEPT !.res = r, !.found = f, !.ord = jobs[i].ord]
  OBVIOUS
<1>2. /\ token \in Nat /\ gen \in Nat /\ clicks \in Nat /\ crossed \in BOOLEAN /\ modal \in ModalRecord
      /\ page \in PageRecord /\ faults \in Nat
      /\ jobs[i] \in JobRecord /\ Fits(jobs[i]) /\ NamesType(jobs[i]) /\ (Buys(jobs[i]) => Carries(jobs[i]))
  BY Start
<1>3. /\ job \in JobRecord /\ job.kind = jobs[i].kind /\ job.call = jobs[i].call
      /\ job.ord = jobs[i].ord /\ job.type = jobs[i].type /\ job.res = r /\ job.found = f
  BY <1>1, <1>2 DEF JobRecord
<1>4. Calm
  <2>1. ListNamed' /\ Shown'
    BY SameOrders DEF IInv, ListNamed, Shown
  <2> QED
    BY <1>2, <2>1 DEF Calm
<1>5. Fits(job) /\ NamesType(job)
  BY <1>2, <1>3 DEF Fits, NamesType, Buys
<1>6. Buys(job) => Carries(job)'
  BY <1>2, <1>3 DEF Buys, Carries
<1>7. Carried(i, job)
  BY <1>3, <1>5, <1>6 DEF Carried, Buys
<1>8. jobs[i].kind = "mine" => jobs[i].call = "mine"
  BY <1>2 DEF Fits, CallsOf
<1>9. HolderKeeps(job)
  <2> SUFFICES ASSUME surface = "page", held, ~late, faults' = 0 PROVE HolderKeeps(job)
    BY DEF HolderKeeps
  <2>1. faults = 0
    BY <1>2
  <2>2. /\ page.checking \/ page.existing
        /\ jobs[i].kind \notin {"submit", "prompt"}
    BY <2>1 DEF IInv, HolderKept
  <2>3. jobs[i].call = "mine" => f
    BY DEF Owned
  <2>4. jobs[i].call = "mine" => r = "ok"
    BY <1>2
  <2> QED
    BY <1>3, <1>8, <2>2, <2>3, <2>4 DEF HolderKeeps
<1>10. FlowKept(i, job)
  <2>1. job.kind = "mine" /\ job.found => held \/ Completed # {}
    BY <1>3, <1>8 DEF Owned, Completed
  <2> QED
    BY <1>3, <2>1, FlowSame
<1> QED
  BY <1>1, <1>4, <1>7, <1>9, <1>10, JobStep

\* Jobs that keep their kind keep the sets of jobs of each kind.
LEMMA SameKinds ==
  ASSUME \A j \in Slots : jobs'[j].kind = jobs[j].kind
  PROVE  /\ Active("submit")' = Active("submit") /\ Active("prompt")' = Active("prompt")
         /\ Active("mine")' = Active("mine") /\ Active("register")' = Active("register")
         /\ Buyers' = Buyers /\ Purchasing' = Purchasing
BY DEF Active, Buyers, Purchasing

\* The server creates an order.
LEMMA ServeCreates ==
  ASSUME IInv, NEW i \in Slots, NEW r \in {"ok", "failed"},
         Buys(jobs[i]), jobs[i].call = "create", jobs[i].res = "none",
         orders' = Append(orders, [type |-> jobs[i].type, status |-> "pending"]),
         jobs' = [jobs EXCEPT ![i] = [jobs[i] EXCEPT !.res = r, !.found = FALSE, !.ord = Len(orders')]],
         UNCHANGED <<surface, sessions, late, avail, held>>,
         UNCHANGED <<token, gen, clicks, crossed, page, modal>>,
         profile' \in BOOLEAN, faults' \in Nat, faults <= faults', r = "failed" => faults' > 0
  PROVE  IInv'
<1>1. PICK row : row = [type |-> jobs[i].type, status |-> "pending"]
  OBVIOUS
<1>2. PICK n : n = Len(orders')
  OBVIOUS
<1>3. PICK job : job = [jobs[i] EXCEPT !.res = r, !.found = FALSE, !.ord = n]
  OBVIOUS
<1>4. /\ jobs \in [Slots -> JobRecord] /\ faults \in Nat /\ page \in PageRecord
      /\ jobs[i] \in JobRecord /\ Fits(jobs[i]) /\ NamesType(jobs[i]) /\ Carries(jobs[i])
  BY Start
<1>5. jobs[i].type \in DOMAIN avail /\ jobs[i].type \in Types /\ jobs[i].ord = 0
  BY <1>4, Rows DEF IInv, NamesType, Carries
<1>6. row \in OrderRecord /\ row.status = "pending" /\ row.type = jobs[i].type
  BY <1>1, <1>5 DEF OrderRecord
<1>7. orders \in Seq(OrderRecord) /\ Len(orders) \in Nat /\ DOMAIN orders = 1 .. Len(orders)
  BY Rows DEF IInv, TypeOK
<1>8. /\ orders' \in Seq(OrderRecord) /\ n = Len(orders) + 1 /\ n \notin DOMAIN orders
      /\ DOMAIN orders' = DOMAIN orders \cup {n}
      /\ \A k \in DOMAIN orders : orders'[k] = orders[k]
      /\ orders'[n] = row
  BY <1>1, <1>2, <1>6, <1>7, AppendProperties, LenProperties
<1>9. n \in Nat /\ n # 0
  BY <1>7, <1>8
<1>10. /\ job \in JobRecord /\ job.kind = jobs[i].kind /\ job.call = "create"
       /\ job.ord = n /\ job.type = jobs[i].type /\ job.res = r /\ ~job.found
  BY <1>3, <1>4, <1>9 DEF JobRecord
<1>11. jobs' = [jobs EXCEPT ![i] = job]
  BY <1>2, <1>3
<1>12. jobs'[i] = job /\ \A j \in Slots \ {i} : jobs'[j] = jobs[j]
  BY <1>4, <1>11
<1>13. jobs' \in [Slots -> JobRecord]
  BY <1>4, <1>10, <1>11
<1>14. /\ Active("submit")' = Active("submit") /\ Active("prompt")' = Active("prompt")
       /\ Active("mine")' = Active("mine") /\ Active("register")' = Active("register")
       /\ Buyers' = Buyers /\ Purchasing' = Purchasing
  BY <1>10, <1>12, SameKinds
<1>15. Completed' = Completed
  BY <1>6, <1>8 DEF Completed
<1>16. \A j \in Slots : j \in Buyers <=> Buys(jobs[j])
  BY DEF Buyers, Active, Buys
<1>17. Buyers \subseteq Slots
  BY DEF Buyers, Active
<1>18. \A j \in Buyers : jobs[j].ord \in 0 .. Len(orders)
  BY <1>16, <1>17 DEF IInv, JobsRight, Carries
<1>19. TypeOK'
  BY <1>8, <1>13 DEF IInv, TypeOK
<1>20. JobsRight'
  <2> SUFFICES ASSUME NEW j \in Slots
               PROVE  (Fits(jobs[j]) /\ NamesType(jobs[j]) /\ (Buys(jobs[j]) => Carries(jobs[j])))'
    BY DEF JobsRight
  <2>1. CASE j = i
    <3>1. Fits(jobs[j])' /\ NamesType(jobs[j])'
      BY <1>4, <1>10, <1>12, <2>1 DEF Fits, NamesType, Buys, CallsOf
    <3>2. n \in 0 .. Len(orders')
      BY <1>2, <1>9
    <3>3. Carries(jobs[j])'
      BY <1>1, <1>8, <1>9, <1>10, <1>12, <2>1, <3>2 DEF Carries
    <3> QED
      BY <3>1, <3>3
  <2>2. CASE j # i
    <3>1. jobs'[j] = jobs[j] /\ Fits(jobs[j]) /\ NamesType(jobs[j]) /\ (Buys(jobs[j]) => Carries(jobs[j]))
      BY <1>12, <2>2 DEF IInv, JobsRight
    <3>2. Fits(jobs[j])' /\ NamesType(jobs[j])'
      BY <3>1 DEF Fits, NamesType, Buys, CallsOf
    <3>3. Buys(jobs[j])' => Carries(jobs[j])'
      <4> SUFFICES ASSUME Buys(jobs[j]) PROVE Carries(jobs[j])'
        BY <3>1 DEF Buys
      <4>1. jobs[j].ord \in 0 .. Len(orders) /\ jobs[j].ord \in 0 .. Len(orders')
        BY <1>2, <1>7, <1>8, <1>16, <1>18
      <4>2. jobs[j].ord # 0 => orders'[jobs[j].ord] = orders[jobs[j].ord]
        BY <1>7, <1>8, <4>1
      <4>3. faults > 0 => faults' > 0
        BY <1>4
      <4> QED
        BY <3>1, <4>1, <4>2, <4>3 DEF Carries
    <3> QED
      BY <3>2, <3>3
  <2> QED
    BY <2>1, <2>2
<1>21. OrdersApart'
  <2> SUFFICES ASSUME NEW j \in Buyers, NEW k \in Buyers, jobs'[j].ord = jobs'[k].ord, jobs'[j].ord # 0
               PROVE  j = k
    BY <1>14 DEF OrdersApart
  <2>1. \A m \in Buyers : m # i => jobs'[m].ord = jobs[m].ord /\ jobs[m].ord # n
    BY <1>7, <1>8, <1>12, <1>17, <1>18
  <2>2. jobs'[i].ord = n
    BY <1>10, <1>12
  <2>3. j = i <=> k = i
    BY <2>1, <2>2
  <2> QED
    BY <2>1, <2>3 DEF IInv, OrdersApart
<1>22. NoOrderForgotten'
  <2> SUFFICES ASSUME NEW k \in DOMAIN orders', orders'[k].status = "pending"
               PROVE  \/ \E j \in Buyers : jobs'[j].ord = k
                      \/ avail[orders'[k].type] = "sold_out"
                      \/ faults' > 0
    BY <1>14 DEF NoOrderForgotten
  <2>1. CASE k = n
    BY <1>10, <1>12, <1>16, <2>1
  <2>2. CASE k # n
    <3>1. k \in DOMAIN orders /\ orders'[k] = orders[k] /\ k # 0
      BY <1>7, <1>8, <2>2
    <3>2. \/ \E j \in Buyers : jobs[j].ord = k
          \/ avail[orders[k].type] = "sold_out"
          \/ faults > 0
      BY <3>1 DEF IInv, NoOrderForgotten
    <3>3. \A j \in Buyers : jobs[j].ord = k => jobs'[j].ord = k
      BY <1>5, <1>12, <1>17, <3>1
    <3> QED
      BY <1>4, <3>1, <3>2, <3>3
  <2> QED
    BY <2>1, <2>2
<1>23. ListNamed' /\ Shown'
  BY <1>15 DEF IInv, ListNamed, Shown
<1>24. faults' = 0 => faults = 0
  BY <1>4
<1>25. Reported'
  <2> SUFFICES ASSUME surface = "page", faults' = 0, NEW k \in Completed
               PROVE  page.done \/ \E j \in Buyers : jobs'[j].ord = k
    BY <1>14, <1>15 DEF Reported
  <2>1. page.done \/ \E j \in Buyers : jobs[j].ord = k
    BY <1>24 DEF IInv, Reported
  <2>2. k # 0
    BY <1>7 DEF Completed
  <2> QED
    BY <1>5, <1>12, <1>17, <2>1, <2>2
<1>26. HolderKept'
  <2> SUFFICES ASSUME surface = "page", held, ~late, faults' = 0 PROVE HolderKept'
    BY DEF HolderKept
  <2>1. jobs[i].kind = "submit"
    BY <1>4 DEF Fits, KindsOn, Buys
  <2> QED
    BY <1>24, <2>1 DEF IInv, HolderKept
<1>27. OneFlow'
  <2>1. \A j \in Active("mine") : jobs'[j] = jobs[j]
    BY <1>12 DEF Active, Buys
  <2> QED
    BY <1>14, <1>15, <1>24, <2>1 DEF IInv, OneFlow
<1> QED
  BY <1>19, <1>20, <1>21, <1>22, <1>23, <1>25, <1>26, <1>27 DEF IInv

\* On the event page the order being completed is the user's first.
LEMMA FirstOrder ==
  ASSUME IInv, surface = "page", ~held, ~crossed, faults = 0,
         NEW i \in Slots, jobs[i].kind = "submit",
         jobs[i].ord \notin Completed
  PROVE  Completed = {}
<1> SUFFICES ASSUME NEW m \in Completed PROVE FALSE
  OBVIOUS
<1>1. i \in Purchasing
  BY DEF Purchasing, Active
<1>2. ~page.done /\ \A j, k \in Purchasing : j = k
  BY <1>1 DEF IInv, OneFlow
<1>3. PICK j \in Buyers : jobs[j].ord = m
  BY <1>2 DEF IInv, Reported
<1>4. j \in Slots /\ jobs[j].kind \in {"submit", "register"} /\ jobs[j].kind \in KindsOn(surface)
  BY <1>3 DEF Buyers, Active, IInv, JobsRight, Fits
<1>5. j \in Purchasing
  BY <1>4 DEF KindsOn, Purchasing, Active
<1> QED
  BY <1>1, <1>2, <1>3, <1>5

\* The server completes an order.
LEMMA ServeCompletes ==
  ASSUME IInv, NEW i \in Slots, NEW r \in {"ok", "failed"},
         Buys(jobs[i]), jobs[i].call = "complete", jobs[i].res = "none",
         orders' = [orders EXCEPT ![jobs[i].ord].status = "completed"],
         jobs' = [jobs EXCEPT ![i] = [jobs[i] EXCEPT !.res = r, !.found = FALSE, !.ord = jobs[i].ord]],
         UNCHANGED <<surface, sessions, late, avail, held>>,
         UNCHANGED <<token, gen, clicks, crossed, page, modal>>,
         profile' \in BOOLEAN, faults' \in Nat, faults <= faults', r = "failed" => faults' > 0
  PROVE  IInv'
<1>1. PICK n : n = jobs[i].ord
  OBVIOUS
<1>2. PICK row : row = [orders[n] EXCEPT !.status = "completed"]
  OBVIOUS
<1>3. PICK job : job = [jobs[i] EXCEPT !.res = r, !.found = FALSE, !.ord = n]
  OBVIOUS
<1>4. /\ jobs \in [Slots -> JobRecord] /\ faults \in Nat /\ page \in PageRecord /\ crossed \in BOOLEAN
      /\ jobs[i] \in JobRecord /\ Fits(jobs[i]) /\ NamesType(jobs[i]) /\ Carries(jobs[i])
  BY Start
<1>5. /\ orders \in Seq(OrderRecord) /\ Len(orders) \in Nat /\ DOMAIN orders = 1 .. Len(orders)
      /\ \A k \in DOMAIN orders : orders[k] \in OrderRecord
  BY Rows DEF IInv, TypeOK
<1>6. /\ n # 0 /\ n \in 0 .. Len(orders) /\ orders[n].type = jobs[i].type
      /\ orders[n].status = "pending"
  BY <1>1, <1>4 DEF Carries
<1>7. n \in DOMAIN orders /\ n \in Nat
  BY <1>5, <1>6
<1>8. row \in OrderRecord /\ row.status = "completed" /\ row.type = orders[n].type
  BY <1>2, <1>5, <1>7 DEF OrderRecord
<1>9. orders' = [orders EXCEPT ![n] = row]
  BY <1>1, <1>2
<1>10. /\ orders' \in Seq(OrderRecord) /\ DOMAIN orders' = DOMAIN orders /\ Len(orders') = Len(orders)
       /\ \A k \in DOMAIN orders : orders'[k] = IF k = n THEN row ELSE orders[k]
  <2>1. PICK after : after = [orders EXCEPT ![n] = row]
    OBVIOUS
  <2>2. /\ after \in Seq(OrderRecord) /\ DOMAIN after = DOMAIN orders /\ Len(after) = Len(orders)
        /\ \A k \in DOMAIN orders : after[k] = IF k = n THEN row ELSE orders[k]
    BY <1>5, <1>7, <1>8, <2>1, LenProperties, ExceptSeq
  <2> QED
    BY <1>9, <2>1, <2>2
<1>11. /\ job \in JobRecord /\ job.kind = jobs[i].kind /\ job.call = "complete"
       /\ job.ord = n /\ job.type = jobs[i].type /\ job.res = r /\ ~job.found
  BY <1>1, <1>3, <1>4 DEF JobRecord
<1>12. jobs' = [jobs EXCEPT ![i] = job]
  BY <1>1, <1>3
<1>13. jobs'[i] = job /\ \A j \in Slots \ {i} : jobs'[j] = jobs[j]
  BY <1>4, <1>12
<1>14. jobs' \in [Slots -> JobRecord]
  BY <1>4, <1>11, <1>12
<1>15. /\ Active("submit")' = Active("submit") /\ Active("prompt")' = Active("prompt")
       /\ Active("mine")' = Active("mine") /\ Active("register")' = Active("register")
       /\ Buyers' = Buyers /\ Purchasing' = Purchasing
  BY <1>11, <1>13, SameKinds
<1>16. Completed' = Completed \cup {n} /\ n \notin Completed
  BY <1>6, <1>7, <1>8, <1>10 DEF Completed
<1>17. \A j \in Slots : j \in Buyers <=> Buys(jobs[j])
  BY DEF Buyers, Active, Buys
<1>18. Buyers \subseteq Slots
  BY DEF Buyers, Active
<1>19. \A j \in Slots : jobs'[j].ord = jobs[j].ord
  BY <1>1, <1>11, <1>13
<1>20. \A j \in Buyers : j # i => jobs[j].ord # n
  BY <1>1, <1>6, <1>17 DEF IInv, OrdersApart
<1>21. faults' = 0 => faults = 0
  BY <1>4
<1>22. TypeOK'
  BY <1>10, <1>14 DEF IInv, TypeOK
<1>23. JobsRight'
  <2> SUFFICES ASSUME NEW j \in Slots
               PROVE  (Fits(jobs[j]) /\ NamesType(jobs[j]) /\ (Buys(jobs[j]) => Carries(jobs[j])))'
    BY DEF JobsRight
  <2>1. CASE j = i
    <3>1. Fits(jobs[j])' /\ NamesType(jobs[j])'
      BY <1>4, <1>11, <1>13, <2>1 DEF Fits, NamesType, Buys, CallsOf
    <3>2. orders'[n] = row
      BY <1>7, <1>10
    <3>3. Carries(jobs[j])'
      BY <1>6, <1>8, <1>10, <1>11, <1>13, <2>1, <3>2 DEF Carries
    <3> QED
      BY <3>1, <3>3
  <2>2. CASE j # i
    <3>1. jobs'[j] = jobs[j] /\ Fits(jobs[j]) /\ NamesType(jobs[j]) /\ (Buys(jobs[j]) => Carries(jobs[j]))
      BY <1>13, <2>2 DEF IInv, JobsRight
    <3>2. Fits(jobs[j])' /\ NamesType(jobs[j])'
      BY <3>1 DEF Fits, NamesType, Buys, CallsOf
    <3>3. Buys(jobs[j])' => Carries(jobs[j])'
      <4> SUFFICES ASSUME Buys(jobs[j]) PROVE Carries(jobs[j])'
        BY <3>1 DEF Buys
      <4>1. jobs[j].ord \in 0 .. Len(orders) /\ jobs[j].ord # n
        BY <1>17, <1>20, <2>2, <3>1 DEF Carries
      <4>2. jobs[j].ord # 0 => orders'[jobs[j].ord] = orders[jobs[j].ord]
        BY <1>5, <1>10, <4>1
      <4>3. faults > 0 => faults' > 0
        BY <1>4
      <4> QED
        BY <1>10, <3>1, <4>2, <4>3 DEF Carries
    <3> QED
      BY <3>2, <3>3
  <2> QED
    BY <2>1, <2>2
<1>24. OrdersApart'
  BY <1>15, <1>18, <1>19 DEF IInv, OrdersApart
<1>25. NoOrderForgotten'
  <2> SUFFICES ASSUME NEW k \in DOMAIN orders, orders'[k].status = "pending"
               PROVE  \/ \E j \in Buyers : jobs'[j].ord = k
                      \/ avail[orders'[k].type] = "sold_out"
                      \/ faults' > 0
    BY <1>10, <1>15 DEF NoOrderForgotten
  <2>1. k # n /\ orders'[k] = orders[k]
    BY <1>8, <1>10
  <2>2. \/ \E j \in Buyers : jobs[j].ord = k
        \/ avail[orders[k].type] = "sold_out"
        \/ faults > 0
    BY <2>1 DEF IInv, NoOrderForgotten
  <2> QED
    BY <1>4, <1>18, <1>19, <2>1, <2>2
<1>26. ListNamed' /\ Shown'
  BY <1>16 DEF IInv, ListNamed, Shown
<1>27. Reported'
  <2> SUFFICES ASSUME surface = "page", faults' = 0, NEW k \in Completed \cup {n}
               PROVE  page.done \/ \E j \in Buyers : jobs'[j].ord = k
    BY <1>15, <1>16 DEF Reported
  <2>1. CASE k = n
    BY <1>1, <1>17, <1>19, <2>1
  <2>2. CASE k \in Completed
    <3>1. page.done \/ \E j \in Buyers : jobs[j].ord = k
      BY <1>21, <2>2 DEF IInv, Reported
    <3> QED
      BY <1>18, <1>19, <3>1
  <2> QED
    BY <2>1, <2>2
<1>28. surface = "page" => jobs[i].kind = "submit"
  BY <1>4 DEF Fits, KindsOn, Buys
<1>29. HolderKept'
  <2> SUFFICES ASSUME surface = "page", held, ~late, faults' = 0 PROVE HolderKept'
    BY DEF HolderKept
  <2> QED
    BY <1>21, <1>28 DEF IInv, HolderKept
<1>30. OneFlow'
  <2> SUFFICES ASSUME surface = "page", ~held, ~crossed, faults' = 0 PROVE OneFlow'
    BY DEF OneFlow
  <2>1. faults = 0
    BY <1>21
  <2>2. Completed' = {n}
    BY <1>1, <1>16, <1>28, <2>1, FirstOrder
  <2>3. /\ \A j, k \in Purchasing : j = k
        /\ Active("submit") # {} => page.busy /\ ~page.needs
        /\ Active("prompt") # {} => page.saving
        /\ page.done => Purchasing = {}
    BY <2>1 DEF IInv, OneFlow
  <2> QED
    BY <1>15, <2>2, <2>3 DEF OneFlow
<1> QED
  BY <1>22, <1>23, <1>24, <1>25, <1>26, <1>27, <1>29, <1>30 DEF IInv

\* What the server may answer to each call, and the orders then.
Outcome(job, out) ==
  \/ job.call \notin {"create", "complete"} /\ out = [res |-> "ok", orders |-> orders]
  \/ job.call = "create" /\ out = [res |-> "incomplete", orders |-> orders]
  \/ job.call = "create" /\ out = [res |-> "refused", orders |-> orders]
  \/ /\ job.call = "create"
     /\ out = [res |-> "ok", orders |-> Append(orders, [type |-> job.type, status |-> "pending"])]
  \/ /\ job.call = "complete" /\ avail[job.type] = "sold_out"
     /\ out = [res |-> "refused", orders |-> orders]
  \/ /\ job.call = "complete"
     /\ out = [res |-> "ok", orders |-> [orders EXCEPT ![job.ord].status = "completed"]]

\* The server answers in one of these ways.
LEMMA ExecuteCases ==
  ASSUME NEW job, NEW badCode
  PROVE  Outcome(job, Execute(job, badCode))
BY DEF Execute, Outcome

\* The server executes a call, whether or not the answer gets through.
LEMMA ServeStep ==
  ASSUME IInv, NEW i \in Slots, NEW lost \in BOOLEAN, Serve(i, lost),
         faults' \in Nat, faults <= faults', lost => faults' > 0
  PROVE  IInv'
<1>1. PICK badCode \in BOOLEAN :
        /\ jobs[i].kind # "none" /\ jobs[i].res = "none" /\ jobs[i].call \notin Reads
        /\ orders' = Execute(jobs[i], badCode).orders
        /\ profile' = (profile \/ jobs[i].call = "profile")
        /\ jobs' = Put(jobs, i,
             [jobs[i] EXCEPT
                !.res = IF lost THEN "failed" ELSE Execute(jobs[i], badCode).res,
                !.found = jobs[i].call = "mine" /\ Owned(orders),
                !.ord = IF jobs[i].call = "create" /\ Execute(jobs[i], badCode).res = "ok"
                          THEN Len(Execute(jobs[i], badCode).orders) ELSE @])
        /\ UNCHANGED <<avail, held, user, page, modal, clicks, crossed>>
  BY DEF Serve
<1>2. PICK out, r, f : /\ out = Execute(jobs[i], badCode)
                       /\ r = (IF lost THEN "failed" ELSE out.res)
                       /\ f = (jobs[i].call = "mine" /\ Owned(orders))
  OBVIOUS
<1>3. /\ UNCHANGED <<surface, sessions, late, avail, held>>
      /\ UNCHANGED <<token, gen, clicks, crossed, page, modal>>
  BY <1>1 DEF user
<1>4. profile' \in BOOLEAN /\ f \in BOOLEAN
  BY <1>1, <1>2
<1>5. orders' = out.orders
  BY <1>1, <1>2
<1>6. PICK o : o = IF jobs[i].call = "create" /\ out.res = "ok" THEN Len(orders') ELSE jobs[i].ord
  OBVIOUS
<1>7. jobs' = [jobs EXCEPT ![i] = [jobs[i] EXCEPT !.res = r, !.found = f, !.ord = o]]
  BY <1>1, <1>2, <1>5, <1>6 DEF Put
<1>8. jobs[i] \in JobRecord /\ Fits(jobs[i]) /\ NamesType(jobs[i]) /\ (Buys(jobs[i]) => Carries(jobs[i]))
  BY Start
<1>9. jobs[i].call \in {"mine", "profile", "create", "complete"}
      /\ (jobs[i].call \in {"create", "complete"} => Buys(jobs[i]))
  BY <1>1, <1>8 DEF Fits, CallsOf, KindsOn, Reads, Buys
<1>10. Outcome(jobs[i], out)
  BY <1>2, ExecuteCases
<1>11. CASE jobs[i].call = "create" /\ out.res = "ok"
  <2>1. orders' = Append(orders, [type |-> jobs[i].type, status |-> "pending"])
    BY <1>5, <1>10, <1>11 DEF Outcome
  <2>2. r \in {"ok", "failed"} /\ (r = "failed" => faults' > 0)
    BY <1>2, <1>11
  <2>3. jobs' = [jobs EXCEPT ![i] = [jobs[i] EXCEPT !.res = r, !.found = FALSE, !.ord = Len(orders')]]
    <3>1. f = FALSE /\ o = Len(orders')
      BY <1>2, <1>6, <1>11
    <3> QED
      BY <1>7, <3>1
  <2> QED
    BY <1>1, <1>3, <1>4, <1>9, <1>11, <2>1, <2>2, <2>3, ServeCreates
<1>12. CASE jobs[i].call = "complete" /\ out.res = "ok"
  <2>1. orders' = [orders EXCEPT ![jobs[i].ord].status = "completed"]
    BY <1>5, <1>10, <1>12 DEF Outcome
  <2>2. r \in {"ok", "failed"} /\ (r = "failed" => faults' > 0)
    BY <1>2, <1>12
  <2>3. jobs' = [jobs EXCEPT ![i] = [jobs[i] EXCEPT !.res = r, !.found = FALSE, !.ord = jobs[i].ord]]
    <3>1. f = FALSE /\ o = jobs[i].ord
      BY <1>2, <1>6, <1>12
    <3> QED
      BY <1>7, <3>1
  <2> QED
    BY <1>1, <1>3, <1>4, <1>9, <1>12, <2>1, <2>2, <2>3, ServeCompletes
<1>13. CASE jobs[i].call \notin {"create", "complete"} \/ out.res # "ok"
  <2>1. orders' = orders /\ out.res \in {"ok", "incomplete", "refused"}
    BY <1>5, <1>10, <1>13 DEF Outcome
  <2>2. r \in {"ok", "incomplete", "refused", "failed"} /\ (r = "failed" => faults' > 0)
    BY <1>2, <2>1
  <2>3. jobs' = [jobs EXCEPT ![i] = [jobs[i] EXCEPT !.res = r, !.found = f, !.ord = jobs[i].ord]]
    <3>1. o = jobs[i].ord
      BY <1>6, <1>13
    <3> QED
      BY <1>7, <3>1
  <2>4. jobs[i].call \notin {"list", "detail"}
    BY <1>9
  <2>5. jobs[i].call = "mine" => r \in {"ok", "failed"}
    BY <1>2, <1>10 DEF Outcome
  <2>6. jobs[i].call = "create" => r # "ok"
    BY <1>2, <1>13
  <2>7. jobs[i].call = "complete" => r = "failed" \/ (r = "refused" /\ avail[jobs[i].type] = "sold_out")
    BY <1>2, <1>10, <1>13 DEF Outcome
  <2> QED
    BY <1>1, <1>2, <1>3, <1>4, <2>1, <2>2, <2>3, <2>4, <2>5, <2>6, <2>7, ServeQuiet
<1> QED
  BY <1>9, <1>11, <1>12, <1>13

\* Both ways a call is executed.
LEMMA ServeSteps ==
  ASSUME IInv, NEW i \in Slots, ServeCall(i) \/ LoseAnswer(i)
  PROVE  IInv'
<1>1. faults \in Nat
  BY Start
<1>2. CASE ServeCall(i)
  <2>1. Serve(i, FALSE) /\ faults' = faults
    BY <1>2, Zenon DEF ServeCall
  <2>2. faults' \in Nat /\ faults <= faults'
    BY <1>1, <2>1
  <2> QED
    BY <2>1, <2>2, ServeStep, Zenon
<1>3. CASE LoseAnswer(i)
  <2>1. Serve(i, TRUE) /\ faults' = faults + 1
    BY <1>3, Zenon DEF LoseAnswer
  <2>2. faults' \in Nat /\ faults <= faults' /\ faults' > 0
    BY <1>1, <2>1
  <2> QED
    BY <2>1, <2>2, ServeStep, Zenon
<1> QED
  BY <1>2, <1>3

-----------------------------------------------------------------------------
(* The other steps *)

\* The dialog is closed; the calls it made go on without it.
LEMMA CloseModalStep ==
  ASSUME IInv, CloseModal
  PROVE  IInv'
<1>1. /\ surface = "modal" /\ modal' = MountModal(token)
      /\ UNCHANGED <<surface, sessions, late, avail, held, orders, profile, faults>>
      /\ UNCHANGED <<token, gen, clicks, crossed, page>>
  BY DEF CloseModal, server, user
<1>2. jobs \in [Slots -> JobRecord]
  BY DEF IInv, TypeOK
<1>3. jobs' = [i \in Slots |-> IF jobs[i].kind \in {"none", "otp"} THEN NoJob
                               ELSE [jobs[i] EXCEPT !.live = FALSE]]
  BY DEF CloseModal
<1>4. \A i \in Slots :
        /\ jobs[i].kind \in {"none", "otp"} => jobs'[i] = NoJob
        /\ jobs[i].kind \notin {"none", "otp"} => jobs'[i] = [jobs[i] EXCEPT !.live = FALSE]
  BY <1>3
<1>5. \A i \in Slots : jobs[i].kind \notin {"none", "otp"} =>
        /\ jobs'[i] \in JobRecord /\ jobs'[i].kind = jobs[i].kind /\ jobs'[i].call = jobs[i].call
        /\ jobs'[i].res = jobs[i].res /\ jobs'[i].type = jobs[i].type /\ jobs'[i].ord = jobs[i].ord
  <2>1. \A job \in JobRecord : LET shut == [job EXCEPT !.live = FALSE] IN
          /\ shut \in JobRecord /\ shut.kind = job.kind /\ shut.call = job.call
          /\ shut.res = job.res /\ shut.type = job.type /\ shut.ord = job.ord
    BY DEF JobRecord
  <2> QED
    BY <1>2, <1>4, <2>1
<1>6. jobs' \in [Slots -> JobRecord]
  <2>1. \A i \in Slots : jobs'[i] \in JobRecord
    BY <1>4, <1>5, NoJobRight
  <2> QED
    BY <1>3, <2>1
<1>7. \A i \in Slots : /\ Buys(jobs'[i]) <=> Buys(jobs[i])
                       /\ Buys(jobs[i]) => jobs'[i].ord = jobs[i].ord
  BY <1>4, <1>5, NoJobRight DEF Buys
<1>8. Buyers' = Buyers /\ \A i \in Buyers : jobs'[i].ord = jobs[i].ord
  BY <1>7 DEF Buyers, Active, Buys
<1>9. TypeOK'
  BY <1>1, <1>6, MountModalFacts DEF IInv, TypeOK
<1>10. JobsRight'
  <2> SUFFICES ASSUME NEW j \in Slots
               PROVE  (Fits(jobs[j]) /\ NamesType(jobs[j]) /\ (Buys(jobs[j]) => Carries(jobs[j])))'
    BY DEF JobsRight
  <2>1. CASE jobs[j].kind \in {"none", "otp"}
    <3>1. jobs'[j] = NoJob
      BY <1>4, <2>1
    <3> QED
      BY <1>1, <3>1, NoJobFacts DEF Fits, NamesType, Buys, CallsOf, KindsOn
  <2>2. CASE jobs[j].kind \notin {"none", "otp"}
    <3>1. Fits(jobs[j]) /\ NamesType(jobs[j]) /\ (Buys(jobs[j]) => Carries(jobs[j]))
      BY DEF IInv, JobsRight
    <3>2. Fits(jobs[j])' /\ NamesType(jobs[j])'
      BY <1>1, <1>5, <2>2, <3>1 DEF Fits, NamesType, Buys, CallsOf, KindsOn
    <3>3. Buys(jobs[j])' => Carries(jobs[j])'
      BY <1>1, <1>5, <2>2, <3>1 DEF Buys, Carries
    <3> QED
      BY <3>2, <3>3
  <2> QED
    BY <2>1, <2>2
<1>11. OrdersApart' /\ NoOrderForgotten'
  BY <1>1, <1>8 DEF IInv, OrdersApart, NoOrderForgotten
<1>12. ListNamed' /\ Shown'
  BY <1>1, MountModalFacts, SameOrders DEF IInv, ListNamed, Shown
<1>13. Reported' /\ HolderKept' /\ OneFlow'
  BY <1>1 DEF Reported, HolderKept, OneFlow
<1> QED
  BY <1>9, <1>10, <1>11, <1>12, <1>13 DEF IInv

\* Other buyers take the last ticket of a type.
LEMMA OthersBuyStep ==
  ASSUME IInv, NEW t \in Types, OthersBuy(t)
  PROVE  IInv'
<1>1. /\ t \in DOMAIN avail /\ avail' = [avail EXCEPT ![t] = "sold_out"]
      /\ UNCHANGED <<surface, sessions, late, held, orders, profile, faults>>
      /\ UNCHANGED <<token, gen, clicks, crossed, page, modal, jobs>>
  BY DEF OthersBuy, user
<1>2. avail \in Seq(Offers)
  BY DEF IInv, TypeOK
<1>3. /\ avail' \in Seq(Offers) /\ DOMAIN avail' = DOMAIN avail
      /\ \A u \in DOMAIN avail : avail'[u] = IF u = t THEN "sold_out" ELSE avail[u]
  BY <1>1, <1>2, LenProperties, ExceptSeq DEF Offers
<1>4. \A u \in DOMAIN avail : avail[u] = "sold_out" => avail'[u] = "sold_out"
  BY <1>3
<1>5. TypeOK'
  BY <1>1, <1>3 DEF IInv, TypeOK
<1>6. /\ Active("submit")' = Active("submit") /\ Active("prompt")' = Active("prompt")
      /\ Active("mine")' = Active("mine") /\ Buyers' = Buyers /\ Purchasing' = Purchasing
  BY <1>1, SameKinds
<1>7. JobsRight'
  <2> SUFFICES ASSUME NEW j \in Slots
               PROVE  (Fits(jobs[j]) /\ NamesType(jobs[j]) /\ (Buys(jobs[j]) => Carries(jobs[j])))'
    BY DEF JobsRight
  <2>1. Fits(jobs[j]) /\ NamesType(jobs[j]) /\ (Buys(jobs[j]) => Carries(jobs[j]))
    BY DEF IInv, JobsRight
  <2>2. Fits(jobs[j])' /\ NamesType(jobs[j])'
    BY <1>1, <1>3, <2>1 DEF Fits, NamesType, Buys, CallsOf
  <2>3. Buys(jobs[j])' => Carries(jobs[j])'
    BY <1>1, <1>4, <2>1 DEF Buys, Carries, NamesType
  <2> QED
    BY <2>2, <2>3
<1>8. OrdersApart'
  BY <1>1, <1>6 DEF IInv, OrdersApart
<1>9. NoOrderForgotten'
  <2> SUFFICES ASSUME NEW k \in DOMAIN orders, orders[k].status = "pending"
               PROVE  \/ \E j \in Buyers : jobs[j].ord = k
                      \/ avail'[orders[k].type] = "sold_out"
                      \/ faults > 0
    BY <1>1, <1>6 DEF NoOrderForgotten
  <2>1. \/ \E j \in Buyers : jobs[j].ord = k
        \/ avail[orders[k].type] = "sold_out"
        \/ faults > 0
    BY DEF IInv, NoOrderForgotten
  <2> QED
    BY <1>1, <1>4, <2>1
<1>10. ListNamed' /\ Shown' /\ Reported' /\ HolderKept' /\ OneFlow'
  BY <1>1, <1>3, <1>6, SameOrders DEF IInv, ListNamed, Shown, Reported, HolderKept, OneFlow
<1> QED
  BY <1>5, <1>7, <1>8, <1>9, <1>10 DEF IInv

\* Nothing happens.
LEMMA StutterStep ==
  ASSUME IInv, UNCHANGED vars
  PROVE  IInv'
<1>1. /\ jobs' = jobs /\ UNCHANGED <<surface, sessions, late, avail, held, orders, profile, faults>>
      /\ UNCHANGED <<token, gen, clicks, crossed, page, modal>>
  BY DEF vars
<1>2. /\ token \in Nat /\ gen \in Nat /\ clicks \in Nat /\ crossed \in BOOLEAN /\ modal \in ModalRecord
      /\ page \in PageRecord
  BY DEF IInv, TypeOK
<1>3. Calm
  BY <1>1, <1>2, CalmStep
<1> QED
  BY <1>1, <1>3, StillStep

-----------------------------------------------------------------------------
(* The invariant, and what follows from it *)

\* The invariant holds when the page is opened.
LEMMA InitIInv == Init => IInv
<1> SUFFICES ASSUME Init PROVE IInv
  OBVIOUS
<1>1. /\ surface \in {"page", "modal"} /\ sessions \in BOOLEAN /\ token \in {0, 1} /\ gen = token
      /\ profile \in BOOLEAN /\ held \in BOOLEAN /\ orders = <<>>
      /\ page = MountPage(token) /\ modal = MountModal(token)
      /\ clicks = 0 /\ faults = 0 /\ late = (token = 0) /\ crossed = FALSE
  BY DEF Init
<1>2. avail \in Seq(Offers) /\ DOMAIN avail \subseteq Types
  <2>1. PICK n \in 0 .. NumTypes : avail \in [1 .. n -> {"open", "ended"}]
    BY DEF Init
  <2>2. n \in Nat /\ 1 .. n \subseteq Types /\ avail \in [1 .. n -> Offers]
    BY <2>1, ConstantsAssumption DEF Types, Offers
  <2> QED
    BY <2>1, <2>2, SeqDef
<1>3. /\ page \in PageRecord /\ page.seen = <<>> /\ ~page.done /\ (page.checking <=> token # 0)
  <2>1. <<>> \in Seq(Offers)
    OBVIOUS
  <2>2. PICK ck : ck = (token # 0)
    OBVIOUS
  <2>3. page = [list |-> FALSE, seen |-> <<>>, sel |-> 0, session |-> sessions,
                checking |-> ck, existing |-> FALSE,
                busy |-> FALSE, needs |-> FALSE, saving |-> FALSE, done |-> FALSE]
    BY <1>1, <2>2 DEF MountPage
  <2>4. ck \in BOOLEAN
    BY <2>2
  <2>5. page \in PageRecord
    BY <1>1, <2>1, <2>3, <2>4 DEF PageRecord
  <2>6. page.seen = <<>> /\ ~page.done /\ page.checking = ck
    BY <2>3
  <2> QED
    BY <2>2, <2>5, <2>6
<1>4. modal \in ModalRecord /\ modal.step # "success"
  BY <1>1, MountModalFacts
<1>5. \A i \in Slots : \/ jobs[i] = NoJob
                       \/ surface = "page" /\ jobs[i] = Job("list", "list")
                       \/ surface = "page" /\ jobs[i] = Job("mine", "mine")
  BY DEF Init
<1>6. \A i \in Slots :
        /\ jobs[i] \in JobRecord /\ Fits(jobs[i]) /\ NamesType(jobs[i])
        /\ jobs[i].kind \in {"none", "list", "mine"} /\ jobs[i].res = "none" /\ ~jobs[i].found
  <2> SUFFICES ASSUME NEW i \in Slots
               PROVE  /\ jobs[i] \in JobRecord /\ Fits(jobs[i]) /\ NamesType(jobs[i])
                      /\ jobs[i].kind \in {"none", "list", "mine"} /\ jobs[i].res = "none" /\ ~jobs[i].found
    OBVIOUS
  <2>1. CASE jobs[i] = NoJob
    BY <2>1, NoJobFacts, NoJobRight
  <2>2. CASE surface = "page" /\ jobs[i] = Job("list", "list")
    BY <2>2, JobFacts DEF Fits, NamesType, Buys, CallsOf, KindsOn
  <2>3. CASE surface = "page" /\ jobs[i] = Job("mine", "mine")
    BY <2>3, JobFacts DEF Fits, NamesType, Buys, CallsOf, KindsOn
  <2> QED
    BY <1>5, <2>1, <2>2, <2>3
<1>7. jobs \in [Slots -> JobRecord]
  <2>1. jobs = [i \in Slots |-> jobs[i]]
    BY DEF Init
  <2> QED
    BY <1>6, <2>1
<1>8. /\ Active("submit") = {} /\ Active("prompt") = {} /\ Active("register") = {}
      /\ Buyers = {} /\ Purchasing = {}
  BY <1>6 DEF Active, Buyers, Purchasing
<1>9. Completed = {} /\ DOMAIN orders = {}
  BY <1>1 DEF Completed
<1>10. TypeOK
  <2>1. orders \in Seq(OrderRecord)
    BY <1>1
  <2>2. late \in BOOLEAN /\ crossed \in BOOLEAN
    BY <1>1
  <2>3. token \in Nat /\ gen \in Nat /\ clicks \in Nat /\ faults \in Nat
    BY <1>1
  <2> QED
    BY <1>1, <1>2, <1>3, <1>4, <1>7, <2>1, <2>2, <2>3 DEF TypeOK
<1>11. JobsRight
  BY <1>6 DEF JobsRight, Buys
<1>12. ListNamed /\ OrdersApart /\ NoOrderForgotten /\ Shown /\ Reported
  BY <1>3, <1>4, <1>8, <1>9 DEF ListNamed, OrdersApart, NoOrderForgotten, Shown, Reported
<1>13. HolderKept
  BY <1>1, <1>3, <1>6, <1>9 DEF HolderKept
<1>14. OneFlow
  BY <1>3, <1>6, <1>8, <1>9 DEF OneFlow, Active
<1> QED
  BY <1>10, <1>11, <1>12, <1>13, <1>14 DEF IInv

\* Every step keeps the invariant.
LEMMA NextIInv == IInv /\ [Next]_vars => IInv'
<1> SUFFICES ASSUME IInv, [Next]_vars PROVE IInv'
  OBVIOUS
<1>1. CASE UNCHANGED vars
  BY <1>1, StutterStep
<1>2. ASSUME NEW i \in Slots, ServeCall(i) \/ LoseAnswer(i) PROVE IInv'
  BY <1>2, ServeSteps
<1>3. ASSUME NEW i \in Slots, Fail(i) PROVE IInv'
  BY <1>3, FailStep
<1>4. ASSUME NEW i \in Slots, Answer(i) PROVE IInv'
  <2>1. CASE AnswerList(i)
    BY <2>1, AnswerListStep
  <2>2. CASE AnswerMine(i)
    BY <2>2, AnswerMineStep
  <2>3. CASE AnswerPrompt(i)
    BY <2>3, AnswerPromptStep
  <2>4. CASE AnswerCreate(i)
    BY <2>4, AnswerCreateStep
  <2>5. CASE AnswerComplete(i)
    BY <2>5, AnswerCompleteStep
  <2>6. CASE AnswerFailure(i)
    BY <2>6, AnswerFailureStep
  <2>7. CASE AnswerOtp(i)
    BY <2>7, AnswerOtpStep
  <2>8. CASE AnswerVerify(i)
    BY <2>8, AnswerVerifyStep
  <2>9. CASE AnswerTypes(i)
    BY <2>9, AnswerTypesStep
  <2>10. CASE AnswerDetail(i)
    BY <2>10, AnswerDetailStep
  <2> QED
    BY <1>4, <2>1, <2>2, <2>3, <2>4, <2>5, <2>6, <2>7, <2>8, <2>9, <2>10 DEF Answer
<1>5. ASSUME NEW t \in Types, OthersBuy(t) PROVE IInv'
  BY <1>5, OthersBuyStep
<1>6. CASE ObtainToken
  BY <1>6, ObtainTokenStep
<1>7. CASE ClearToken
  BY <1>7, ClearTokenStep
<1>8. CASE UserStep
  <2>1. ASSUME NEW t \in Types, SelectTicket(t) PROVE IInv'
    BY <2>1, SelectTicketStep
  <2>2. CASE ClickSubmit
    BY <2>2, ClickSubmitStep
  <2>3. CASE SavePrompt
    BY <2>3, SavePromptStep
  <2>4. CASE OpenModal \/ Retry
    BY <2>4, OpenRetryStep
  <2>5. CASE CloseModal
    BY <2>5, CloseModalStep
  <2>6. CASE HandleRequestOtp \/ HandleVerifyOtp \/ ClickConfirm
    BY <2>6, DialogStartStep
  <2> QED
    BY <1>8, <2>1, <2>2, <2>3, <2>4, <2>5, <2>6 DEF UserStep
<1> QED
  BY <1>1, <1>2, <1>3, <1>4, <1>5, <1>6, <1>7, <1>8 DEF Next

\* Every reachable state of the two surfaces and the server satisfies the invariant.
THEOREM Invariance == Spec => []IInv
BY InitIInv, NextIInv, PTL DEF Spec

\* The state of the two surfaces, their calls and the server's orders is well typed.
THEOREM TypeCorrect == Spec => []TypeOK
<1>1. IInv => TypeOK
  BY DEF IInv
<1> QED
  BY <1>1, Invariance, PTL

\* No order stays pending unless a handler still carries it to its completion, its
\* type sold out, or a call failed, however often the button is clicked, the dialog
\* closed or a token renewed between the two calls of a purchase.
THEOREM OrdersAreNotForgotten == Spec => []NoOrderForgotten
<1>1. IInv => NoOrderForgotten
  BY DEF IInv
<1> QED
  BY <1>1, Invariance, PTL

\* Success is shown of a completed order only, and the checkout card that has no
\* purchase under way has reported every completed one unless a call failed.
THEOREM SuccessIsOfAnOrder == Spec => []SuccessIsReal
<1>1. IInv => SuccessIsReal
  BY DEF IInv, Shown, Reported, SuccessIsReal
<1> QED
  BY <1>1, Invariance, PTL

\* The checkout card sells a user a second ticket only if it was mounted before a
\* token arrived, a call failed, or the form was submitted while the prompt saved.
THEOREM SecondTicketsAreExplained == Spec => []SecondTicketExplained
<1>1. IInv => SecondTicketExplained
  <2> SUFFICES ASSUME IInv, surface = "page", ~late, ~crossed, faults = 0
               PROVE  ~(Tickets > 1)
    <3>1. IInv => faults \in Nat
      BY DEF IInv, TypeOK
    <3> QED
      BY <3>1 DEF SecondTicketExplained
  <2>1. CASE held
    <3>1. Cardinality(Completed) = 0
      BY <2>1, FS_EmptySet DEF IInv, HolderKept
    <3> QED
      BY <2>1, <3>1 DEF Tickets
  <2>2. CASE ~held
    <3>1. \A j, k \in Completed : j = k
      BY <2>2 DEF IInv, OneFlow
    <3>2. Cardinality(Completed) \in {0, 1}
      <4>1. CASE Completed = {}
        BY <4>1, FS_EmptySet
      <4>2. CASE Completed # {}
        <5>1. PICK k : Completed = {k}
          BY <3>1, <4>2
        <5> QED
          BY <5>1, FS_Singleton
      <4> QED
        BY <4>1, <4>2
    <3> QED
      BY <2>2, <3>2 DEF Tickets
  <2> QED
    BY <2>1, <2>2
<1> QED
  BY <1>1, Invariance, PTL
=============================================================================
