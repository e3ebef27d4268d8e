-------------------------- MODULE EventEditorProofs --------------------------
(***************************************************************************)
(* Proofs about EventEditor for any categories, any number of edits,       *)
(* submissions, uploads, failing calls and calls under way.                *)
(***************************************************************************)
EXTENDS EventEditor, SequenceTheorems, TLAPS, FiniteSetTheorems, WellFoundedInduction

\* The least element of a set of numbers.
LEMMA MinInSet ==
  ASSUME NEW S, S \subseteq Nat, S # {}
  PROVE  Min(S) \in S /\ \A y \in S : Min(S) <= y
<1>1. PICK x \in S : \A y \in S : ~(<<y, x>> \in OpToRel(<, Nat))
  BY NatLessThanWellFounded, WFMin
<1>2. \A y \in S : x <= y
  <2> SUFFICES ASSUME NEW y \in S, y < x PROVE FALSE
    OBVIOUS
  <2>1. <<y, x>> \in OpToRel(<, Nat)
    BY DEF OpToRel
  <2> QED
    BY <1>1, <2>1
<1> QED
  BY <1>2 DEF Min

\* A slot that is free is a slot.
LEMMA FreeSlot ==
  ASSUME NEW S, S \subseteq Free, S # {}
  PROVE  Min(S) \in S /\ Min(S) \in Slots /\ jobs[Min(S)].kind = "none"
<1>1. S \subseteq Nat
  BY ConstantsAssumption DEF Free, Slots
<1>2. Min(S) \in S
  BY <1>1, MinInSet
<1> QED
  BY <1>2 DEF Free

-----------------------------------------------------------------------------
(* The sessions as the server keeps them. *)

Starting(inputs) == IsFiniteSet(DOMAIN inputs) /\ \A k \in DOMAIN inputs : inputs[k] \in Nat

\* Some sessions of a list that is not empty are the last ones to begin.
LEMMA LastStart ==
  ASSUME NEW inputs, Starting(inputs), NEW A \in SUBSET DOMAIN inputs, A # {}
  PROVE  \E m \in A : \A j \in A : inputs[j] <= inputs[m]
<1>1. PICK later : later = [x \in A |-> {j \in A : inputs[j] > inputs[x]}]
  OBVIOUS
<1>2. ASSUME NEW x \in A
      PROVE  /\ later[x] = {j \in A : inputs[j] > inputs[x]}
             /\ IsFiniteSet(later[x]) /\ Cardinality(later[x]) \in Nat
  <2>1. later[x] = {j \in A : inputs[j] > inputs[x]}
    BY <1>1
  <2>2. later[x] \in SUBSET DOMAIN inputs
    BY <2>1
  <2>3. IsFiniteSet(later[x])
    BY <2>2, FS_Subset DEF Starting
  <2> QED
    BY <2>1, <2>3, FS_CardinalityType
<1>3. PICK W : W = {Cardinality(later[x]) : x \in A}
  OBVIOUS
<1>4. W \subseteq Nat /\ W # {}
  BY <1>2, <1>3
<1>5. PICK m \in A : \A x \in A : Cardinality(later[m]) <= Cardinality(later[x])
  <2>1. Min(W) \in W /\ \A y \in W : Min(W) <= y
    BY <1>4, MinInSet
  <2>2. PICK m \in A : Cardinality(later[m]) = Min(W)
    BY <1>3, <2>1
  <2>3. \A x \in A : Cardinality(later[x]) \in W
    BY <1>3
  <2> QED
    BY <2>1, <2>2, <2>3
<1>6. ASSUME NEW j \in A, inputs[j] > inputs[m]
      PROVE  FALSE
  <2>1. \A x \in A : inputs[x] \in Nat
    BY DEF Starting
  <2>2. later[j] \in SUBSET later[m]
    BY <1>2, <1>6, <2>1
  <2>3. j \in later[m] /\ j \notin later[j]
    BY <1>2, <1>6, <2>1
  <2>4. /\ Cardinality(later[j]) <= Cardinality(later[m])
        /\ Cardinality(later[m]) = Cardinality(later[j]) => later[m] = later[j]
    BY <1>2, <2>2, FS_Subset
  <2> QED
    BY <1>2, <1>5, <2>3, <2>4
<1> QED
  BY <1>5, <1>6 DEF Starting

\* How many sessions have begun grows with time.
LEMMA BegunGrows ==
  ASSUME NEW inputs, Starting(inputs), NEW s \in Nat, NEW t \in Nat, s <= t
  PROVE  /\ Begun(inputs, s) \in Nat /\ Begun(inputs, s) <= Begun(inputs, t)
         /\ Begun(inputs, t) <= Cardinality(DOMAIN inputs)
<1>1. PICK A, B : /\ A = {k \in DOMAIN inputs : inputs[k] <= s}
                  /\ B = {k \in DOMAIN inputs : inputs[k] <= t}
  OBVIOUS
<1>2. A \in SUBSET B /\ B \in SUBSET DOMAIN inputs
  BY <1>1 DEF Starting
<1>3. IsFiniteSet(B) /\ Cardinality(B) <= Cardinality(DOMAIN inputs)
  BY <1>2, FS_Subset DEF Starting
<1>4. IsFiniteSet(A) /\ Cardinality(A) <= Cardinality(B)
  BY <1>2, <1>3, FS_Subset
<1>5. Cardinality(A) \in Nat
  BY <1>4, FS_CardinalityType
<1> QED
  BY <1>1, <1>3, <1>4, <1>5 DEF Begun

\* The starts by which k sessions have begun.
Due(inputs, k) == {s \in Range(inputs) : Begun(inputs, s) >= k}

\* The k-th of the sorted sessions has begun at a time exactly when k sessions have.
LEMMA StoredBegins ==
  ASSUME NEW inputs, Starting(inputs), NEW k \in 1 .. Cardinality(DOMAIN inputs)
  PROVE  /\ Stored(inputs)[k] = Min(Due(inputs, k))
         /\ Stored(inputs)[k] \in Due(inputs, k)
         /\ Stored(inputs)[k] \in Range(inputs) /\ Stored(inputs)[k] \in Nat
         /\ \A s \in Due(inputs, k) : Stored(inputs)[k] <= s
         /\ \A x \in Nat : Stored(inputs)[k] <= x <=> Begun(inputs, x) >= k
<1>1. PICK n : n = Cardinality(DOMAIN inputs)
  OBVIOUS
<1>2. n \in Nat /\ k \in Nat /\ 1 <= k /\ k <= n
  BY <1>1, FS_CardinalityType DEF Starting
<1>3. Range(inputs) \subseteq Nat /\ \A j \in DOMAIN inputs : inputs[j] \in Range(inputs)
  BY DEF Range, Starting
<1>4. \A x \in Nat : Begun(inputs, x) \in Nat
  BY BegunGrows
<1>5. ASSUME NEW x \in Nat, Begun(inputs, x) >= k
      PROVE  \E s \in Due(inputs, k) : s <= x
  <2>1. PICK A : A = {j \in DOMAIN inputs : inputs[j] <= x}
    OBVIOUS
  <2>2. Begun(inputs, x) = Cardinality(A)
    BY <2>1 DEF Begun
  <2>3. A # {}
    BY <1>2, <1>5, <2>2, FS_EmptySet
  <2>4. PICK m \in A : \A j \in A : inputs[j] <= inputs[m]
    BY <2>1, <2>3, LastStart
  <2>5. {j \in DOMAIN inputs : inputs[j] <= inputs[m]} = A
    BY <1>3, <2>1, <2>4
  <2>6. Begun(inputs, inputs[m]) = Begun(inputs, x)
    BY <2>2, <2>5 DEF Begun
  <2> QED
    BY <1>3, <1>5, <2>1, <2>6 DEF Due
<1>6. Due(inputs, k) # {}
  <2>1. DOMAIN inputs # {}
    BY <1>1, <1>2, FS_EmptySet
  <2>2. PICK m \in DOMAIN inputs : \A j \in DOMAIN inputs : inputs[j] <= inputs[m]
    BY <2>1, LastStart
  <2>3. {j \in DOMAIN inputs : inputs[j] <= inputs[m]} = DOMAIN inputs
    BY <2>2
  <2>4. Begun(inputs, inputs[m]) = n
    BY <1>1, <2>3 DEF Begun
  <2> QED
    BY <1>2, <1>3, <2>4 DEF Due
<1>7. Due(inputs, k) \subseteq Nat
  BY <1>3 DEF Due
<1>8. Stored(inputs)[k] = Min(Due(inputs, k))
  BY DEF Stored, Due
<1>9. /\ Stored(inputs)[k] \in Due(inputs, k)
      /\ \A s \in Due(inputs, k) : Stored(inputs)[k] <= s
  BY <1>6, <1>7, <1>8, MinInSet
<1>10. /\ Stored(inputs)[k] \in Range(inputs) /\ Stored(inputs)[k] \in Nat
       /\ Begun(inputs, Stored(inputs)[k]) >= k
  BY <1>3, <1>9 DEF Due
<1>11. ASSUME NEW x \in Nat
       PROVE  Stored(inputs)[k] <= x <=> Begun(inputs, x) >= k
  <2>1. ASSUME Stored(inputs)[k] <= x PROVE Begun(inputs, x) >= k
    <3>1. Begun(inputs, Stored(inputs)[k]) <= Begun(inputs, x)
      BY <1>10, <2>1, BegunGrows
    <3> QED
      BY <1>2, <1>4, <1>10, <3>1
  <2>2. ASSUME Begun(inputs, x) >= k PROVE Stored(inputs)[k] <= x
    <3>1. PICK s \in Due(inputs, k) : s <= x
      BY <1>5, <2>2
    <3> QED
      BY <1>7, <1>9, <1>10, <3>1
  <2> QED
    BY <2>1, <2>2
<1> QED
  BY <1>8, <1>9, <1>10, <1>11

\* The sessions of a form, and what the server keeps of them.
LEMMA InputsStart ==
  ASSUME NEW f, f.rows \in Seq(Nat)
  PROVE  /\ Starting(SessionInputs(f))
         /\ \A k \in DOMAIN SessionInputs(f) : SessionInputs(f)[k] # EmptyRow
         /\ Stored(SessionInputs(f)) \in Seq(Nat)
         /\ DOMAIN Stored(SessionInputs(f)) = 1 .. Cardinality(DOMAIN SessionInputs(f))
<1>1. PICK inputs : inputs = SessionInputs(f)
  OBVIOUS
<1>2. DOMAIN f.rows = 1 .. Len(f.rows) /\ Len(f.rows) \in Nat
      /\ \A k \in 1 .. Len(f.rows) : f.rows[k] \in Nat
  BY LenProperties, ElementOfSeq
<1>3. /\ DOMAIN inputs = {j \in DOMAIN f.rows : f.rows[j] # EmptyRow}
      /\ \A k \in DOMAIN inputs : inputs[k] = f.rows[k]
  BY <1>1 DEF SessionInputs
<1>4. IsFiniteSet(1 .. Len(f.rows))
  BY <1>2, FS_Interval
<1>5. IsFiniteSet(DOMAIN inputs)
  <2>1. DOMAIN inputs \in SUBSET (1 .. Len(f.rows))
    BY <1>2, <1>3
  <2> QED
    BY <1>4, <2>1, FS_Subset
<1>6. Starting(inputs)
  BY <1>2, <1>3, <1>5 DEF Starting
<1>7. PICK n : n = Cardinality(DOMAIN inputs)
  OBVIOUS
<1>8. n \in Nat
  BY <1>5, <1>7, FS_CardinalityType
<1>9. DOMAIN Stored(inputs) = 1 .. n
  BY <1>7 DEF Stored
<1>10. \A k \in 1 .. n : Stored(inputs)[k] \in Nat
  BY <1>6, <1>7, StoredBegins
<1>11. Stored(inputs) \in [1 .. n -> Nat]
  <2>1. Stored(inputs) = [k \in 1 .. n |-> Min(Due(inputs, k))]
    BY <1>7 DEF Stored, Due
  <2> QED
    BY <1>10, <2>1
<1>12. Stored(inputs) \in Seq(Nat)
  BY <1>8, <1>11, SeqDef
<1> QED
  BY <1>1, <1>3, <1>6, <1>7, <1>9, <1>12

\* Sessions that the server has sorted stay as they are when they are sent again.
LEMMA StoredTwice ==
  ASSUME NEW f, f.rows \in Seq(Nat), NEW g, g.rows = Stored(SessionInputs(f))
  PROVE  Stored(SessionInputs(g)) = Stored(SessionInputs(f))
<1>1. PICK inputs, s : inputs = SessionInputs(f) /\ s = Stored(inputs)
  OBVIOUS
<1>2. PICK n : n = Cardinality(DOMAIN inputs)
  OBVIOUS
<1>3. /\ Starting(inputs) /\ \A k \in DOMAIN inputs : inputs[k] # EmptyRow
      /\ s \in Seq(Nat) /\ DOMAIN s = 1 .. n
  BY <1>1, <1>2, InputsStart
<1>4. n \in Nat
  BY <1>2, <1>3, FS_CardinalityType DEF Starting
<1>5. ASSUME NEW k \in 1 .. n
      PROVE  /\ s[k] = Min(Due(inputs, k)) /\ s[k] \in Due(inputs, k)
             /\ s[k] \in Range(inputs) /\ s[k] \in Nat
             /\ \A t \in Due(inputs, k) : s[k] <= t
             /\ \A x \in Nat : s[k] <= x <=> Begun(inputs, x) >= k
  BY <1>1, <1>2, <1>3, StoredBegins
<1>6. \A k \in 1 .. n : s[k] # EmptyRow
  BY <1>3, <1>5 DEF Range
<1>7. SessionInputs(g) = s
  <2>1. g.rows = s
    BY <1>1
  <2>2. {j \in DOMAIN s : s[j] # EmptyRow} = DOMAIN s
    BY <1>3, <1>6
  <2>3. s = [k \in DOMAIN s |-> s[k]]
    <3>1. s \in [1 .. n -> Nat]
      BY <1>3, LenProperties
    <3> QED
      BY <3>1
  <2> QED
    BY <2>1, <2>2, <2>3 DEF SessionInputs
<1>8. Starting(s)
  <2>1. IsFiniteSet(1 .. n)
    BY <1>4, FS_Interval
  <2> QED
    BY <1>3, <1>5, <2>1 DEF Starting
<1>9. Cardinality(DOMAIN s) = n
  BY <1>3, <1>4, FS_Interval
<1>10. ASSUME NEW x \in Nat PROVE Begun(s, x) = Begun(inputs, x)
  <2>1. PICK c : c = Begun(inputs, x)
    OBVIOUS
  <2>2. c \in Nat /\ c <= n
    BY <1>2, <1>3, <2>1, BegunGrows
  <2>3. {k \in DOMAIN s : s[k] <= x} = 1 .. c
    BY <1>3, <1>4, <1>5, <2>1, <2>2
  <2>4. Cardinality(1 .. c) = c
    BY <2>2, FS_Interval
  <2> QED
    BY <2>1, <2>3, <2>4 DEF Begun
<1>11. ASSUME NEW k \in 1 .. n PROVE Stored(s)[k] = s[k]
  <2>1. /\ Stored(s)[k] \in Due(s, k) /\ Stored(s)[k] \in Nat
        /\ \A t \in Due(s, k) : Stored(s)[k] <= t
    BY <1>8, <1>9, StoredBegins
  <2>2. s[k] \in Due(s, k)
    BY <1>3, <1>5, <1>10 DEF Due, Range
  <2>3. Due(s, k) \subseteq Due(inputs, k)
    <3>1. Range(s) \subseteq Range(inputs)
      BY <1>3, <1>5 DEF Range
    <3>2. \A t \in Range(s) : t \in Nat
      BY <1>3, <1>5 DEF Range
    <3> QED
      BY <1>10, <3>1, <3>2 DEF Due
  <2> QED
    BY <1>5, <2>1, <2>2, <2>3
<1>12. Stored(s) = s
  <2>1. Stored(s) = [k \in 1 .. n |-> Min(Due(s, k))]
    BY <1>9 DEF Stored, Due
  <2>2. s \in [1 .. n -> Nat]
    BY <1>3, LenProperties
  <2> QED
    BY <1>11, <2>1, <2>2
<1> QED
  BY <1>1, <1>7, <1>12

-----------------------------------------------------------------------------
(* Types *)

\* A larger set of field values types at least as much.
LEMMA TypesGrow ==
  ASSUME NEW V, NEW W, V \subseteq W
  PROVE  /\ Forms(V) \subseteq Forms(W) /\ Copies(V) \subseteq Copies(W)
         /\ Jobs(V) \subseteq Jobs(W) /\ Uis(V) \subseteq Uis(W)
         /\ Seq(Copies(V)) \subseteq Seq(Copies(W))
<1>1. Forms(V) \subseteq Forms(W)
  BY DEF Forms
<1>2. Copies(V) \subseteq Copies(W)
  BY DEF Copies
<1>3. Jobs(V) \subseteq Jobs(W)
  BY <1>1, <1>2 DEF Jobs
<1>4. Uis(V) \subseteq Uis(W)
  BY <1>2 DEF Uis
<1>5. Seq(Copies(V)) \subseteq Seq(Copies(W))
  <2> SUFFICES ASSUME NEW s \in Seq(Copies(V)) PROVE s \in Seq(Copies(W))
    OBVIOUS
  <2>1. s \in [1 .. Len(s) -> Copies(V)] /\ Len(s) \in Nat
    BY LenProperties
  <2>2. s \in [1 .. Len(s) -> Copies(W)]
    BY <1>2, <2>1
  <2> QED
    BY <2>1, <2>2, SeqDef
<1> QED
  BY <1>1, <1>2, <1>3, <1>4, <1>5

LEMMA TypedGrows ==
  ASSUME NEW V, NEW W, V \subseteq W, Typed(V)
  PROVE  Typed(W)
<1>1. /\ {0, <<>>, <<EmptyRow>>, "draft", "published"} \subseteq W
  BY DEF Typed
<1>2. /\ events \in Seq(Copies(W)) /\ form \in Forms(W) /\ sent \in Forms(W)
      /\ ui \in Uis(W)
  BY TypesGrow DEF Typed
<1>3. jobs \in [Slots -> Jobs(W)]
  BY TypesGrow DEF Typed
<1> QED
  BY <1>1, <1>2, <1>3 DEF Typed

\* The empty values are typed.
LEMMA EmptyTypes ==
  ASSUME NEW V, {0, <<>>, <<EmptyRow>>, "draft", "published"} \subseteq V
  PROVE  /\ EmptyForm \in Forms(V) /\ NoEvent \in Copies(V)
         /\ NoEvent.banner = 0 /\ NoEvent.video = 0
         /\ NoJob \in Jobs(V)
         /\ NoJob.kind = "none" /\ NoJob.call = "none" /\ NoJob.res = "none" /\ NoJob.id = 0
<1>1. EmptyForm \in Forms(V)
  BY DEF EmptyForm, Forms, EmptyRow
<1>2. NoEvent \in Copies(V) /\ NoEvent.banner = 0 /\ NoEvent.video = 0
  BY DEF NoEvent, Event, EmptyForm, Copies
<1>3. NoJob \in Jobs(V)
  BY <1>1, <1>2 DEF NoJob, Jobs, Kinds, Calls
<1> QED
  BY <1>1, <1>2, <1>3 DEF NoJob

\* A new call.
LEMMA JobType ==
  ASSUME NEW V, {0, <<>>, <<EmptyRow>>, "draft", "published"} \subseteq V,
         NEW kind \in Kinds, NEW call \in Calls
  PROVE  /\ Job(kind, call) \in Jobs(V)
         /\ Job(kind, call).kind = kind /\ Job(kind, call).call = call
         /\ Job(kind, call).res = "none" /\ Job(kind, call).id = 0
<1>1. NoJob \in Jobs(V) /\ NoJob.res = "none" /\ NoJob.id = 0
  BY EmptyTypes
<1> QED
  BY <1>1 DEF Job, Jobs

-----------------------------------------------------------------------------
(***************************************************************************)
(* A step that puts a job into slot i and leaves the events alone.  What   *)
(* it must respect, in four parts.                                         *)
(***************************************************************************)

\* The page keeps the event it knows of, and what excuses a failure stays.
Calm ==
  /\ UNCHANGED <<page, events>>
  /\ faults' \in Nat /\ faults <= faults' /\ bubbled' \in BOOLEAN /\ overlap' \in BOOLEAN
  /\ (bubbled => bubbled') /\ (overlap => overlap')
  /\ ui'.id = 0 \/ ui'.id \in DOMAIN events
  /\ page # "create" => ui'.id = 0
  /\ ui.id # 0 => ui'.id # 0

\* A submission starts where none is under way and ends with what it did.
FormKept(i, job) ==
  page = "create" /\ faults' = 0 /\ ~bubbled' =>
    /\ job.kind # "prompt"
    /\ job.kind = "create" => /\ Active({"create"}) = {} /\ job.res = "none"
                              /\ ui'.busy /\ ui'.id = 0 /\ ui.id = 0
    /\ (jobs[i].kind = "create" /\ job.kind # "create") => Len(events) = IF ui'.id = 0 THEN 0 ELSE 1
    /\ (jobs[i].kind # "create" /\ job.kind # "create") =>
         (ui.busy => ui'.busy) /\ (ui'.id = 0 <=> ui.id = 0)

\* A save starts where none is under way and is reported when it is stored.
SaveKept(i, job) ==
  /\ page # "edit" => ~ui'.saved
  /\ page = "edit" =>
       /\ ui'.saved => ~ui'.busy /\ FieldsStored' /\ SessionsStored'
       /\ \/ job.kind # "save" /\ jobs[i].kind # "save" /\ sent' = sent /\ ui'.busy = ui.busy
          \/ /\ job.kind = "save" /\ (jobs[i].kind = "save" \/ Active({"save"}) = {})
             /\ ui'.busy /\ SaveGood(job)'
          \/ job.kind # "save" /\ jobs[i].kind = "save"

\* A call that answers with the event starts where none is under way; the page
\* takes over a copy only from an answer.
CopyKept(i, job) ==
  page # "edit" /\ faults' = 0 /\ ~overlap' =>
    /\ job.kind \in Readers => Active(Readers) = {} /\ job.res = "none"
    /\ job.kind = "create" => job.res = "none"
    /\ page = "create" => job.id \in {0, ui.id} /\ ui'.id \in {ui.id, jobs[i].id}
    /\ \/ ui'.copy = NoEvent
       \/ Target' \in DOMAIN events /\ SameFiles(ui'.copy, events[Target'])
       \/ ui'.copy = ui.copy /\ Target' = Target /\ ~(jobs[i].kind \in Files /\ jobs[i].res = "ok")

\* The names of the jobs before and after.
LEMMA Slotted ==
  ASSUME NEW V, Typed(V), NEW i \in Slots, NEW job, jobs' = [jobs EXCEPT ![i] = job]
  PROVE  /\ jobs'[i] = job /\ \A j \in Slots \ {i} : jobs'[j] = jobs[j]
         /\ \A K : Active(K) = {j \in Slots : jobs[j].kind \in K}
         /\ \A K : Active(K)' = {j \in Slots : jobs'[j].kind \in K}
<1>1. jobs'[i] = job /\ \A j \in Slots \ {i} : jobs'[j] = jobs[j]
  BY DEF Typed
<1>2. \A K : Active(K) = {j \in Slots : jobs[j].kind \in K}
  BY DEF Active
<1>3. \A K : Active(K)' = {j \in Slots : jobs'[j].kind \in K}
  BY DEF Active
<1> QED
  BY <1>1, <1>2, <1>3

LEMMA ShapeStep ==
  ASSUME NEW V, Typed(V), Shape, NEW i \in Slots, NEW job, jobs' = [jobs EXCEPT ![i] = job],
         Calm, JobShape(job)'
  PROVE  Shape'
<1>1. jobs'[i] = job /\ \A j \in Slots \ {i} : jobs'[j] = jobs[j]
  BY Slotted
<1>2. /\ page' = page /\ events' = events
      /\ faults' \in Nat /\ faults <= faults' /\ faults \in Nat
      /\ ui'.id = 0 \/ ui'.id \in DOMAIN events
      /\ page # "create" => ui'.id = 0
      /\ ui.id # 0 => ui'.id # 0
  BY DEF Calm, Typed
<1>3. PageKinds' = PageKinds
  BY <1>2 DEF PageKinds
<1>4. ASSUME NEW j \in Slots, j # i
      PROVE  JobShape(jobs[j])'
  <2>1. JobShape(jobs[j]) /\ jobs'[j] = jobs[j]
    BY <1>1, <1>4 DEF Shape
  <2> QED
    BY <1>2, <1>3, <2>1 DEF JobShape, CallOf
<1>5. JobShape(jobs[i])'
  <2>1. JobShape(job)'
    OBVIOUS
  <2> QED
    BY <1>1, <2>1 DEF JobShape, CallOf
<1> QED
  BY <1>2, <1>4, <1>5 DEF Shape

LEMMA FormStep ==
  ASSUME NEW V, Typed(V), OneForm, NEW i \in Slots, NEW job, jobs' = [jobs EXCEPT ![i] = job],
         Calm, FormKept(i, job)
  PROVE  OneForm'
<1> SUFFICES ASSUME page = "create", faults' = 0, ~bubbled'
             PROVE  /\ \A j \in Slots : jobs'[j].kind # "prompt"
                    /\ \A j, k \in Active({"create"})' : j = k
                    /\ \A j \in Active({"create"})' :
                         ui'.busy /\ ui'.id = 0 /\ Len(events) = IF jobs'[j].res = "ok" THEN 1 ELSE 0
                    /\ Active({"create"})' = {} => Len(events) = IF ui'.id = 0 THEN 0 ELSE 1
  BY DEF OneForm, Calm, Good
<1>1. /\ jobs'[i] = job /\ \A j \in Slots \ {i} : jobs'[j] = jobs[j]
      /\ \A K : Active(K) = {j \in Slots : jobs[j].kind \in K}
      /\ \A K : Active(K)' = {j \in Slots : jobs'[j].kind \in K}
  BY Slotted
<1>2. faults = 0 /\ ~bubbled
  BY DEF Calm, Typed
<1>3. /\ \A j \in Slots : jobs[j].kind # "prompt"
      /\ \A j, k \in Active({"create"}) : j = k
      /\ \A j \in Active({"create"}) :
           ui.busy /\ ui.id = 0 /\ Len(events) = IF jobs[j].res = "ok" THEN 1 ELSE 0
      /\ Active({"create"}) = {} => Len(events) = IF ui.id = 0 THEN 0 ELSE 1
  BY <1>2 DEF OneForm, Good
<1>4. /\ job.kind # "prompt"
      /\ job.kind = "create" => /\ Active({"create"}) = {} /\ job.res = "none"
                                /\ ui'.busy /\ ui'.id = 0 /\ ui.id = 0
      /\ (jobs[i].kind = "create" /\ job.kind # "create") => Len(events) = IF ui'.id = 0 THEN 0 ELSE 1
      /\ (jobs[i].kind # "create" /\ job.kind # "create") =>
           (ui.busy => ui'.busy) /\ (ui'.id = 0 <=> ui.id = 0)
  BY DEF FormKept
<1>5. \A j \in Slots : j \in Active({"create"}) <=> jobs[j].kind = "create"
  BY <1>1
<1>6. \A j \in Slots : j \in Active({"create"})' <=> jobs'[j].kind = "create"
  BY <1>1
<1>7. Active({"create"}) \subseteq Slots /\ Active({"create"})' \subseteq Slots
  BY <1>1
<1>8. CASE job.kind = "create"
  <2>1. Active({"create"})' = {i}
    BY <1>1, <1>4, <1>5, <1>6, <1>7, <1>8
  <2> QED
    BY <1>1, <1>3, <1>4, <1>8, <2>1
<1>9. CASE jobs[i].kind = "create" /\ job.kind # "create"
  <2>1. Active({"create"})' = {}
    BY <1>1, <1>3, <1>5, <1>6, <1>7, <1>9
  <2> QED
    BY <1>1, <1>3, <1>4, <1>9, <2>1
<1>10. CASE jobs[i].kind # "create" /\ job.kind # "create"
  <2>1. Active({"create"})' = Active({"create"}) /\ i \notin Active({"create"})
    BY <1>1, <1>5, <1>6, <1>7, <1>10
  <2> QED
    BY <1>1, <1>3, <1>4, <1>7, <1>10, <2>1
<1> QED
  BY <1>8, <1>9, <1>10

LEMMA SaveStep ==
  ASSUME NEW V, Typed(V), SaveKnown, NEW i \in Slots, NEW job, jobs' = [jobs EXCEPT ![i] = job],
         Calm, SaveKept(i, job)
  PROVE  SaveKnown'
<1>1. /\ jobs'[i] = job /\ \A j \in Slots \ {i} : jobs'[j] = jobs[j]
      /\ \A K : Active(K) = {j \in Slots : jobs[j].kind \in K}
      /\ \A K : Active(K)' = {j \in Slots : jobs'[j].kind \in K}
  BY Slotted
<1>2. page' = page /\ events' = events
  BY DEF Calm
<1> SUFFICES ASSUME page = "edit"
             PROVE  /\ \A j, k \in Active({"save"})' : j = k
                    /\ \A j \in Active({"save"})' : ui'.busy /\ SaveGood(jobs[j])'
  BY <1>2 DEF SaveKnown, SaveKept
<1>3. /\ \A j, k \in Active({"save"}) : j = k
      /\ \A j \in Active({"save"}) : ui.busy /\ SaveGood(jobs[j])
  BY DEF SaveKnown
<1>4. \A j \in Slots : j \in Active({"save"}) <=> jobs[j].kind = "save"
  BY <1>1
<1>5. \A j \in Slots : j \in Active({"save"})' <=> jobs'[j].kind = "save"
  BY <1>1
<1>6. Active({"save"}) \subseteq Slots /\ Active({"save"})' \subseteq Slots
  BY <1>1
<1>7. CASE job.kind # "save" /\ jobs[i].kind # "save" /\ sent' = sent /\ ui'.busy = ui.busy
  <2>1. Active({"save"})' = Active({"save"}) /\ i \notin Active({"save"})
    BY <1>1, <1>4, <1>5, <1>6, <1>7
  <2>2. ASSUME NEW j \in Active({"save"})'
        PROVE  ui'.busy /\ SaveGood(jobs[j])'
    <3>1. j \in Slots /\ jobs'[j] = jobs[j] /\ SaveGood(jobs[j]) /\ ui.busy
      BY <1>1, <1>3, <1>6, <2>1, <2>2
    <3> QED
      BY <1>2, <1>7, <3>1 DEF SaveGood, FieldsStored, SessionsStored
  <2> QED
    BY <1>3, <2>1, <2>2
<1>8. CASE job.kind = "save" /\ (jobs[i].kind = "save" \/ Active({"save"}) = {})
           /\ ui'.busy /\ SaveGood(job)'
  <2>1. Active({"save"})' = {i}
    BY <1>1, <1>3, <1>4, <1>5, <1>6, <1>8
  <2>2. SaveGood(jobs[i])'
    BY <1>1, <1>8 DEF SaveGood
  <2> QED
    BY <1>8, <2>1, <2>2
<1>9. CASE job.kind # "save" /\ jobs[i].kind = "save"
  <2>1. Active({"save"})' = {}
    BY <1>1, <1>3, <1>4, <1>5, <1>6, <1>9
  <2> QED
    BY <2>1
<1> QED
  BY <1>7, <1>8, <1>9 DEF SaveKept

LEMMA CopyStep ==
  ASSUME NEW V, Typed(V), Shape, CopyKnown, NEW i \in Slots, NEW job,
         jobs' = [jobs EXCEPT ![i] = job], Calm, CopyKept(i, job)
  PROVE  CopyKnown'
<1>1. /\ jobs'[i] = job /\ \A j \in Slots \ {i} : jobs'[j] = jobs[j]
      /\ \A K : Active(K) = {j \in Slots : jobs[j].kind \in K}
      /\ \A K : Active(K)' = {j \in Slots : jobs'[j].kind \in K}
  BY Slotted
<1>2. page' = page /\ events' = events
  BY DEF Calm
<1> SUFFICES ASSUME page # "edit", faults' = 0, ~overlap'
    PROVE  /\ \A j, k \in Active(Readers)' : j = k
           /\ \A j \in Active(Readers \cup {"create"})' :
                jobs'[j].res = "ok" => /\ jobs'[j].id \in DOMAIN events
                                       /\ SameFiles(jobs'[j].copy, events[jobs'[j].id])
           /\ \A j \in Active({"create"})' :
                jobs'[j].res = "ok" => /\ jobs'[j].id # ui'.id
                                       /\ \A k \in Slots \ {j} : jobs'[k].id # jobs'[j].id
           /\ ui'.copy # NoEvent =>
                /\ Target' \in DOMAIN events
                /\ \/ SameFiles(ui'.copy, events[Target'])
                   \/ \E j \in Active(Files)' : jobs'[j].res = "ok" /\ jobs'[j].id = Target'
  BY <1>2 DEF CopyKnown, Good, SameFiles, Readers, Files
<1>3. faults = 0 /\ ~overlap
  BY DEF Calm, Typed
<1>4. /\ \A j, k \in Active(Readers) : j = k
      /\ \A j \in Active(Readers \cup {"create"}) :
           jobs[j].res = "ok" => /\ jobs[j].id \in DOMAIN events
                                 /\ SameFiles(jobs[j].copy, events[jobs[j].id])
      /\ \A j \in Active({"create"}) :
           jobs[j].res = "ok" => /\ jobs[j].id # ui.id
                                 /\ \A k \in Slots \ {j} : jobs[k].id # jobs[j].id
      /\ ui.copy # NoEvent =>
           /\ Target \in DOMAIN events
           /\ \/ SameFiles(ui.copy, events[Target])
              \/ \E j \in Active(Files) : jobs[j].res = "ok" /\ jobs[j].id = Target
  BY <1>3 DEF CopyKnown, Good
<1>5. /\ job.kind \in Readers => Active(Readers) = {} /\ job.res = "none"
      /\ job.kind = "create" => job.res = "none"
      /\ page = "create" => job.id \in {0, ui.id} /\ ui'.id \in {ui.id, jobs[i].id}
      /\ \/ ui'.copy = NoEvent
         \/ Target' \in DOMAIN events /\ SameFiles(ui'.copy, events[Target'])
         \/ ui'.copy = ui.copy /\ Target' = Target /\ ~(jobs[i].kind \in Files /\ jobs[i].res = "ok")
  BY <1>3 DEF CopyKept
<1>6. \A j, k \in Active(Readers)' : j = k
  <2>1. CASE job.kind \in Readers
    BY <1>1, <1>5, <2>1
  <2>2. CASE job.kind \notin Readers
    BY <1>1, <1>4, <2>2
  <2> QED
    BY <2>1, <2>2
<1>7. ASSUME NEW j \in Slots, jobs'[j].kind \in Readers \cup {"create"}, jobs'[j].res = "ok"
      PROVE  j # i /\ jobs'[j] = jobs[j] /\ j \in Active(Readers \cup {"create"})
  BY <1>1, <1>5, <1>7
<1>8. ASSUME NEW j \in Slots, jobs'[j].kind = "create", jobs'[j].res = "ok"
      PROVE  /\ jobs'[j].id # ui'.id
             /\ \A k \in Slots \ {j} : jobs'[k].id # jobs'[j].id
  <2>1. j # i /\ jobs'[j] = jobs[j] /\ j \in Active({"create"})
    BY <1>1, <1>7, <1>8
  <2>2. /\ jobs[j].id # ui.id
        /\ \A k \in Slots \ {j} : jobs[k].id # jobs[j].id
    BY <1>4, <1>8, <2>1
  <2>3. page = "create" /\ jobs[j].id # 0
    <3>1. JobShape(jobs[j]) /\ jobs[j].kind = "create" /\ jobs[j].res = "ok"
      BY <1>8, <2>1 DEF Shape
    <3> QED
      BY <3>1 DEF JobShape, PageKinds
  <2>4. ui'.id # jobs[j].id /\ job.id # jobs[j].id
    BY <1>5, <2>1, <2>2, <2>3
  <2> QED
    BY <1>1, <2>1, <2>2, <2>4
<1>9. ASSUME ui'.copy # NoEvent
      PROVE  /\ Target' \in DOMAIN events
             /\ \/ SameFiles(ui'.copy, events[Target'])
                \/ \E j \in Active(Files)' : jobs'[j].res = "ok" /\ jobs'[j].id = Target'
  <2>1. CASE Target' \in DOMAIN events /\ SameFiles(ui'.copy, events[Target'])
    BY <2>1
  <2>2. CASE ui'.copy = ui.copy /\ Target' = Target /\ ~(jobs[i].kind \in Files /\ jobs[i].res = "ok")
    <3>1. \A j \in Active(Files) : jobs[j].res = "ok" => jobs'[j] = jobs[j] /\ j \in Active(Files)'
      BY <1>1, <2>2
    <3> QED
      BY <1>4, <1>9, <2>2, <3>1
  <2> QED
    BY <1>5, <1>9, <2>1, <2>2
<1>10. \A j \in Active(Readers \cup {"create"})' :
         jobs'[j].res = "ok" => /\ jobs'[j].id \in DOMAIN events
                                /\ SameFiles(jobs'[j].copy, events[jobs'[j].id])
  BY <1>1, <1>4, <1>7
<1>11. \A j \in Active({"create"})' :
         jobs'[j].res = "ok" => /\ jobs'[j].id # ui'.id
                                /\ \A k \in Slots \ {j} : jobs'[k].id # jobs'[j].id
  BY <1>1, <1>8
<1> QED
  BY <1>6, <1>9, <1>10, <1>11

\* The whole invariant.
LEMMA JobStep ==
  ASSUME NEW V, Typed(V), IInv, NEW i \in Slots, NEW job, jobs' = [jobs EXCEPT ![i] = job],
         Calm, JobShape(job)', FormKept(i, job), SaveKept(i, job), CopyKept(i, job)
  PROVE  IInv'
<1>1. Shape /\ OneForm /\ SaveKnown /\ CopyKnown
  BY DEF IInv
<1>2. Shape'
  BY <1>1, ShapeStep
<1>3. OneForm'
  BY <1>1, FormStep
<1>4. SaveKnown'
  BY <1>1, SaveStep
<1>5. CopyKnown'
  BY <1>1, CopyStep
<1> QED
  BY <1>2, <1>3, <1>4, <1>5 DEF IInv

-----------------------------------------------------------------------------
(* The answers. *)

\* A step that changes neither the calls nor what the page knows.
LEMMA QuietStep ==
  ASSUME IInv, UNCHANGED <<page, events, ui, jobs, sent, faults, bubbled>>, overlap => overlap'
  PROVE  IInv'
<1>1. \A K : Active(K)' = Active(K)
  BY DEF Active
<1>2. PageKinds' = PageKinds /\ Target' = Target /\ FieldsStored' = FieldsStored
      /\ SessionsStored' = SessionsStored
  BY DEF PageKinds, Target, FieldsStored, SessionsStored
<1>3. ASSUME NEW i PROVE JobShape(jobs[i])' = JobShape(jobs[i])
  BY <1>2 DEF JobShape, CallOf
<1>4. Shape'
  BY <1>3 DEF IInv, Shape
<1>5. OneForm'
  BY <1>1 DEF IInv, OneForm, Good
<1>6. ASSUME NEW i, SaveGood(jobs[i]) PROVE SaveGood(jobs[i])'
  BY <1>2, <1>6 DEF SaveGood
<1>7. SaveKnown'
  BY <1>1, <1>2, <1>6 DEF IInv, SaveKnown
<1>8. CopyKnown'
  BY <1>1, <1>2 DEF IInv, CopyKnown, Good
<1> QED
  BY <1>4, <1>5, <1>7, <1>8 DEF IInv

\* The call in slot i ends.
LEMMA EndStep ==
  ASSUME NEW V, Typed(V), IInv, NEW i \in Slots, jobs' = Ended(i),
         UNCHANGED <<page, events, faults, bubbled, overlap>>,
         ui'.id = 0 \/ ui'.id \in DOMAIN events,
         page # "create" => ui'.id = 0,
         ui.id # 0 => ui'.id # 0,
         page = "create" => ui'.id \in {ui.id, jobs[i].id},
         page = "create" /\ faults = 0 /\ ~bubbled =>
           /\ jobs[i].kind = "create" => Len(events) = IF ui'.id = 0 THEN 0 ELSE 1
           /\ jobs[i].kind # "create" => (ui.busy => ui'.busy) /\ (ui'.id = 0 <=> ui.id = 0),
         page # "edit" => ~ui'.saved,
         page = "edit" =>
           /\ ui'.saved => ~ui'.busy /\ FieldsStored' /\ SessionsStored'
           /\ jobs[i].kind # "save" => sent' = sent /\ ui'.busy = ui.busy,
         page # "edit" /\ faults = 0 /\ ~overlap =>
           \/ ui'.copy = NoEvent
           \/ Target' \in DOMAIN events /\ SameFiles(ui'.copy, events[Target'])
           \/ ui'.copy = ui.copy /\ Target' = Target /\ ~(jobs[i].kind \in Files /\ jobs[i].res = "ok")
  PROVE  IInv'
<1>1. /\ NoJob.kind = "none" /\ NoJob.call = "none" /\ NoJob.res = "none" /\ NoJob.id = 0
  BY EmptyTypes DEF Typed
<1>2. PICK job : job = NoJob
  OBVIOUS
<1>3. job.kind = "none" /\ job.call = "none" /\ job.res = "none" /\ job.id = 0
  BY <1>1, <1>2
<1>4. jobs' = [jobs EXCEPT ![i] = job]
  BY <1>2 DEF Ended, Put
<1>5. Calm
  BY DEF Calm, Typed
<1>6. JobShape(job)'
  BY <1>3 DEF JobShape, PageKinds, CallOf, Files
<1>7. FormKept(i, job)
  BY <1>3 DEF FormKept
<1>8. SaveKept(i, job)
  BY <1>3 DEF SaveKept
<1>9. CopyKept(i, job)
  BY <1>3 DEF CopyKept, Readers, Files
<1> QED
  BY <1>4, <1>5, <1>6, <1>7, <1>8, <1>9, JobStep

\* What is known of the job in slot i and of the page.
LEMMA Facts ==
  ASSUME NEW V, Typed(V), IInv, NEW i \in Slots
  PROVE  /\ jobs[i] \in Jobs(V) /\ JobShape(jobs[i]) /\ ui \in Uis(V)
         /\ ui.id = 0 \/ ui.id \in DOMAIN events
         /\ page # "create" => DOMAIN events = {1} /\ ui.id = 0
         /\ page # "edit" => ~ui.saved
         /\ page = "edit" => (ui.saved => ~ui.busy /\ FieldsStored /\ SessionsStored)
         /\ page \in {"create", "edit", "media"}
<1>1. jobs[i] \in Jobs(V) /\ ui \in Uis(V) /\ page \in {"create", "edit", "media"}
  BY DEF Typed
<1>2. JobShape(jobs[i]) /\ (ui.id = 0 \/ ui.id \in DOMAIN events)
      /\ (page # "create" => DOMAIN events = {1} /\ ui.id = 0)
  BY DEF IInv, Shape
<1> QED
  BY <1>1, <1>2 DEF IInv, SaveKnown

\* What is stored does not depend on the page.
LEMMA StoredKept ==
  ASSUME UNCHANGED <<events, sent>>
  PROVE  FieldsStored' = FieldsStored /\ SessionsStored' = SessionsStored
BY DEF FieldsStored, SessionsStored

\* A call that is no submission and no save ends; the page learns nothing but,
\* perhaps, a copy.
LEMMA PlainEnd ==
  ASSUME NEW V, Typed(V), IInv, NEW i \in Slots, jobs' = Ended(i),
         UNCHANGED <<page, events, faults, bubbled, overlap, sent>>,
         jobs[i].kind \notin {"create", "save"},
         ui'.id = ui.id, ui'.saved = ui.saved, ui'.busy = ui.busy,
         page # "edit" /\ faults = 0 /\ ~overlap =>
           \/ ui'.copy = NoEvent
           \/ Target' \in DOMAIN events /\ SameFiles(ui'.copy, events[Target'])
           \/ ui'.copy = ui.copy /\ ~(jobs[i].kind \in Files /\ jobs[i].res = "ok")
  PROVE  IInv'
<1>1. Target' = Target
  BY DEF Target
<1>2. /\ ui.id = 0 \/ ui.id \in DOMAIN events
      /\ page # "create" => ui.id = 0
      /\ page # "edit" => ~ui.saved
      /\ page = "edit" => (ui.saved => ~ui.busy /\ FieldsStored /\ SessionsStored)
  BY Facts
<1>3. page = "edit" => (ui'.saved => ~ui'.busy /\ FieldsStored' /\ SessionsStored')
  BY <1>2, StoredKept
<1>4. page # "edit" => ~ui'.saved
  BY <1>2
<1> QED
  BY <1>1, <1>2, <1>3, <1>4, EndStep

LEMMA AnswerCategoriesStep ==
  ASSUME NEW V, Typed(V), IInv, NEW i \in Slots, AnswerCategories(i)
  PROVE  IInv'
<1>1. /\ jobs' = Ended(i) /\ jobs[i].kind = "cats"
      /\ UNCHANGED <<page, events, faults, bubbled, overlap, sent>>
  BY DEF AnswerCategories, Answered, Server, bounds, history
<1>2. ui'.id = ui.id /\ ui'.copy = ui.copy /\ ui'.saved = ui.saved /\ ui'.busy = ui.busy
  BY DEF AnswerCategories, Typed, Uis
<1> QED
  BY <1>1, <1>2, PlainEnd DEF Files

LEMMA AnswerLoadStep ==
  ASSUME NEW V, Typed(V), IInv, NEW i \in Slots, AnswerLoad(i)
  PROVE  IInv'
<1>1. /\ jobs' = Ended(i) /\ jobs[i].kind = "load"
      /\ UNCHANGED <<page, events, faults, bubbled, overlap, sent>>
  BY DEF AnswerLoad, Answered, Server, bounds
<1>2. PICK c : c = IF page = "media" THEN jobs[i].copy ELSE ui.copy
  OBVIOUS
<1>3. ui' = IF ~Good(i) THEN [ui EXCEPT !.loading = FALSE, !.error = TRUE]
            ELSE [ui EXCEPT !.loading = FALSE, !.cats = TRUE, !.copy = c]
  BY <1>2 DEF AnswerLoad, Typed, Uis
<1>4. ui'.id = ui.id /\ ui'.saved = ui.saved /\ ui'.busy = ui.busy
      /\ ui'.copy = IF Good(i) THEN c ELSE ui.copy
  BY <1>3 DEF Typed, Uis
<1>5. ASSUME page # "edit", faults = 0, ~overlap, Good(i), page = "media"
      PROVE  Target' \in DOMAIN events /\ SameFiles(ui'.copy, events[Target'])
  <2>1. i \in Active(Readers \cup {"create"})
    BY <1>1 DEF Active, Readers
  <2>2. jobs[i].id \in DOMAIN events /\ SameFiles(jobs[i].copy, events[jobs[i].id])
    BY <1>5, <2>1 DEF IInv, CopyKnown
  <2>3. DOMAIN events = {1} /\ Target' = 1
    BY <1>1, <1>5, Facts DEF Target
  <2> QED
    BY <1>2, <1>4, <1>5, <2>2, <2>3
<1>6. page # "edit" /\ faults = 0 /\ ~overlap =>
        \/ ui'.copy = NoEvent
        \/ Target' \in DOMAIN events /\ SameFiles(ui'.copy, events[Target'])
        \/ ui'.copy = ui.copy /\ ~(jobs[i].kind \in Files /\ jobs[i].res = "ok")
  BY <1>1, <1>2, <1>4, <1>5 DEF Files
<1> QED
  BY <1>1, <1>4, <1>6, PlainEnd

LEMMA AnswerPublishStep ==
  ASSUME NEW V, Typed(V), IInv, NEW i \in Slots, AnswerPublish(i)
  PROVE  IInv'
<1>1. /\ jobs' = Ended(i) /\ jobs[i].kind = "publish"
      /\ UNCHANGED <<page, events, faults, bubbled, overlap, sent>>
  BY DEF AnswerPublish, Answered, Server, bounds, history
<1>2. ui'.id = ui.id /\ ui'.copy = ui.copy /\ ui'.saved = ui.saved /\ ui'.busy = ui.busy
  BY DEF AnswerPublish, Typed, Uis
<1> QED
  BY <1>1, <1>2, PlainEnd DEF Files

LEMMA AnswerUploadStep ==
  ASSUME NEW V, Typed(V), IInv, NEW i \in Slots, AnswerUpload(i)
  PROVE  IInv'
<1>1. /\ jobs' = Ended(i) /\ jobs[i].kind \in Files
      /\ UNCHANGED <<page, events, faults, bubbled, overlap, sent>>
  BY DEF AnswerUpload, Answered, Server, bounds, history
<1>2. PICK d : d = IF page = "create" THEN jobs[i].id ELSE ui.id
  OBVIOUS
<1>3. PICK file : file = jobs[i].kind
  OBVIOUS
<1>4. ui' = IF Good(i) THEN [ui EXCEPT ![file] = FALSE, !.copy = jobs[i].copy, !.id = d]
            ELSE [ui EXCEPT ![file] = FALSE, !.error = TRUE]
  BY <1>1, <1>2, <1>3 DEF AnswerUpload, Typed, Uis, Files
<1>5. ui'.saved = ui.saved /\ ui'.busy = ui.busy
      /\ ui'.copy = (IF Good(i) THEN jobs[i].copy ELSE ui.copy)
      /\ ui'.id = (IF Good(i) THEN d ELSE ui.id)
  BY <1>1, <1>3, <1>4 DEF Typed, Uis, Files
<1>6. /\ ui.id = 0 \/ ui.id \in DOMAIN events
      /\ page # "create" => DOMAIN events = {1} /\ ui.id = 0
      /\ page # "edit" => ~ui.saved
      /\ JobShape(jobs[i])
  BY Facts
<1>7. /\ page # "edit"
      /\ jobs[i].id = 0 \/ jobs[i].id \in DOMAIN events
      /\ Good(i) => jobs[i].id # 0
      /\ page = "create" => ui.id # 0
  BY <1>1, <1>6 DEF JobShape, PageKinds, Files, Good
<1>8. ASSUME faults = 0, ~overlap, Good(i)
      PROVE  Target' \in DOMAIN events /\ SameFiles(ui'.copy, events[Target'])
  <2>1. i \in Active(Readers \cup {"create"})
    BY <1>1 DEF Active, Readers
  <2>2. jobs[i].id \in DOMAIN events /\ SameFiles(jobs[i].copy, events[jobs[i].id])
    BY <1>7, <1>8, <2>1 DEF IInv, CopyKnown
  <2>3. Target' = jobs[i].id
    BY <1>1, <1>2, <1>5, <1>6, <1>8, <2>2 DEF Target
  <2> QED
    BY <1>5, <1>8, <2>2, <2>3
<1>9. ~Good(i) => Target' = Target
  BY <1>1, <1>5 DEF Target
<1>10. ui'.id = 0 \/ ui'.id \in DOMAIN events
  BY <1>2, <1>5, <1>6, <1>7
<1>11. (ui.id # 0 => ui'.id # 0) /\ (page # "create" => ui'.id = 0)
  BY <1>2, <1>5, <1>6, <1>7
<1>12. page = "create" => ui'.id \in {ui.id, jobs[i].id} /\ ui'.id # 0 /\ ui.id # 0
  BY <1>2, <1>5, <1>7
<1>13. jobs[i].kind \notin {"create", "save"}
  BY <1>1 DEF Files
<1>14. faults = 0 /\ ~overlap =>
        \/ Target' \in DOMAIN events /\ SameFiles(ui'.copy, events[Target'])
        \/ ui'.copy = ui.copy /\ Target' = Target /\ jobs[i].res # "ok"
  BY <1>5, <1>8, <1>9 DEF Good
<1> QED
  BY <1>1, <1>5, <1>6, <1>7, <1>10, <1>11, <1>12, <1>13, <1>14, EndStep

LEMMA AnswerCreateStep ==
  ASSUME NEW V, Typed(V), IInv, NEW i \in Slots, AnswerCreate(i)
  PROVE  IInv'
<1>1. /\ jobs' = Ended(i) /\ jobs[i].kind = "create"
      /\ UNCHANGED <<page, events, faults, bubbled, overlap, sent>>
  BY DEF AnswerCreate, Answered, Server, bounds, history
<1>2. ui'.saved = ui.saved
      /\ ui'.copy = (IF Good(i) THEN jobs[i].copy ELSE ui.copy)
      /\ ui'.id = (IF Good(i) THEN jobs[i].id ELSE ui.id)
  BY DEF AnswerCreate, Typed, Uis, Good
<1>3. /\ ui.id = 0 \/ ui.id \in DOMAIN events
      /\ page # "edit" => ~ui.saved
      /\ JobShape(jobs[i])
  BY Facts
<1>4. /\ page = "create"
      /\ jobs[i].id = 0 \/ jobs[i].id \in DOMAIN events
      /\ Good(i) => jobs[i].id # 0
  BY <1>1, <1>3 DEF JobShape, PageKinds, Good
<1>5. ASSUME faults = 0, ~overlap, Good(i)
      PROVE  Target' \in DOMAIN events /\ SameFiles(ui'.copy, events[Target'])
  <2>1. i \in Active(Readers \cup {"create"})
    BY <1>1 DEF Active, Readers
  <2>2. jobs[i].id \in DOMAIN events /\ SameFiles(jobs[i].copy, events[jobs[i].id])
    BY <1>4, <1>5, <2>1 DEF IInv, CopyKnown
  <2>3. Target' = jobs[i].id
    BY <1>1, <1>2, <1>4, <1>5 DEF Target
  <2> QED
    BY <1>2, <1>5, <2>2, <2>3
<1>6. ~Good(i) => Target' = Target
  BY <1>1, <1>2 DEF Target
<1>7. faults = 0 /\ ~bubbled => Len(events) = IF ui'.id = 0 THEN 0 ELSE 1
  <2> SUFFICES ASSUME faults = 0, ~bubbled PROVE Len(events) = IF ui'.id = 0 THEN 0 ELSE 1
    OBVIOUS
  <2>1. i \in Active({"create"})
    BY <1>1 DEF Active
  <2>2. ui.id = 0 /\ Len(events) = IF Good(i) THEN 1 ELSE 0
    BY <1>4, <2>1 DEF IInv, OneForm
  <2> QED
    BY <1>2, <1>4, <2>2
<1>8. ui'.id = 0 \/ ui'.id \in DOMAIN events
  BY <1>2, <1>3, <1>4
<1>9. (ui.id # 0 => ui'.id # 0) /\ ui'.id \in {ui.id, jobs[i].id}
  BY <1>2, <1>4
<1>10. faults = 0 /\ ~overlap =>
        \/ Target' \in DOMAIN events /\ SameFiles(ui'.copy, events[Target'])
        \/ ui'.copy = ui.copy /\ Target' = Target
  BY <1>2, <1>5, <1>6
<1>11. jobs[i].kind \notin Files
  BY <1>1 DEF Files
<1> QED
  BY <1>1, <1>2, <1>3, <1>4, <1>7, <1>8, <1>9, <1>10, <1>11, EndStep

\* A job that submits the create form.
LEMMA CreateJobFacts ==
  ASSUME NEW V, Typed(V), NEW f \in Forms(V)
  PROVE  /\ CreateJob(f) \in Jobs(V)
         /\ CreateJob(f).kind = "create" /\ CreateJob(f).call = "create"
         /\ CreateJob(f).res = "none" /\ CreateJob(f).id = 0
<1>1. PICK j : j = Job("create", "create")
  OBVIOUS
<1>2. j \in Jobs(V) /\ j.kind = "create" /\ j.call = "create" /\ j.res = "none" /\ j.id = 0
  BY <1>1, JobType DEF Typed, Kinds, Calls
<1>3. CreateJob(f) = [j EXCEPT !.form = f]
  BY <1>1 DEF CreateJob
<1> QED
  BY <1>2, <1>3 DEF Jobs

LEMMA AnswerPromptStep ==
  ASSUME NEW V, Typed(V), IInv, NEW i \in Slots, AnswerPrompt(i)
  PROVE  IInv'
<1>1. /\ jobs[i].kind = "prompt"
      /\ UNCHANGED <<page, events, faults, bubbled, overlap, sent>>
  BY DEF AnswerPrompt, Answered, Server, bounds, history
<1>2. CASE ~Good(i)
  <2>1. jobs' = Ended(i) /\ ui' = ui
    BY <1>2 DEF AnswerPrompt
  <2> QED
    BY <1>1, <2>1, PlainEnd DEF Files
<1>3. CASE Good(i)
  <2>1. ui' = CreateUi /\ jobs' = Put(jobs, i, CreateJob(jobs[i].form))
    BY <1>3 DEF AnswerPrompt
  <2>2. ui'.id = ui.id /\ ui'.copy = ui.copy /\ ui'.saved = ui.saved
    BY <2>1 DEF CreateUi, Typed, Uis
  <2>3. PICK job : job = CreateJob(jobs[i].form)
    OBVIOUS
  <2>4. jobs[i].form \in Forms(V)
    BY Facts DEF Jobs
  <2>5. job.kind = "create" /\ job.call = "create" /\ job.res = "none" /\ job.id = 0
    BY <2>3, <2>4, CreateJobFacts
  <2>6. jobs' = [jobs EXCEPT ![i] = job]
    BY <2>1, <2>3 DEF Put
  <2>7. /\ ui.id = 0 \/ ui.id \in DOMAIN events
        /\ page # "create" => ui.id = 0
        /\ page # "edit" => ~ui.saved
        /\ page = "create"
    BY <1>1, Facts DEF JobShape, PageKinds
  <2>8. Target' = Target
    BY <1>1, <2>2 DEF Target
  <2>9. Calm
    BY <1>1, <2>2, <2>7 DEF Calm, Typed
  <2>10. JobShape(job)'
    BY <1>1, <2>5, <2>7 DEF JobShape, PageKinds, CallOf, Files
  <2>11. FormKept(i, job)
    BY <1>1, <2>7 DEF FormKept, IInv, OneForm
  <2>12. SaveKept(i, job)
    BY <2>2, <2>7 DEF SaveKept
  <2>13. CopyKept(i, job)
    BY <1>1, <2>2, <2>5, <2>7, <2>8 DEF CopyKept, Readers, Files
  <2> QED
    BY <2>6, <2>9, <2>10, <2>11, <2>12, <2>13, JobStep
<1> QED
  BY <1>2, <1>3

LEMMA AnswerUpdateStep ==
  ASSUME NEW V, Typed(V), IInv, NEW i \in Slots, AnswerUpdate(i)
  PROVE  IInv'
<1>1. /\ jobs[i].kind = "save" /\ jobs[i].call = "update" /\ jobs[i].res = "ok"
      /\ UNCHANGED <<page, events, ui, faults, bubbled, overlap, sent>>
  BY DEF AnswerUpdate, Answered, Server, bounds, history, Good
<1>2. PICK job : job = [jobs[i] EXCEPT !.call = "sessions", !.res = "none", !.copy = NoEvent]
  OBVIOUS
<1>3. jobs' = [jobs EXCEPT ![i] = job]
  BY <1>2 DEF AnswerUpdate, Put
<1>4. job.kind = "save" /\ job.call = "sessions" /\ job.res = "none" /\ job.id = jobs[i].id
      /\ job.form = jobs[i].form
  BY <1>1, <1>2, Facts DEF Jobs
<1>5. /\ ui.id = 0 \/ ui.id \in DOMAIN events
      /\ page # "create" => ui.id = 0
      /\ JobShape(jobs[i])
      /\ page = "edit"
  BY <1>1, Facts DEF JobShape, PageKinds
<1>6. ui.saved => ~ui.busy /\ FieldsStored /\ SessionsStored
  BY <1>5, Facts
<1>7. ui.busy /\ SaveGood(jobs[i])
  <2>1. i \in Active({"save"})
    BY <1>1 DEF Active
  <2> QED
    BY <1>5, <2>1 DEF IInv, SaveKnown
<1>8. Calm
  BY <1>1, <1>5 DEF Calm, Typed
<1>9. JobShape(job)'
  BY <1>1, <1>4, <1>5 DEF JobShape, PageKinds, CallOf, Files
<1>10. FormKept(i, job)
  BY <1>5 DEF FormKept
<1>11. SaveGood(job)'
  BY <1>1, <1>4, <1>7, StoredKept DEF SaveGood
<1>12. SaveKept(i, job)
  BY <1>1, <1>4, <1>5, <1>6, <1>7, <1>11 DEF SaveKept
<1>13. CopyKept(i, job)
  BY <1>5 DEF CopyKept
<1> QED
  BY <1>3, <1>8, <1>9, <1>10, <1>12, <1>13, JobStep

\* A save ends.
LEMMA SaveEnd ==
  ASSUME NEW V, Typed(V), IInv, NEW i \in Slots, jobs' = Ended(i), jobs[i].kind = "save",
         UNCHANGED <<page, events, faults, bubbled, overlap, sent>>,
         ui'.id = ui.id, ~ui'.busy,
         ui'.saved => ui.saved \/ (FieldsStored /\ SessionsStored)
  PROVE  IInv'
<1>1. /\ ui.id = 0 \/ ui.id \in DOMAIN events
      /\ page # "create" => ui.id = 0
      /\ page = "edit"
  BY Facts DEF JobShape, PageKinds
<1>2. ui.saved => FieldsStored /\ SessionsStored
  BY <1>1, Facts
<1>3. ui'.saved => ~ui'.busy /\ FieldsStored' /\ SessionsStored'
  BY <1>2, StoredKept
<1> QED
  BY <1>1, <1>3, EndStep

LEMMA AnswerSessionsStep ==
  ASSUME NEW V, Typed(V), IInv, NEW i \in Slots, AnswerSessions(i)
  PROVE  IInv'
<1>1. /\ jobs' = Ended(i)
      /\ jobs[i].kind = "save" /\ jobs[i].call = "sessions" /\ jobs[i].res = "ok"
      /\ UNCHANGED <<page, events, faults, bubbled, overlap, sent>>
  BY DEF AnswerSessions, Answered, Server, bounds, history, Good
<1>2. ui'.id = ui.id /\ ~ui'.busy
  BY DEF AnswerSessions, Typed, Uis
<1>3. page = "edit"
  BY <1>1, Facts DEF JobShape, PageKinds
<1>4. FieldsStored /\ SessionsStored
  <2>1. i \in Active({"save"})
    BY <1>1 DEF Active
  <2>2. SaveGood(jobs[i])
    BY <1>3, <2>1 DEF IInv, SaveKnown
  <2> QED
    BY <1>1, <2>2 DEF SaveGood
<1> QED
  BY <1>1, <1>2, <1>4, SaveEnd

LEMMA AnswerSaveFailureStep ==
  ASSUME NEW V, Typed(V), IInv, NEW i \in Slots, AnswerSaveFailure(i)
  PROVE  IInv'
<1>1. /\ jobs' = Ended(i) /\ jobs[i].kind = "save"
      /\ UNCHANGED <<page, events, faults, bubbled, overlap, sent>>
  BY DEF AnswerSaveFailure, Answered, Server, bounds, history
<1>2. ui'.id = ui.id /\ ~ui'.busy /\ (ui'.saved => ui.saved)
  BY DEF AnswerSaveFailure, Typed, Uis
<1> QED
  BY <1>1, <1>2, SaveEnd

-----------------------------------------------------------------------------
(* The user and the tokens. *)

\* A call is started in a free slot.
LEMMA StartStep ==
  ASSUME NEW V, Typed(V), IInv, Free # {}, NEW job, jobs' = Started(job),
         UNCHANGED <<page, events, faults, bubbled>>,
         overlap' \in BOOLEAN, overlap => overlap',
         ui'.id = ui.id, ui'.copy = ui.copy,
         job.kind \in PageKinds \ {"none", "prompt"}, job.res = "none", CallOf(job),
         job.id \in {0, Target},
         job.kind \in {"publish", "save"} \cup Files => job.id # 0,
         page = "create" /\ job.kind \in {"publish"} \cup Files => ui.id # 0,
         job.kind = "create" => ~ui.busy /\ ui.id = 0 /\ ui'.busy,
         job.kind # "create" => (ui.busy => ui'.busy),
         job.kind = "save" => ~ui.busy /\ ui'.busy /\ ~ui'.saved /\ SaveGood(job)',
         job.kind # "save" => ui'.saved = ui.saved /\ sent' = sent /\ (page = "edit" => ui'.busy = ui.busy),
         page # "edit" /\ job.kind \in Readers /\ Active(Readers) # {} => overlap'
  PROVE  IInv'
<1>1. PICK i : i = Min(Free)
  OBVIOUS
<1>2. i \in Slots /\ jobs[i].kind = "none"
  BY <1>1, FreeSlot
<1>3. jobs' = [jobs EXCEPT ![i] = job]
  BY <1>1 DEF Started, Put
<1>4. /\ ui.id = 0 \/ ui.id \in DOMAIN events
      /\ page # "create" => DOMAIN events = {1} /\ ui.id = 0
      /\ page # "edit" => ~ui.saved
      /\ page = "edit" => (ui.saved => ~ui.busy /\ FieldsStored /\ SessionsStored)
      /\ page \in {"create", "edit", "media"}
  BY <1>2, Facts
<1>5. Calm
  BY <1>4 DEF Calm, Typed
<1>6. JobShape(job)'
  <2>1. job.id = 0 \/ job.id \in DOMAIN events
    BY <1>4 DEF Target
  <2>2. PageKinds' = PageKinds
    BY DEF PageKinds
  <2>3. job.kind # "none"
    OBVIOUS
  <2> QED
    BY <2>1, <2>2, <2>3 DEF JobShape, CallOf
<1>7. FormKept(i, job)
  <2> SUFFICES ASSUME page = "create", faults = 0, ~bubbled
               PROVE  job.kind = "create" => Active({"create"}) = {}
    BY <1>2 DEF FormKept
  <2> QED
    BY DEF IInv, OneForm
<1>8. SaveKept(i, job)
  <2>1. CASE job.kind = "save"
    <3>1. page = "edit"
      BY <1>4, <2>1 DEF PageKinds
    <3>2. Active({"save"}) = {}
      BY <2>1, <3>1 DEF IInv, SaveKnown
    <3> QED
      BY <2>1, <3>1, <3>2 DEF SaveKept
  <2>2. CASE job.kind # "save"
    <3>1. FieldsStored' = FieldsStored /\ SessionsStored' = SessionsStored
      BY <2>2, StoredKept
    <3> QED
      BY <1>2, <1>4, <2>2, <3>1 DEF SaveKept
  <2> QED
    BY <2>1, <2>2
<1>9. CopyKept(i, job)
  <2>1. Target' = Target
    BY DEF Target
  <2>2. jobs[i].kind \notin Files
    BY <1>2 DEF Files
  <2>3. page = "create" => job.id \in {0, ui.id}
    BY DEF Target
  <2> QED
    BY <2>1, <2>2, <2>3 DEF CopyKept
<1> QED
  BY <1>2, <1>3, <1>5, <1>6, <1>7, <1>8, <1>9, JobStep

LEMMA ObtainTokenStep ==
  ASSUME NEW V, Typed(V), IInv, ObtainToken
  PROVE  IInv'
<1>1. /\ UNCHANGED <<page, events, faults, bubbled, ui, sent>>
      /\ overlap' = (overlap \/ (page # "create" /\ Active({"load", "banner", "video"}) # {}))
  BY DEF ObtainToken, Server, bounds
<1>2. overlap \in BOOLEAN /\ page \in {"create", "edit", "media"}
  BY DEF Typed
<1>3. overlap' \in BOOLEAN /\ (overlap => overlap')
  BY <1>1, <1>2
<1>4. CASE page = "create"
  <2>1. UNCHANGED jobs
    BY <1>4 DEF ObtainToken
  <2> QED
    BY <1>1, <1>3, <2>1, QuietStep
<1>5. CASE page # "create"
  <2>1. Free # {} /\ jobs' = Started(Job("load", "load"))
    BY <1>5 DEF ObtainToken
  <2>2. PICK job : job = Job("load", "load")
    OBVIOUS
  <2>3. job.kind = "load" /\ job.call = "load" /\ job.res = "none" /\ job.id = 0
    BY <2>2, JobType DEF Typed, Kinds, Calls
  <2>4. Active(Readers) # {} => overlap'
    <3>1. Readers = {"load", "banner", "video"}
      BY DEF Readers, Files
    <3> QED
      BY <1>1, <1>5, <3>1
  <2>5. job.kind \in PageKinds \ {"none", "prompt"} /\ CallOf(job)
    BY <1>2, <1>5, <2>3 DEF PageKinds, CallOf
  <2>6. job.kind \notin {"publish", "save"} \cup Files /\ job.kind # "create"
    BY <2>3 DEF Files
  <2>7. jobs' = Started(job)
    BY <2>1, <2>2
  <2> QED
    BY <1>1, <1>3, <2>1, <2>3, <2>4, <2>5, <2>6, <2>7, StartStep
<1> QED
  BY <1>4, <1>5

LEMMA FillStep ==
  ASSUME IInv, Fill
  PROVE  IInv'
<1>1. PICK f : Edit(f)
  BY DEF Fill, EditText, EditRefund, SelectCategory, AddSession, RemoveSession, UpdateSession
<1>2. UNCHANGED <<page, events, ui, jobs, sent, faults, bubbled, overlap>>
  BY <1>1 DEF Edit, Server
<1> QED
  BY <1>2, QuietStep

LEMMA ClickCreateStep ==
  ASSUME NEW V, Typed(V), IInv, ClickCreate
  PROVE  IInv'
<1>1. /\ UNCHANGED <<page, events, faults, bubbled, overlap, sent>>
      /\ page = "create" /\ Free # {} /\ ~ui.busy /\ View = "form"
      /\ jobs' = Started(CreateJob(form)) /\ ui' = CreateUi
  BY DEF ClickCreate, Server, history, CanSubmit
<1>2. ui.id = 0
  BY <1>1 DEF View
<1>3. ui'.id = ui.id /\ ui'.copy = ui.copy /\ ui'.saved = ui.saved /\ ui'.busy
  BY <1>1 DEF CreateUi, Typed, Uis
<1>4. PICK job : job = CreateJob(form)
  OBVIOUS
<1>5. job.kind = "create" /\ job.call = "create" /\ job.res = "none" /\ job.id = 0
  BY <1>4, CreateJobFacts DEF Typed
<1>6. job.kind \in PageKinds \ {"none", "prompt"} /\ CallOf(job)
  BY <1>1, <1>5 DEF PageKinds, CallOf
<1>7. job.kind \notin {"publish", "save"} \cup Files /\ job.kind \notin Readers
  BY <1>5 DEF Files, Readers
<1>8. jobs' = Started(job)
  BY <1>1, <1>4
<1>9. overlap' \in BOOLEAN
  BY <1>1 DEF Typed
<1> QED
  BY <1>1, <1>2, <1>3, <1>5, <1>6, <1>7, <1>8, <1>9, StartStep

LEMMA HandlePublishStep ==
  ASSUME NEW V, Typed(V), IInv, HandlePublish
  PROVE  IInv'
<1>1. /\ UNCHANGED <<page, events, faults, bubbled, overlap, sent>>
      /\ Free # {} /\ View = "created"
      /\ ui' = [ui EXCEPT !.error = FALSE]
      /\ jobs' = Started([Job("publish", "publish") EXCEPT !.id = ui.id])
  BY DEF HandlePublish, Server, bounds, history
<1>2. ui.id # 0 /\ page = "create"
  BY <1>1 DEF View
<1>3. ui'.id = ui.id /\ ui'.copy = ui.copy /\ ui'.saved = ui.saved /\ ui'.busy = ui.busy
  BY <1>1 DEF Typed, Uis
<1>4. PICK new : new = Job("publish", "publish")
  OBVIOUS
<1>5. new \in Jobs(V) /\ new.kind = "publish" /\ new.call = "publish" /\ new.res = "none"
  BY <1>4, JobType DEF Typed, Kinds, Calls
<1>6. PICK job : job = [new EXCEPT !.id = ui.id]
  OBVIOUS
<1>7. job.kind = "publish" /\ job.call = "publish" /\ job.res = "none" /\ job.id = ui.id
  BY <1>5, <1>6 DEF Jobs
<1>8. job.kind \in PageKinds \ {"none", "prompt"} /\ CallOf(job) /\ job.id \in {0, Target}
  BY <1>2, <1>7 DEF PageKinds, CallOf, Target
<1>9. job.kind \notin Readers /\ job.kind \notin {"create", "save"}
  BY <1>7 DEF Files, Readers
<1>10. jobs' = Started(job)
  BY <1>1, <1>4, <1>6
<1>11. overlap' \in BOOLEAN
  BY <1>1 DEF Typed
<1> QED
  BY <1>1, <1>2, <1>3, <1>7, <1>8, <1>9, <1>10, <1>11, StartStep

LEMMA ClickSaveStep ==
  ASSUME NEW V, Typed(V), IInv, ClickSave
  PROVE  IInv'
<1>1. /\ UNCHANGED <<page, events, faults, bubbled, overlap>>
      /\ page = "edit" /\ Free # {} /\ ~ui.busy /\ sent' = form
      /\ ui' = [ui EXCEPT !.busy = TRUE, !.error = FALSE, !.saved = FALSE]
      /\ jobs' = Started([Job("save", "update") EXCEPT !.form = form, !.id = 1])
  BY DEF ClickSave, Server, CanSubmit
<1>2. ui'.id = ui.id /\ ui'.copy = ui.copy /\ ~ui'.saved /\ ui'.busy
  BY <1>1 DEF Typed, Uis
<1>3. PICK new : new = Job("save", "update")
  OBVIOUS
<1>4. new \in Jobs(V) /\ new.kind = "save" /\ new.call = "update" /\ new.res = "none"
  BY <1>3, JobType DEF Typed, Kinds, Calls
<1>5. PICK job : job = [new EXCEPT !.form = form, !.id = 1]
  OBVIOUS
<1>6. job.kind = "save" /\ job.call = "update" /\ job.res = "none" /\ job.id = 1 /\ job.form = form
  BY <1>4, <1>5 DEF Jobs
<1>7. job.kind \in PageKinds \ {"none", "prompt"} /\ CallOf(job) /\ job.id \in {0, Target}
  BY <1>1, <1>6 DEF PageKinds, CallOf, Target
<1>8. SaveGood(job)'
  BY <1>1, <1>6 DEF SaveGood
<1>9. jobs' = Started(job)
  BY <1>1, <1>3, <1>5
<1>10. overlap' \in BOOLEAN /\ (overlap => overlap')
  BY <1>1 DEF Typed
<1>11. job.id # 0 /\ job.kind # "create" /\ page # "create"
  BY <1>1, <1>6
<1>12. job.kind = "save" => ~ui.busy /\ ui'.busy /\ ~ui'.saved /\ SaveGood(job)'
  BY <1>1, <1>2, <1>8
<1>13. UNCHANGED <<page, events, faults, bubbled>> /\ Free # {}
  BY <1>1
<1>14. ui'.id = ui.id /\ ui'.copy = ui.copy /\ job.res = "none" /\ job.kind = "save" /\ ui'.busy
       /\ page = "edit"
  BY <1>1, <1>2, <1>6
<1> QED
  BY <1>7, <1>9, <1>10, <1>11, <1>12, <1>13, <1>14, StartStep

LEMMA UploadStep ==
  ASSUME NEW V, Typed(V), IInv, NEW file \in Files, Upload(file)
  PROVE  IInv'
<1>1. /\ UNCHANGED <<page, events, faults, bubbled, sent>>
      /\ Free # {} /\ (View = "created" \/ (page = "media" /\ View = "form"))
      /\ ui' = [ui EXCEPT ![file] = TRUE, !.error = FALSE]
      /\ overlap' = (overlap \/ Active(Files \cup {"load"}) # {})
      /\ jobs' = Started([Job(file, file) EXCEPT !.id = IF page = "create" THEN ui.id ELSE 1])
  BY DEF Upload, Server
<1>2. (page = "create" /\ ui.id # 0) \/ page = "media"
  BY <1>1 DEF View
<1>3. ui'.id = ui.id /\ ui'.copy = ui.copy /\ ui'.saved = ui.saved /\ ui'.busy = ui.busy
  BY <1>1 DEF Typed, Uis, Files
<1>4. PICK new : new = Job(file, file)
  OBVIOUS
<1>5. new \in Jobs(V) /\ new.kind = file /\ new.call = file /\ new.res = "none"
  BY <1>4, JobType DEF Typed, Kinds, Calls, Files
<1>6. PICK job : job = [new EXCEPT !.id = IF page = "create" THEN ui.id ELSE 1]
  OBVIOUS
<1>7. job.kind = file /\ job.call = file /\ job.res = "none" /\ job.id = Target
  BY <1>5, <1>6 DEF Jobs, Target
<1>8. job.kind \in PageKinds \ {"none", "prompt"} /\ CallOf(job)
  BY <1>2, <1>7 DEF PageKinds, CallOf, Files
<1>9. job.kind \notin {"create", "save"} /\ Target # 0
  BY <1>2, <1>7 DEF Files, Target
<1>10. jobs' = Started(job)
  BY <1>1, <1>4, <1>6
<1>11. overlap' \in BOOLEAN /\ (overlap => overlap')
  BY <1>1 DEF Typed
<1>12. Active(Readers) # {} => overlap'
  BY <1>1 DEF Readers
<1>13. page = "create" => ui.id # 0
  BY <1>2
<1> QED
  BY <1>1, <1>3, <1>7, <1>8, <1>9, <1>10, <1>11, <1>12, <1>13, StartStep

\* The prompt and the form around it are submitted together.
LEMMA SavePromptStep ==
  ASSUME NEW V, Typed(V), IInv, SavePrompt
  PROVE  IInv'
<1>1. /\ UNCHANGED <<page, events, faults, overlap, sent>> /\ bubbled' = TRUE
      /\ page = "create" /\ Cardinality(Free) > 1 /\ ui' = CreateUi
  BY DEF SavePrompt, Server, bounds
<1>2. PICK a : a = Min(Free)
  OBVIOUS
<1>3. PICK b : b = Min(Free \ {a})
  OBVIOUS
<1>4. Free # {} /\ Free \ {a} # {}
  <2>1. Free # {}
    BY <1>1, FS_EmptySet
  <2>2. Free # {a}
    BY <1>1, FS_Singleton
  <2>3. a \in Free
    BY <1>2, <2>1, FreeSlot
  <2> QED
    BY <2>1, <2>2, <2>3
<1>5. a \in Slots /\ jobs[a].kind = "none"
  BY <1>2, <1>4, FreeSlot
<1>6. b \in Slots /\ jobs[b].kind = "none" /\ b # a
  <2>1. b \in Free \ {a}
    BY <1>3, <1>4, FreeSlot
  <2> QED
    BY <2>1 DEF Free
<1>7. PICK new : new = Job("prompt", "profile")
  OBVIOUS
<1>8. new \in Jobs(V) /\ new.kind = "prompt" /\ new.call = "profile" /\ new.res = "none" /\ new.id = 0
  BY <1>7, JobType DEF Typed, Kinds, Calls
<1>9. PICK inner : inner = [new EXCEPT !.form = form]
  OBVIOUS
<1>10. inner.kind = "prompt" /\ inner.call = "profile" /\ inner.res = "none" /\ inner.id = 0
  BY <1>8, <1>9 DEF Jobs
<1>11. PICK outer : outer = CreateJob(form)
  OBVIOUS
<1>12. outer.kind = "create" /\ outer.call = "create" /\ outer.res = "none" /\ outer.id = 0
  BY <1>11, CreateJobFacts DEF Typed
<1>13. jobs' = [[jobs EXCEPT ![a] = inner] EXCEPT ![b] = outer]
  BY <1>2, <1>3, <1>7, <1>9, <1>11 DEF SavePrompt, Put, Started
<1>14. /\ jobs'[a] = inner /\ jobs'[b] = outer
       /\ \A j \in Slots \ {a, b} : jobs'[j] = jobs[j]
  BY <1>5, <1>6, <1>13 DEF Typed
<1>15. ui'.id = ui.id /\ ui'.copy = ui.copy /\ ui'.saved = ui.saved
  BY <1>1 DEF CreateUi, Typed, Uis
<1>16. /\ ui.id = 0 \/ ui.id \in DOMAIN events
       /\ ~ui.saved
  BY <1>1, <1>5, Facts
<1>17. PageKinds' = PageKinds /\ Target' = Target
  BY <1>1, <1>15 DEF PageKinds, Target
<1>18. Shape'
  <2> SUFFICES ASSUME NEW j \in Slots PROVE JobShape(jobs[j])'
    BY <1>1, <1>15, <1>16 DEF Shape
  <2>1. CASE j = a
    BY <1>1, <1>10, <1>14, <2>1 DEF JobShape, PageKinds, CallOf, Files
  <2>2. CASE j = b
    BY <1>1, <1>12, <1>14, <2>2 DEF JobShape, PageKinds, CallOf, Files
  <2>3. CASE j \notin {a, b}
    <3>1. jobs'[j] = jobs[j] /\ JobShape(jobs[j])
      BY <1>14, <2>3 DEF IInv, Shape
    <3> QED
      BY <1>1, <1>15, <1>17, <3>1 DEF JobShape, CallOf
  <2> QED
    BY <2>1, <2>2, <2>3
<1>19. OneForm'
  BY <1>1 DEF OneForm
<1>20. SaveKnown'
  BY <1>1, <1>15, <1>16 DEF SaveKnown
<1>21. CopyKnown'
  <2> SUFFICES ASSUME faults = 0, ~overlap
      PROVE  /\ \A j, k \in Active(Readers)' : j = k
             /\ \A j \in Active(Readers \cup {"create"})' :
                  jobs'[j].res = "ok" => /\ jobs'[j].id \in DOMAIN events
                                         /\ SameFiles(jobs'[j].copy, events[jobs'[j].id])
             /\ \A j \in Active({"create"})' :
                  jobs'[j].res = "ok" => /\ jobs'[j].id # ui.id
                                         /\ \A k \in Slots \ {j} : jobs'[k].id # jobs'[j].id
             /\ ui.copy # NoEvent =>
                  /\ Target \in DOMAIN events
                  /\ \/ SameFiles(ui.copy, events[Target])
                     \/ \E j \in Active(Files)' : jobs'[j].res = "ok" /\ jobs'[j].id = Target
    BY <1>1, <1>15, <1>17 DEF CopyKnown, Good, SameFiles, Readers, Files
  <2>1. /\ \A j, k \in Active(Readers) : j = k
        /\ \A j \in Active(Readers \cup {"create"}) :
             jobs[j].res = "ok" => /\ jobs[j].id \in DOMAIN events
                                   /\ SameFiles(jobs[j].copy, events[jobs[j].id])
        /\ \A j \in Active({"create"}) :
             jobs[j].res = "ok" => /\ jobs[j].id # ui.id
                                   /\ \A k \in Slots \ {j} : jobs[k].id # jobs[j].id
        /\ ui.copy # NoEvent =>
             /\ Target \in DOMAIN events
             /\ \/ SameFiles(ui.copy, events[Target])
                \/ \E j \in Active(Files) : jobs[j].res = "ok" /\ jobs[j].id = Target
    BY <1>1 DEF IInv, CopyKnown, Good
  <2>2. \A K : Active(K) = {j \in Slots : jobs[j].kind \in K}
    BY DEF Active
  <2>3. \A K : Active(K)' = {j \in Slots : jobs'[j].kind \in K}
    BY DEF Active
  <2>4. \A j \in Active(Readers)' : j \in Active(Readers)
    BY <1>10, <1>12, <1>14, <2>2, <2>3 DEF Readers, Files
  <2>5. \A j \in Active(Files) : j \in Active(Files)' /\ jobs'[j] = jobs[j]
    BY <1>5, <1>6, <1>14, <2>2, <2>3 DEF Files
  <2>6. ASSUME NEW j \in Slots, jobs'[j].res = "ok"
        PROVE  j \notin {a, b} /\ jobs'[j] = jobs[j]
    BY <1>10, <1>12, <1>14, <2>6
  <2>7. ASSUME NEW j \in Active({"create"})', jobs'[j].res = "ok"
        PROVE  jobs'[j].id # ui.id /\ \A k \in Slots \ {j} : jobs'[k].id # jobs'[j].id
    <3>1. j \in Active({"create"}) /\ j \in Slots /\ jobs'[j] = jobs[j] /\ jobs[j].kind = "create"
      BY <2>2, <2>3, <2>6, <2>7
    <3>2. jobs[j].id # 0
      BY <2>7, <3>1 DEF IInv, Shape, JobShape
    <3> QED
      BY <1>10, <1>12, <1>14, <2>1, <2>7, <3>1, <3>2
  <2>8. \A j \in Active(Readers \cup {"create"})' :
          jobs'[j].res = "ok" => /\ jobs'[j].id \in DOMAIN events
                                 /\ SameFiles(jobs'[j].copy, events[jobs'[j].id])
    BY <2>1, <2>2, <2>3, <2>6
  <2> QED
    BY <2>1, <2>4, <2>5, <2>7, <2>8
<1> QED
  BY <1>18, <1>19, <1>20, <1>21 DEF IInv

-----------------------------------------------------------------------------
(* The server. *)

LEMMA FailStep ==
  ASSUME NEW V, Typed(V), IInv, NEW i \in Slots, Fail(i)
  PROVE  IInv'
<1>1. /\ UNCHANGED <<page, events, ui, bubbled, overlap, sent>>
      /\ faults' = faults + 1
  BY DEF Fail, history
<1>2. PICK job : job = [NoJob EXCEPT !.kind = jobs[i].kind, !.call = jobs[i].call, !.res = "failed"]
  OBVIOUS
<1>3. jobs' = [jobs EXCEPT ![i] = job]
  BY <1>2 DEF Fail, Put
<1>4. job.kind = jobs[i].kind /\ job.call = jobs[i].call /\ job.res = "failed" /\ job.id = 0
  BY <1>2 DEF NoJob
<1>5. /\ ui.id = 0 \/ ui.id \in DOMAIN events
      /\ page # "create" => ui.id = 0
      /\ page # "edit" => ~ui.saved
      /\ page = "edit" => (ui.saved => ~ui.busy /\ FieldsStored /\ SessionsStored)
      /\ JobShape(jobs[i])
  BY Facts
<1>6. faults' \in Nat /\ faults' > 0 /\ faults <= faults'
  BY <1>1 DEF Typed
<1>7. Calm
  BY <1>1, <1>5, <1>6 DEF Calm, Typed
<1>8. JobShape(job)'
  BY <1>1, <1>4, <1>5, <1>6 DEF JobShape, PageKinds, CallOf
<1>9. FormKept(i, job) /\ CopyKept(i, job)
  BY <1>6 DEF FormKept, CopyKept
<1>10. SaveKept(i, job)
  <2>1. CASE jobs[i].kind = "save" /\ page = "edit"
    <3>1. i \in Active({"save"})
      BY <2>1 DEF Active
    <3>2. ui.busy
      BY <2>1, <3>1 DEF IInv, SaveKnown
    <3>3. SaveGood(job)'
      BY <1>4 DEF SaveGood
    <3> QED
      BY <1>1, <1>4, <1>5, <2>1, <3>2, <3>3 DEF SaveKept
  <2>2. CASE ~(jobs[i].kind = "save" /\ page = "edit")
    BY <1>1, <1>4, <1>5, <2>2, StoredKept DEF SaveKept
  <2> QED
    BY <2>1, <2>2
<1> QED
  BY <1>3, <1>7, <1>8, <1>9, <1>10, JobStep

\* What a call does: nothing, a new event, an event rewritten, or an event read.
Untouched(job, out) ==
  /\ out.events = events /\ out.id = 0
  /\ out.res = "ok" => job.call \in {"none", "cats", "profile"}
Created(job, out) ==
  /\ job.call = "create" /\ out.res = "ok" /\ out.id = Len(events) + 1
  /\ out.events = Append(events, out.copy)
Rewritten(job, out) ==
  /\ job.call \in {"update", "sessions", "publish"} \cup Files /\ job.id \in DOMAIN events
  /\ out.res = "ok" /\ out.id = job.id /\ out.events = [events EXCEPT ![job.id] = out.copy]
  /\ job.call \notin Files => SameFiles(out.copy, events[job.id])
  /\ job.call = "update" =>
       /\ out.copy.text = job.form.text /\ out.copy.cat = job.form.cat
       /\ job.form.refund # 0 => out.copy.refund = job.form.refund
       /\ out.copy.sess = events[job.id].sess
  /\ job.call = "sessions" =>
       /\ out.copy.text = events[job.id].text /\ out.copy.cat = events[job.id].cat
       /\ out.copy.refund = events[job.id].refund
       /\ out.copy.sess = Stored(SessionInputs(job.form))
ReadBack(job, out) ==
  /\ job.call = "load" /\ 1 \in DOMAIN events
  /\ out.res = "ok" /\ out.id = 1 /\ out.events = events /\ out.copy = events[1]

\* The events are typed rows.
LEMMA EventRows ==
  ASSUME NEW V, Typed(V)
  PROVE  /\ DOMAIN events = 1 .. Len(events) /\ Len(events) \in Nat
         /\ \A k \in DOMAIN events : events[k] \in Copies(V) /\ k \in Nat
<1>1. events \in Seq(Copies(V))
  BY DEF Typed
<1>2. DOMAIN events = 1 .. Len(events) /\ Len(events) \in Nat
  BY <1>1, LenProperties
<1>3. \A k \in DOMAIN events : events[k] \in Copies(V)
  BY <1>1, LenProperties, ElementOfSeq
<1> QED
  BY <1>2, <1>3

LEMMA Executed ==
  ASSUME NEW V, Typed(V), IInv, NEW i \in Slots, NEW job, job = jobs[i], job.kind # "none",
         job.res = "none",
         NEW out, out = Execute(job), NEW W, V \subseteq W,
         Stored(SessionInputs(job.form)) \in W
  PROVE  /\ out.res \in {"ok", "refused", "incomplete"}
         /\ out.copy \in Copies(W) /\ out.id \in Nat
         /\ \/ Untouched(job, out) \/ Created(job, out)
            \/ Rewritten(job, out) \/ ReadBack(job, out)
<1>1. job \in Jobs(V) /\ JobShape(job)
  BY Facts
<1>2. /\ DOMAIN events = 1 .. Len(events) /\ Len(events) \in Nat
      /\ \A k \in DOMAIN events : events[k] \in Copies(V) /\ k \in Nat
  BY EventRows
<1>3. Copies(V) \subseteq Copies(W)
  BY TypesGrow
<1>4. NoEvent \in Copies(W)
  BY <1>3, EmptyTypes DEF Typed
<1>5. PICK sessions : sessions = Stored(SessionInputs(job.form))
  OBVIOUS
<1>6. sessions \in W /\ job.form \in Forms(V) /\ job.id \in Nat
  BY <1>1, <1>5 DEF Jobs
<1>7. job.call \in {"update", "sessions", "publish"} \cup Files => job.id \in DOMAIN events
  BY <1>1 DEF JobShape, CallOf, Jobs, Kinds, Files
<1>8. ASSUME NEW r \in {"ok", "refused", "incomplete"}, out = Refused(r),
             r = "ok" => job.call \in {"none", "cats", "profile"}
      PROVE  /\ out.res \in {"ok", "refused", "incomplete"}
             /\ out.copy \in Copies(W) /\ out.id \in Nat /\ Untouched(job, out)
  BY <1>4, <1>8 DEF Refused, Untouched
<1>9. ASSUME NEW e \in Copies(W), out = Ok([events EXCEPT ![job.id] = e], e, job.id)
      PROVE  /\ out.res = "ok" /\ out.copy = e /\ out.id = job.id
             /\ out.events = [events EXCEPT ![job.id] = e]
  BY <1>9 DEF Ok
<1>10. CASE job.call = "create"
  <2>1. PICK e : e = Event(job.form, sessions)
    OBVIOUS
  <2>2. e \in Copies(W)
    BY <1>6, <2>1 DEF Event, Copies, Forms, Typed
  <2>3. \/ out = Refused("incomplete") \/ out = Refused("refused")
        \/ out = Ok(Append(events, e), e, Len(events) + 1)
    BY <1>5, <1>10, <2>1 DEF Execute
  <2>4. CASE out = Ok(Append(events, e), e, Len(events) + 1)
    BY <1>2, <1>10, <2>2, <2>4 DEF Ok, Created
  <2> QED
    BY <1>8, <2>3, <2>4
<1>11. CASE job.call = "update"
  <2>1. PICK d : d = events[job.id]
    OBVIOUS
  <2>2. d \in Copies(V) /\ d \in Copies(W)
    BY <1>2, <1>3, <1>7, <1>11, <2>1
  <2>3. PICK e : e = Patched(d, job.form)
    OBVIOUS
  <2>4. PICK r : r = IF job.form.refund = 0 THEN d.refund ELSE job.form.refund
    OBVIOUS
  <2>5. e = [d EXCEPT !.text = job.form.text, !.cat = job.form.cat, !.refund = r]
    BY <2>2, <2>3, <2>4 DEF Patched, Copies
  <2>6. job.form.text \in W /\ job.form.cat \in W /\ r \in W
    BY <1>6, <2>2, <2>4 DEF Forms, Copies
  <2>7. /\ e \in Copies(W) /\ e.text = job.form.text /\ e.cat = job.form.cat /\ e.refund = r
        /\ e.sess = d.sess /\ SameFiles(e, d)
    BY <2>2, <2>5, <2>6 DEF Copies, SameFiles
  <2>8. out = Refused("refused") \/ out = Ok([events EXCEPT ![job.id] = e], e, job.id)
    BY <1>11, <2>1, <2>3 DEF Execute
  <2>9. CASE out = Ok([events EXCEPT ![job.id] = e], e, job.id)
    <3>1. out.res = "ok" /\ out.copy = e /\ out.id = job.id /\ out.events = [events EXCEPT ![job.id] = e]
      BY <1>9, <2>7, <2>9
    <3>2. Rewritten(job, out)
      BY <1>7, <1>11, <2>1, <2>4, <2>7, <3>1 DEF Rewritten
    <3> QED
      BY <1>6, <2>7, <3>1, <3>2
  <2> QED
    BY <1>8, <2>8, <2>9
<1>12. CASE job.call = "sessions"
  <2>1. PICK d : d = events[job.id]
    OBVIOUS
  <2>2. d \in Copies(V) /\ d \in Copies(W)
    BY <1>2, <1>3, <1>7, <1>12, <2>1
  <2>3. PICK e : e = [d EXCEPT !.sess = sessions]
    OBVIOUS
  <2>4. /\ e \in Copies(W) /\ e.text = d.text /\ e.cat = d.cat /\ e.refund = d.refund
        /\ e.sess = sessions /\ SameFiles(e, d)
    BY <1>6, <2>2, <2>3 DEF Copies, SameFiles
  <2>5. out = Refused("refused") \/ out = Ok([events EXCEPT ![job.id] = e], e, job.id)
    BY <1>5, <1>12, <2>1, <2>3 DEF Execute
  <2>6. CASE out = Ok([events EXCEPT ![job.id] = e], e, job.id)
    <3>1. out.res = "ok" /\ out.copy = e /\ out.id = job.id /\ out.events = [events EXCEPT ![job.id] = e]
      BY <1>9, <2>4, <2>6
    <3>2. Rewritten(job, out)
      BY <1>5, <1>7, <1>12, <2>1, <2>4, <3>1 DEF Rewritten
    <3> QED
      BY <1>6, <2>4, <3>1, <3>2
  <2> QED
    BY <1>8, <2>5, <2>6
<1>13. CASE job.call = "publish"
  <2>1. PICK d : d = events[job.id]
    OBVIOUS
  <2>2. d \in Copies(V) /\ d \in Copies(W)
    BY <1>2, <1>3, <1>7, <1>13, <2>1
  <2>3. PICK e : e = [d EXCEPT !.status = "published"]
    OBVIOUS
  <2>4. "published" \in W
    BY DEF Typed
  <2>5. e \in Copies(W) /\ SameFiles(e, d)
    BY <2>2, <2>3, <2>4 DEF Copies, SameFiles
  <2>6. out = Refused("refused") \/ out = Ok([events EXCEPT ![job.id] = e], e, job.id)
    BY <1>13, <2>1, <2>3 DEF Execute
  <2>7. CASE out = Ok([events EXCEPT ![job.id] = e], e, job.id)
    <3>1. out.res = "ok" /\ out.copy = e /\ out.id = job.id /\ out.events = [events EXCEPT ![job.id] = e]
      BY <1>9, <2>5, <2>7
    <3>2. Rewritten(job, out)
      BY <1>7, <1>13, <2>1, <2>5, <3>1 DEF Rewritten
    <3> QED
      BY <1>6, <2>5, <3>1, <3>2
  <2> QED
    BY <1>8, <2>6, <2>7
<1>14. CASE job.call \in Files
  <2>1. PICK d : d = events[job.id]
    OBVIOUS
  <2>2. d \in Copies(V) /\ d \in Copies(W)
    BY <1>2, <1>3, <1>7, <1>14, <2>1
  <2>3. PICK e : e = IF job.call = "banner" THEN [d EXCEPT !.banner = d.banner + 1]
                     ELSE [d EXCEPT !.video = d.video + 1]
    OBVIOUS
  <2>4. d.banner + 1 \in Nat /\ d.video + 1 \in Nat
    BY <2>2 DEF Copies
  <2>5. e \in Copies(W)
    BY <2>2, <2>3, <2>4 DEF Copies
  <2>6. out = Ok([events EXCEPT ![job.id] = e], e, job.id)
    BY <1>14, <2>1, <2>2, <2>3 DEF Execute, Files, Copies
  <2>7. out.res = "ok" /\ out.copy = e /\ out.id = job.id /\ out.events = [events EXCEPT ![job.id] = e]
    BY <1>9, <2>5, <2>6
  <2>8. Rewritten(job, out)
    BY <1>7, <1>14, <2>7 DEF Rewritten, Files
  <2> QED
    BY <1>6, <2>5, <2>7, <2>8
<1>15. CASE job.call = "load"
  <2>1. 1 \in DOMAIN events
    <3>1. job.kind = "load"
      BY <1>1, <1>15 DEF JobShape, CallOf
    <3>2. page # "create"
      BY <1>1, <3>1 DEF JobShape, PageKinds
    <3> QED
      BY <3>2, Facts
  <2>2. out = Ok(events, events[1], 1)
    BY <1>15 DEF Execute
  <2>3. ReadBack(job, out)
    BY <1>15, <2>1, <2>2 DEF Ok, ReadBack
  <2> QED
    BY <1>2, <1>3, <2>1, <2>3 DEF ReadBack
<1>16. CASE job.call \in {"none", "cats", "profile"}
  <2>1. out = Refused("ok")
    BY <1>16 DEF Execute
  <2> QED
    BY <1>8, <1>16, <2>1
<1>17. job.call \in {"none", "cats", "profile", "create", "update", "sessions", "publish", "load"} \cup Files
  BY <1>1 DEF Jobs, Calls, Kinds, Files
<1> QED
  BY <1>10, <1>11, <1>12, <1>13, <1>14, <1>15, <1>16, <1>17

\* The events after a call.
LEMMA EventsAfter ==
  ASSUME NEW W, Typed(W), NEW job, NEW out, out.copy \in Copies(W),
         \/ Untouched(job, out) \/ Created(job, out)
         \/ Rewritten(job, out) \/ ReadBack(job, out)
  PROVE  /\ out.events \in Seq(Copies(W))
         /\ Created(job, out) =>
              /\ DOMAIN out.events = DOMAIN events \cup {out.id} /\ out.id \notin DOMAIN events
              /\ out.id # 0 /\ Len(out.events) = Len(events) + 1
              /\ \A k \in DOMAIN events : out.events[k] = events[k]
              /\ out.events[out.id] = out.copy
         /\ ~Created(job, out) => DOMAIN out.events = DOMAIN events /\ Len(out.events) = Len(events)
         /\ Rewritten(job, out) =>
              \A k \in DOMAIN events : out.events[k] = IF k = job.id THEN out.copy ELSE events[k]
<1>1. events \in Seq(Copies(W)) /\ Len(events) \in Nat /\ DOMAIN events = 1 .. Len(events)
  BY EventRows DEF Typed
<1>2. CASE Created(job, out)
  <2>1. out.events = Append(events, out.copy) /\ out.id = Len(events) + 1
    BY <1>2 DEF Created
  <2>2. /\ out.events \in Seq(Copies(W)) /\ Len(events) + 1 \notin DOMAIN events
        /\ DOMAIN out.events = DOMAIN events \cup {Len(events) + 1}
        /\ \A k \in DOMAIN events : out.events[k] = events[k]
        /\ out.events[Len(events) + 1] = out.copy
    BY <1>1, <2>1, AppendProperties, LenProperties
  <2>3. Len(out.events) = Len(events) + 1
    BY <1>1, <2>1, AppendProperties
  <2>4. ~Rewritten(job, out)
    BY <1>2 DEF Created, Rewritten, Files
  <2> QED
    BY <1>1, <1>2, <2>1, <2>2, <2>3, <2>4
<1>3. CASE Rewritten(job, out)
  <2>1. out.events = [events EXCEPT ![job.id] = out.copy] /\ job.id \in DOMAIN events
    BY <1>3 DEF Rewritten
  <2>2. /\ out.events \in Seq(Copies(W)) /\ DOMAIN out.events = DOMAIN events
        /\ Len(out.events) = Len(events)
        /\ \A k \in DOMAIN events : out.events[k] = IF k = job.id THEN out.copy ELSE events[k]
    BY <1>1, <2>1, LenProperties, ExceptSeq
  <2>3. ~Created(job, out)
    BY <1>3 DEF Created, Rewritten, Files
  <2> QED
    BY <2>2, <2>3
<1>4. CASE Untouched(job, out) \/ ReadBack(job, out)
  <2>1. out.events = events
    BY <1>4 DEF Untouched, ReadBack
  <2>2. ~Created(job, out) /\ ~Rewritten(job, out)
    BY <1>4 DEF Untouched, ReadBack, Created, Rewritten, Files
  <2> QED
    BY <1>1, <2>1, <2>2
<1> QED
  BY <1>2, <1>3, <1>4

\* A call in slot i is executed; its answer arrives or is lost.
Served(i, job, out, new) ==
  /\ job = jobs[i] /\ job.kind # "none" /\ job.res = "none"
  /\ out.res \in {"ok", "refused", "incomplete"}
  /\ \/ Untouched(job, out) \/ Created(job, out)
     \/ Rewritten(job, out) \/ ReadBack(job, out)
  /\ events' = out.events /\ jobs' = [jobs EXCEPT ![i] = new]
  /\ UNCHANGED <<page, ui, sent, bubbled, overlap>>
  /\ faults' \in Nat /\ faults <= faults'
  /\ new.kind = job.kind /\ new.call = job.call
  /\ \/ new.res = "failed" /\ new.id = 0 /\ faults' > 0
     \/ /\ new.res = out.res /\ new.copy = out.copy
        /\ new.id = (IF out.id # 0 THEN out.id ELSE job.id)
        /\ job.kind # "create" => new.form = job.form

\* A new event is made on the create page, by a submission.
LEMMA OnlySubmissionsCreate ==
  ASSUME NEW V, Typed(V), IInv, NEW i \in Slots, NEW out
  PROVE  /\ Created(jobs[i], out) <=> (jobs[i].kind = "create" /\ Created(jobs[i], out))
         /\ jobs[i].kind = "create" => page = "create" /\ jobs[i].call = "create"
<1>1. JobShape(jobs[i]) /\ jobs[i] \in Jobs(V)
  BY Facts
<1>2. jobs[i].kind = "create" <=> jobs[i].call = "create"
  BY <1>1 DEF JobShape, CallOf
<1>3. jobs[i].kind = "create" => page = "create"
  BY <1>1 DEF JobShape, PageKinds
<1> QED
  BY <1>2, <1>3 DEF Created

LEMMA ServedShape ==
  ASSUME NEW V, Typed(V), IInv, NEW i \in Slots, NEW job, NEW out, NEW new,
         Served(i, job, out, new), NEW W, Typed(W), out.copy \in Copies(W)
  PROVE  Shape'
<1>1. /\ job = jobs[i] /\ events' = out.events /\ jobs' = [jobs EXCEPT ![i] = new]
      /\ UNCHANGED <<page, ui, sent, bubbled, overlap>>
      /\ faults' \in Nat /\ faults <= faults' /\ faults \in Nat
      /\ new.kind = job.kind /\ new.call = job.call /\ job.res = "none"
      /\ out.res \in {"ok", "refused", "incomplete"}
  BY DEF Served, Typed
<1>2. jobs'[i] = new /\ \A j \in Slots \ {i} : jobs'[j] = jobs[j]
  BY <1>1, Slotted
<1>3. /\ JobShape(job) /\ (ui.id = 0 \/ ui.id \in DOMAIN events)
      /\ page # "create" => DOMAIN events = {1} /\ ui.id = 0
  BY <1>1, Facts
<1>4. /\ Created(job, out) => DOMAIN events' = DOMAIN events \cup {out.id} /\ out.id # 0
      /\ ~Created(job, out) => DOMAIN events' = DOMAIN events
  BY <1>1, EventsAfter DEF Served
<1>5. DOMAIN events \subseteq DOMAIN events'
  BY <1>4
<1>6. page # "create" => DOMAIN events' = {1} /\ ui'.id = 0
  BY <1>1, <1>3, <1>4, OnlySubmissionsCreate
<1>7. PageKinds' = PageKinds
  BY <1>1 DEF PageKinds
<1>8. ASSUME NEW j \in Slots, j # i PROVE JobShape(jobs[j])'
  <2>1. jobs'[j] = jobs[j] /\ JobShape(jobs[j])
    BY <1>2, <1>8 DEF IInv, Shape
  <2> QED
    BY <1>1, <1>5, <1>7, <2>1 DEF JobShape, CallOf
<1>9. new.id = 0 \/ new.id \in DOMAIN events'
  <2>1. CASE new.res = "failed" /\ new.id = 0
    BY <2>1
  <2>2. CASE new.id = (IF out.id # 0 THEN out.id ELSE job.id)
    <3>1. job.id = 0 \/ job.id \in DOMAIN events
      BY <1>3 DEF JobShape
    <3>2. out.id = 0 \/ out.id \in DOMAIN events'
      <4>1. CASE Created(job, out)
        BY <1>4, <4>1
      <4>2. CASE Untouched(job, out)
        BY <4>2 DEF Untouched
      <4>3. CASE Rewritten(job, out)
        BY <1>5, <4>3 DEF Rewritten
      <4>4. CASE ReadBack(job, out)
        BY <1>5, <4>4 DEF ReadBack
      <4> QED
        BY <4>1, <4>2, <4>3, <4>4 DEF Served
    <3> QED
      BY <1>5, <2>2, <3>1, <3>2
  <2> QED
    BY <2>1, <2>2 DEF Served
<1>10. (new.kind = "create" /\ new.res = "ok") => new.id # 0
  <2> SUFFICES ASSUME new.kind = "create", new.res = "ok" PROVE new.id # 0
    OBVIOUS
  <2>1. new.id = (IF out.id # 0 THEN out.id ELSE job.id) /\ out.res = "ok"
    BY DEF Served
  <2>2. job.call = "create"
    BY <1>1, OnlySubmissionsCreate
  <2>3. Created(job, out)
    BY <2>1, <2>2 DEF Served, Untouched, Rewritten, ReadBack, Files
  <2> QED
    BY <1>4, <2>1, <2>3
<1>11. (new.kind \in {"publish", "save"} \cup Files /\ new.res # "failed") => new.id # 0
  BY <1>1, <1>3 DEF Served, JobShape
<1>12. new.res = "failed" => faults' > 0
  BY <1>1 DEF Served
<1>13. JobShape(new)'
  BY <1>1, <1>3, <1>7, <1>9, <1>10, <1>11, <1>12 DEF JobShape, CallOf
<1>14. JobShape(jobs[i])'
  BY <1>2, <1>13 DEF JobShape, CallOf
<1>15. ui'.id = 0 \/ ui'.id \in DOMAIN events'
  BY <1>1, <1>3, <1>5
<1> QED
  BY <1>1, <1>6, <1>8, <1>14, <1>15 DEF Shape

LEMMA ServedForm ==
  ASSUME NEW V, Typed(V), IInv, NEW i \in Slots, NEW job, NEW out, NEW new,
         Served(i, job, out, new), NEW W, Typed(W), out.copy \in Copies(W)
  PROVE  OneForm'
<1>1. /\ job = jobs[i] /\ events' = out.events /\ jobs' = [jobs EXCEPT ![i] = new]
      /\ UNCHANGED <<page, ui, sent, bubbled, overlap>>
      /\ faults' \in Nat /\ faults <= faults' /\ faults \in Nat
      /\ new.kind = job.kind /\ job.res = "none"
  BY DEF Served, Typed
<1>2. /\ jobs'[i] = new /\ \A j \in Slots \ {i} : jobs'[j] = jobs[j]
      /\ \A K : Active(K) = {j \in Slots : jobs[j].kind \in K}
      /\ \A K : Active(K)' = {j \in Slots : jobs'[j].kind \in K}
  BY <1>1, Slotted
<1> SUFFICES ASSUME page = "create", faults' = 0, ~bubbled
             PROVE  /\ \A j \in Slots : jobs'[j].kind # "prompt"
                    /\ \A j, k \in Active({"create"})' : j = k
                    /\ \A j \in Active({"create"})' :
                         ui.busy /\ ui.id = 0 /\ Len(events') = IF jobs'[j].res = "ok" THEN 1 ELSE 0
                    /\ Active({"create"})' = {} => Len(events') = IF ui.id = 0 THEN 0 ELSE 1
  BY <1>1 DEF OneForm, Good
<1>3. faults = 0
  BY <1>1
<1>4. /\ \A j \in Slots : jobs[j].kind # "prompt"
      /\ \A j, k \in Active({"create"}) : j = k
      /\ \A j \in Active({"create"}) :
           ui.busy /\ ui.id = 0 /\ Len(events) = IF jobs[j].res = "ok" THEN 1 ELSE 0
      /\ Active({"create"}) = {} => Len(events) = IF ui.id = 0 THEN 0 ELSE 1
  BY <1>3 DEF IInv, OneForm, Good
<1>5. Active({"create"})' = Active({"create"}) /\ Active({"create"}) \subseteq Slots
  BY <1>1, <1>2
<1>6. \A j \in Slots : jobs'[j].kind # "prompt"
  BY <1>1, <1>2, <1>4
<1>7. /\ Created(job, out) => Len(events') = Len(events) + 1
      /\ ~Created(job, out) => Len(events') = Len(events)
  BY <1>1, EventsAfter DEF Served
<1>8. CASE job.kind = "create"
  <2>1. i \in Active({"create"}) /\ job.call = "create"
    BY <1>1, <1>2, <1>8, OnlySubmissionsCreate
  <2>2. Len(events) = 0 /\ ui.busy /\ ui.id = 0
    BY <1>1, <1>4, <2>1
  <2>3. Active({"create"}) = {i}
    BY <1>4, <2>1
  <2>4. new.res = out.res
    BY <1>1 DEF Served
  <2>5. Created(job, out) <=> out.res = "ok"
    BY <2>1 DEF Served, Untouched, Created, Rewritten, ReadBack, Files
  <2>6. Len(events') = IF new.res = "ok" THEN 1 ELSE 0
    BY <1>7, <2>2, <2>4, <2>5
  <2> QED
    BY <1>2, <1>5, <1>6, <2>2, <2>3, <2>6
<1>9. CASE job.kind # "create"
  <2>1. Len(events') = Len(events)
    BY <1>1, <1>7, <1>9, OnlySubmissionsCreate
  <2>2. i \notin Active({"create"})
    BY <1>1, <1>2, <1>9
  <2>3. \A j \in Active({"create"}) : jobs'[j] = jobs[j]
    BY <1>2, <1>5, <2>2
  <2> QED
    BY <1>4, <1>5, <1>6, <2>1, <2>3
<1> QED
  BY <1>8, <1>9

LEMMA ServedSave ==
  ASSUME NEW V, Typed(V), IInv, NEW i \in Slots, NEW job, NEW out, NEW new,
         Served(i, job, out, new), NEW W, Typed(W), out.copy \in Copies(W)
  PROVE  SaveKnown'
<1>1. /\ job = jobs[i] /\ events' = out.events /\ jobs' = [jobs EXCEPT ![i] = new]
      /\ UNCHANGED <<page, ui, sent, bubbled, overlap>>
      /\ new.kind = job.kind /\ new.call = job.call /\ job.res = "none"
  BY DEF Served
<1>2. /\ jobs'[i] = new /\ \A j \in Slots \ {i} : jobs'[j] = jobs[j]
      /\ \A K : Active(K) = {j \in Slots : jobs[j].kind \in K}
      /\ \A K : Active(K)' = {j \in Slots : jobs'[j].kind \in K}
  BY <1>1, Slotted
<1>3. /\ page # "edit" => ~ui.saved
      /\ page # "create" => DOMAIN events = {1}
      /\ JobShape(job)
  BY <1>1, Facts
<1> SUFFICES ASSUME page = "edit"
             PROVE  /\ ui.saved => ~ui.busy /\ FieldsStored' /\ SessionsStored'
                    /\ \A j, k \in Active({"save"})' : j = k
                    /\ \A j \in Active({"save"})' : ui.busy /\ SaveGood(jobs[j])'
  BY <1>1, <1>3 DEF SaveKnown
<1>4. /\ ui.saved => ~ui.busy /\ FieldsStored /\ SessionsStored
      /\ \A j, k \in Active({"save"}) : j = k
      /\ \A j \in Active({"save"}) : ui.busy /\ SaveGood(jobs[j])
  BY DEF IInv, SaveKnown
<1>5. Active({"save"})' = Active({"save"}) /\ Active({"save"}) \subseteq Slots
  BY <1>1, <1>2
<1>6. job.kind \in {"load", "save"}
  BY <1>3 DEF JobShape, PageKinds, Served
<1>7. CASE job.kind = "load"
  <2>1. events' = events
    <3>1. job.call = "load"
      BY <1>3, <1>7 DEF JobShape, CallOf
    <3> QED
      BY <1>1, <3>1 DEF Served, Untouched, Created, Rewritten, ReadBack, Files
  <2>2. FieldsStored' = FieldsStored /\ SessionsStored' = SessionsStored
    BY <1>1, <2>1, StoredKept
  <2>3. ASSUME NEW j \in Active({"save"}) PROVE SaveGood(jobs[j])'
    <3>1. jobs'[j] = jobs[j] /\ SaveGood(jobs[j])
      BY <1>1, <1>2, <1>4, <1>5, <1>7
    <3> QED
      BY <1>1, <2>2, <3>1 DEF SaveGood
  <2> QED
    BY <1>4, <1>5, <2>2, <2>3
<1>8. CASE job.kind = "save"
  <2>1. i \in Active({"save"}) /\ job.call \in {"update", "sessions"}
    BY <1>1, <1>2, <1>3, <1>8 DEF JobShape, CallOf
  <2>2. ui.busy /\ ~ui.saved /\ SaveGood(job) /\ Active({"save"}) = {i}
    BY <1>1, <1>4, <2>1
  <2>3. job.form = sent /\ job.id = 1 /\ (job.call = "sessions" => FieldsStored)
    BY <1>1, <2>2 DEF SaveGood
  <2>4. SaveGood(new)'
    <3>1. CASE new.res = "failed"
      BY <3>1 DEF SaveGood
    <3>2. CASE new.res # "failed"
      <4>1. new.res = out.res /\ new.id = (IF out.id # 0 THEN out.id ELSE job.id) /\ new.form = job.form
        BY <1>8, <3>2 DEF Served
      <4>2. CASE out.res = "ok"
        <5>1. Rewritten(job, out)
          BY <2>1, <4>2 DEF Served, Untouched, Created, ReadBack
        <5>2. out.id = 1 /\ events'[1] = out.copy
          BY <1>1, <1>3, <2>3, <5>1, EventsAfter DEF Rewritten
        <5>3. CASE job.call = "update"
          <6>1. FieldsStored'
            BY <1>1, <2>3, <5>1, <5>2, <5>3 DEF Rewritten, FieldsStored
          <6> QED
            BY <1>1, <2>3, <4>1, <5>2, <5>3, <6>1 DEF SaveGood
        <5>4. CASE job.call = "sessions"
          <6>1. FieldsStored'
            BY <1>1, <2>3, <5>1, <5>2, <5>4 DEF Rewritten, FieldsStored
          <6>2. SessionsStored'
            BY <1>1, <2>3, <5>1, <5>2, <5>4 DEF Rewritten, SessionsStored
          <6> QED
            BY <1>1, <2>3, <4>1, <5>2, <6>1, <6>2 DEF SaveGood
        <5> QED
          BY <2>1, <5>3, <5>4
      <4>3. CASE out.res # "ok"
        <5>1. events' = events /\ out.id = 0
          BY <1>1, <4>3 DEF Served, Untouched, Created, Rewritten, ReadBack
        <5>2. FieldsStored' = FieldsStored
          BY <1>1, <5>1, StoredKept
        <5> QED
          BY <1>1, <2>3, <4>1, <4>3, <5>1, <5>2 DEF SaveGood
      <4> QED
        BY <4>2, <4>3
    <3> QED
      BY <3>1, <3>2
  <2>5. SaveGood(jobs[i])'
    BY <1>2, <2>4 DEF SaveGood
  <2> QED
    BY <1>5, <2>2, <2>5
<1> QED
  BY <1>6, <1>7, <1>8

LEMMA ServedCopy ==
  ASSUME NEW V, Typed(V), IInv, NEW i \in Slots, NEW job, NEW out, NEW new,
         Served(i, job, out, new), NEW W, Typed(W), out.copy \in Copies(W)
  PROVE  CopyKnown'
<1>1. /\ job = jobs[i] /\ events' = out.events /\ jobs' = [jobs EXCEPT ![i] = new]
      /\ UNCHANGED <<page, ui, sent, bubbled, overlap>>
      /\ faults' \in Nat /\ faults <= faults' /\ faults \in Nat
      /\ new.kind = job.kind /\ new.call = job.call /\ job.res = "none"
  BY DEF Served, Typed
<1>2. /\ jobs'[i] = new /\ \A j \in Slots \ {i} : jobs'[j] = jobs[j]
      /\ \A K : Active(K) = {j \in Slots : jobs[j].kind \in K}
      /\ \A K : Active(K)' = {j \in Slots : jobs'[j].kind \in K}
  BY <1>1, Slotted
<1>3. Target' = Target /\ (\A K : Active(K)' = Active(K)) /\ \A K : Active(K) \subseteq Slots
  BY <1>1, <1>2 DEF Target
<1> SUFFICES ASSUME page # "edit", faults' = 0, ~overlap
    PROVE  /\ \A j, k \in Active(Readers) : j = k
           /\ \A j \in Active(Readers \cup {"create"}) :
                jobs'[j].res = "ok" => /\ jobs'[j].id \in DOMAIN events'
                                       /\ SameFiles(jobs'[j].copy, events'[jobs'[j].id])
           /\ \A j \in Active({"create"}) :
                jobs'[j].res = "ok" => /\ jobs'[j].id # ui.id
                                       /\ \A k \in Slots \ {j} : jobs'[k].id # jobs'[j].id
           /\ ui.copy # NoEvent =>
                /\ Target \in DOMAIN events'
                /\ \/ SameFiles(ui.copy, events'[Target])
                   \/ \E j \in Active(Files) : jobs'[j].res = "ok" /\ jobs'[j].id = Target
  BY <1>1, <1>3 DEF CopyKnown, Good, SameFiles, Readers, Files
<1>4. faults = 0
  BY <1>1
<1>5. /\ \A j, k \in Active(Readers) : j = k
      /\ \A j \in Active(Readers \cup {"create"}) :
           jobs[j].res = "ok" => /\ jobs[j].id \in DOMAIN events
                                 /\ SameFiles(jobs[j].copy, events[jobs[j].id])
      /\ \A j \in Active({"create"}) :
           jobs[j].res = "ok" => /\ jobs[j].id # ui.id
                                 /\ \A k \in Slots \ {j} : jobs[k].id # jobs[j].id
      /\ ui.copy # NoEvent =>
           /\ Target \in DOMAIN events
           /\ \/ SameFiles(ui.copy, events[Target])
              \/ \E j \in Active(Files) : jobs[j].res = "ok" /\ jobs[j].id = Target
  BY <1>4 DEF IInv, CopyKnown, Good
<1>6. /\ new.res = out.res /\ new.copy = out.copy
      /\ new.id = (IF out.id # 0 THEN out.id ELSE job.id)
  BY <1>1 DEF Served
<1>7. /\ JobShape(job) /\ job \in Jobs(V)
      /\ ui.id = 0 \/ ui.id \in DOMAIN events
      /\ page # "create" => DOMAIN events = {1}
  BY <1>1, Facts
<1>8. \A j \in Slots : jobs[j].id = 0 \/ jobs[j].id \in DOMAIN events
  BY DEF IInv, Shape, JobShape
<1>9. \A j \in Slots : jobs[j].kind = "create" => page = "create"
  BY OnlySubmissionsCreate
<1>10. \A j \in Slots : \A K : j \in Active(K) <=> jobs[j].kind \in K
  BY <1>2
<1>11. 0 \notin DOMAIN events
  BY EventRows
\* Nothing happened.
<1>12. CASE Untouched(job, out)
  <2>1. events' = events /\ new.id = job.id
    BY <1>1, <1>6, <1>12 DEF Untouched
  <2>2. new.res = "ok" => job.kind \notin Readers \cup {"create"}
    BY <1>6, <1>7, <1>12 DEF Untouched, JobShape, CallOf, Readers, Files
  <2>3. \A j \in Active(Readers \cup {"create"}) : jobs'[j].res = "ok" => jobs'[j] = jobs[j]
    BY <1>1, <1>2, <1>3, <1>10, <2>2
  <2>4. \A j \in Slots : jobs'[j].id = jobs[j].id
    BY <1>1, <1>2, <2>1
  <2>5. \A j \in Active({"create"}) : jobs'[j].res = "ok" => jobs[j].res = "ok"
    <3>1. \A j \in Active({"create"}) : j \in Active(Readers \cup {"create"})
      BY <1>3, <1>10
    <3> QED
      BY <2>3, <3>1
  <2>6. \A j \in Active(Files) : jobs[j].res = "ok" => jobs'[j].res = "ok"
    BY <1>1, <1>2, <1>3
  <2>7. \A j \in Active({"create"}) :
          jobs'[j].res = "ok" => /\ jobs'[j].id # ui.id
                                 /\ \A k \in Slots \ {j} : jobs'[k].id # jobs'[j].id
    BY <1>3, <1>5, <2>4, <2>5
  <2>8. \A j \in Active(Readers \cup {"create"}) :
          jobs'[j].res = "ok" => /\ jobs'[j].id \in DOMAIN events'
                                 /\ SameFiles(jobs'[j].copy, events'[jobs'[j].id])
    BY <1>5, <2>1, <2>3
  <2>9. \A j \in Active(Files) : jobs[j].res = "ok" /\ jobs[j].id = Target =>
                                 jobs'[j].res = "ok" /\ jobs'[j].id = Target
    BY <1>3, <2>4, <2>6
  <2> QED
    BY <1>5, <2>1, <2>7, <2>8, <2>9
\* A new event.
<1>13. CASE Created(job, out)
  <2>1. /\ DOMAIN events' = DOMAIN events \cup {out.id} /\ out.id \notin DOMAIN events /\ out.id # 0
        /\ \A k \in DOMAIN events : events'[k] = events[k]
        /\ events'[out.id] = out.copy
    BY <1>1, <1>13, EventsAfter
  <2>2. job.kind = "create" /\ new.id = out.id /\ new.res = "ok"
    BY <1>1, <1>6, <1>13, <2>1, OnlySubmissionsCreate DEF Created
  <2>3. ASSUME NEW j \in Slots, j # i
        PROVE  jobs'[j] = jobs[j] /\ jobs'[j].id # out.id
    BY <1>2, <1>8, <2>1, <2>3
  <2>4. \A j \in Active({"create"}) :
          jobs'[j].res = "ok" => /\ jobs'[j].id # ui.id
                                 /\ \A k \in Slots \ {j} : jobs'[k].id # jobs'[j].id
    <3> SUFFICES ASSUME NEW j \in Active({"create"}), jobs'[j].res = "ok"
                 PROVE  /\ jobs'[j].id # ui.id
                        /\ \A k \in Slots \ {j} : jobs'[k].id # jobs'[j].id
      OBVIOUS
    <3>1. CASE j = i
      BY <1>2, <1>7, <2>1, <2>2, <2>3, <3>1
    <3>2. CASE j # i
      <4>1. j \in Slots /\ jobs'[j] = jobs[j] /\ jobs[j].id # out.id
        BY <1>3, <2>3, <3>2
      <4> QED
        BY <1>2, <1>5, <2>2, <2>3, <4>1
    <3> QED
      BY <3>1, <3>2
  <2>5. \A j \in Active(Readers \cup {"create"}) :
          jobs'[j].res = "ok" => /\ jobs'[j].id \in DOMAIN events'
                                 /\ SameFiles(jobs'[j].copy, events'[jobs'[j].id])
    <3> SUFFICES ASSUME NEW j \in Active(Readers \cup {"create"}), jobs'[j].res = "ok"
                 PROVE  /\ jobs'[j].id \in DOMAIN events'
                        /\ SameFiles(jobs'[j].copy, events'[jobs'[j].id])
      OBVIOUS
    <3>1. CASE j = i
      BY <1>2, <1>6, <2>1, <2>2, <3>1 DEF SameFiles
    <3>2. CASE j # i
      <4>1. jobs'[j] = jobs[j]
        BY <1>3, <2>3, <3>2
      <4> QED
        BY <1>5, <2>1, <4>1
    <3> QED
      BY <3>1, <3>2
  <2>6. \A j \in Active(Files) : jobs'[j] = jobs[j]
    <3>1. i \notin Active(Files)
      BY <1>1, <1>10, <2>2 DEF Files
    <3> QED
      BY <1>3, <2>3, <3>1
  <2> QED
    BY <1>5, <2>1, <2>4, <2>5, <2>6
\* The event is read.
<1>14. CASE ReadBack(job, out)
  <2>1. events' = events /\ new.id = 1 /\ new.copy = events[1] /\ new.res = "ok" /\ 1 \in DOMAIN events
    BY <1>1, <1>6, <1>14 DEF ReadBack
  <2>2. job.kind = "load"
    BY <1>7, <1>14 DEF ReadBack, JobShape, CallOf
  <2>3. page # "create"
    BY <1>7, <2>2 DEF JobShape, PageKinds
  <2>4. Active({"create"}) = {}
    BY <1>2, <1>9, <2>3
  <2>5. \A j \in Active(Readers \cup {"create"}) :
          jobs'[j].res = "ok" => /\ jobs'[j].id \in DOMAIN events'
                                 /\ SameFiles(jobs'[j].copy, events'[jobs'[j].id])
    <3> SUFFICES ASSUME NEW j \in Active(Readers \cup {"create"}), jobs'[j].res = "ok"
                 PROVE  /\ jobs'[j].id \in DOMAIN events'
                        /\ SameFiles(jobs'[j].copy, events'[jobs'[j].id])
      OBVIOUS
    <3>1. CASE j = i
      BY <1>2, <2>1, <3>1 DEF SameFiles
    <3>2. CASE j # i
      <4>1. jobs'[j] = jobs[j]
        BY <1>2, <1>3, <3>2
      <4> QED
        BY <1>5, <2>1, <4>1
    <3> QED
      BY <3>1, <3>2
  <2>6. \A j \in Active(Files) : jobs'[j] = jobs[j]
    <3>1. i \notin Active(Files)
      BY <1>1, <1>10, <2>2 DEF Files
    <3> QED
      BY <1>2, <1>3, <3>1
  <2> QED
    BY <1>5, <2>1, <2>4, <2>5, <2>6
\* The event is rewritten.
<1>15. CASE Rewritten(job, out)
  <2>1. /\ DOMAIN events' = DOMAIN events
        /\ \A k \in DOMAIN events : events'[k] = IF k = job.id THEN out.copy ELSE events[k]
        /\ job.id \in DOMAIN events /\ new.res = "ok" /\ new.id = job.id
    <3>1. ~Created(job, out)
      BY <1>15 DEF Rewritten, Created, Files
    <3> QED
      BY <1>1, <1>6, <1>11, <1>15, <3>1, EventsAfter DEF Rewritten
  <2>2. job.kind \notin {"create", "load"}
    BY <1>7, <1>15 DEF Rewritten, JobShape, CallOf, Files
  <2>3. \A j \in Slots : jobs'[j].id = jobs[j].id
    BY <1>1, <1>2, <2>1
  <2>4. \A j \in Active({"create"}) : jobs'[j] = jobs[j]
    <3>1. i \notin Active({"create"})
      BY <1>1, <1>10, <2>2
    <3> QED
      BY <1>2, <1>3, <3>1
  <2>5. \A j \in Active({"create"}) :
          jobs'[j].res = "ok" => /\ jobs'[j].id # ui.id
                                 /\ \A k \in Slots \ {j} : jobs'[k].id # jobs'[j].id
    BY <1>3, <1>5, <2>3, <2>4
  <2>6. CASE job.call \in Files
    <3>1. i \in Active(Files) /\ i \in Active(Readers)
      BY <1>1, <1>7, <1>10, <2>6 DEF JobShape, CallOf, Files, Readers
    <3>2. \A j \in Active(Readers \cup {"create"}) :
            jobs'[j].res = "ok" => /\ jobs'[j].id \in DOMAIN events'
                                   /\ SameFiles(jobs'[j].copy, events'[jobs'[j].id])
      <4> SUFFICES ASSUME NEW j \in Active(Readers \cup {"create"}), jobs'[j].res = "ok"
                   PROVE  /\ jobs'[j].id \in DOMAIN events'
                          /\ SameFiles(jobs'[j].copy, events'[jobs'[j].id])
        OBVIOUS
      <4>1. CASE j = i
        BY <1>2, <1>6, <2>1, <4>1 DEF SameFiles
      <4>2. CASE j # i
        <5>1. j \notin Active(Readers) /\ j \in Slots
          BY <1>3, <1>5, <3>1, <4>2
        <5>2. j \in Active({"create"})
          BY <1>10, <5>1
        <5>3. jobs'[j] = jobs[j] /\ jobs[j].id # job.id
          BY <1>1, <1>5, <2>4, <4>2, <5>2
        <5> QED
          BY <1>5, <2>1, <5>3
      <4> QED
        BY <4>1, <4>2
    <3>3. ASSUME ui.copy # NoEvent
          PROVE  /\ Target \in DOMAIN events'
                 /\ \/ SameFiles(ui.copy, events'[Target])
                    \/ \E j \in Active(Files) : jobs'[j].res = "ok" /\ jobs'[j].id = Target
      <4>1. Target \in DOMAIN events
        BY <1>5, <3>3
      <4>2. SameFiles(ui.copy, events[Target])
        <5>1. \A j \in Active(Files) : j = i
          <6>1. \A j \in Active(Files) : j \in Active(Readers)
            BY <1>3, <1>10 DEF Readers
          <6> QED
            BY <1>5, <3>1, <6>1
        <5> QED
          BY <1>1, <1>5, <3>3, <5>1
      <4>3. CASE Target = job.id
        BY <1>2, <2>1, <3>1, <4>1, <4>3
      <4>4. CASE Target # job.id
        BY <2>1, <4>1, <4>2, <4>4
      <4> QED
        BY <4>3, <4>4
    <3> QED
      BY <1>5, <2>5, <3>2, <3>3
  <2>7. CASE job.call \notin Files
    <3>1. \A k \in DOMAIN events : SameFiles(events'[k], events[k])
      BY <1>15, <2>1, <2>7 DEF Rewritten, SameFiles
    <3>2. job.kind \notin Readers \cup {"create"}
      BY <1>7, <2>2, <2>7 DEF JobShape, CallOf, Readers, Files
    <3>3. \A j \in Active(Readers \cup {"create"}) : jobs'[j] = jobs[j]
      <4>1. i \notin Active(Readers \cup {"create"})
        BY <1>1, <1>10, <3>2
      <4> QED
        BY <1>2, <1>3, <4>1
    <3>4. \A j \in Active(Files) : jobs'[j] = jobs[j]
      <4>1. i \notin Active(Files)
        BY <1>1, <1>10, <3>2 DEF Readers
      <4> QED
        BY <1>2, <1>3, <4>1
    <3>5. \A j \in Active(Readers \cup {"create"}) :
            jobs'[j].res = "ok" => /\ jobs'[j].id \in DOMAIN events'
                                   /\ SameFiles(jobs'[j].copy, events'[jobs'[j].id])
      <4> SUFFICES ASSUME NEW j \in Active(Readers \cup {"create"}), jobs'[j].res = "ok"
                   PROVE  /\ jobs'[j].id \in DOMAIN events'
                          /\ SameFiles(jobs'[j].copy, events'[jobs'[j].id])
        OBVIOUS
      <4>1. /\ jobs'[j] = jobs[j] /\ jobs[j].id \in DOMAIN events
            /\ SameFiles(jobs[j].copy, events[jobs[j].id])
        BY <1>5, <3>3
      <4>2. SameFiles(events'[jobs[j].id], events[jobs[j].id])
        BY <3>1, <4>1
      <4> QED
        BY <2>1, <4>1, <4>2 DEF SameFiles
    <3>6. ui.copy # NoEvent =>
            /\ Target \in DOMAIN events'
            /\ \/ SameFiles(ui.copy, events'[Target])
               \/ \E j \in Active(Files) : jobs'[j].res = "ok" /\ jobs'[j].id = Target
      BY <1>5, <2>1, <3>1, <3>4 DEF SameFiles
    <3> QED
      BY <1>5, <2>5, <3>5, <3>6
  <2> QED
    BY <2>6, <2>7
<1> QED
  BY <1>12, <1>13, <1>14, <1>15 DEF Served

\* What executing a call leaves in its slot.
LEMMA ServeFacts ==
  ASSUME NEW V, Typed(V), IInv, NEW i \in Slots, ServeCall(i) \/ LoseAnswer(i),
         NEW job, job = jobs[i], NEW out, out = Execute(job), out.id \in Nat,
         out.res \in {"ok", "refused", "incomplete"},
         NEW W, V \subseteq W, out.copy \in Copies(W)
  PROVE  /\ jobs[i].kind # "none" /\ jobs[i].res = "none" /\ events' = out.events
         /\ UNCHANGED <<page, form, ui, sent, bubbled, overlap>>
         /\ faults' \in Nat /\ faults <= faults'
         /\ \E new \in Jobs(W) :
              /\ jobs' = [jobs EXCEPT ![i] = new]
              /\ new.kind = job.kind /\ new.call = job.call
              /\ \/ new.res = "failed" /\ new.id = 0 /\ faults' > 0
                 \/ /\ new.res = out.res /\ new.copy = out.copy
                    /\ new.id = (IF out.id # 0 THEN out.id ELSE job.id)
                    /\ job.kind # "create" => new.form = job.form
<1>1. jobs[i].kind # "none" /\ jobs[i].res = "none" /\ events' = out.events
      /\ UNCHANGED <<page, form, ui, sent, bubbled, overlap>>
  BY DEF ServeCall, LoseAnswer, Serve, history
<1>2. faults' \in Nat /\ faults <= faults'
  <2>1. faults' = faults \/ faults' = faults + 1
    BY Zenon DEF ServeCall, LoseAnswer
  <2> QED
    BY <2>1 DEF Typed
<1>3. job \in Jobs(V) /\ job \in Jobs(W)
  <2>1. job \in Jobs(V)
    BY Facts
  <2>2. Jobs(V) \subseteq Jobs(W)
    BY TypesGrow
  <2> QED
    BY <2>1, <2>2
<1>4. EmptyForm \in Forms(W) /\ NoJob \in Jobs(W) /\ NoJob.id = 0
  <2>1. {0, <<>>, <<EmptyRow>>, "draft", "published"} \subseteq W
    BY DEF Typed
  <2> QED
    BY <2>1, EmptyTypes
<1>5. CASE ServeCall(i)
  <2>1. PICK d : d = IF out.id # 0 THEN out.id ELSE job.id
    OBVIOUS
  <2>2. PICK f : f = IF job.kind = "create" THEN EmptyForm ELSE job.form
    OBVIOUS
  <2>3. PICK new : new = [job EXCEPT !.res = out.res, !.copy = out.copy, !.form = f, !.id = d]
    OBVIOUS
  <2>4. d \in Nat /\ f \in Forms(W)
    BY <1>3, <1>4, <2>1, <2>2 DEF Jobs
  <2>5. /\ new \in Jobs(W) /\ new.kind = job.kind /\ new.call = job.call
        /\ new.res = out.res /\ new.copy = out.copy /\ new.form = f /\ new.id = d
    BY <1>3, <2>3, <2>4 DEF Jobs
  <2>6. jobs' = [jobs EXCEPT ![i] = new]
    <3>1. jobs' = Put(jobs, i, [job EXCEPT !.res = out.res, !.copy = out.copy,
                                  !.form = IF job.kind = "create" THEN EmptyForm ELSE @,
                                  !.id = IF out.id # 0 THEN out.id ELSE @])
      BY <1>5 DEF ServeCall, Serve
    <3>2. new = [job EXCEPT !.res = out.res, !.copy = out.copy,
                            !.form = IF job.kind = "create" THEN EmptyForm ELSE @,
                            !.id = IF out.id # 0 THEN out.id ELSE @]
      BY <1>3, <2>1, <2>2, <2>3 DEF Jobs
    <3> QED
      BY <3>1, <3>2 DEF Put
  <2> QED
    BY <1>1, <1>2, <2>1, <2>2, <2>5, <2>6
<1>6. CASE LoseAnswer(i)
  <2>1. faults' > 0
    BY <1>6 DEF LoseAnswer, Typed
  <2>2. PICK new : new = [NoJob EXCEPT !.kind = job.kind, !.call = job.call, !.res = "failed"]
    OBVIOUS
  <2>3. jobs' = [jobs EXCEPT ![i] = new]
    BY <1>6, <2>2 DEF LoseAnswer, Serve, Put
  <2>4. /\ new \in Jobs(W) /\ new.kind = job.kind /\ new.call = job.call
        /\ new.res = "failed" /\ new.id = 0
    BY <1>3, <1>4, <2>2 DEF Jobs
  <2> QED
    BY <1>1, <1>2, <2>1, <2>3, <2>4
<1> QED
  BY <1>5, <1>6

LEMMA Serving ==
  ASSUME NEW V, Typed(V), IInv, NEW i \in Slots, ServeCall(i) \/ LoseAnswer(i)
  PROVE  \E W, out : \E new \in Jobs(W) :
           /\ Typed(W) /\ out.copy \in Copies(W) /\ Served(i, jobs[i], out, new)
           /\ UNCHANGED form
<1>1. PICK job : job = jobs[i]
  OBVIOUS
<1>2. PICK out : out = Execute(job)
  OBVIOUS
<1>3. PICK W : W = V \cup {Stored(SessionInputs(job.form))}
  OBVIOUS
<1>4. V \subseteq W /\ Stored(SessionInputs(job.form)) \in W
  BY <1>3
<1>5. job.kind # "none" /\ job.res = "none"
  BY <1>1 DEF ServeCall, LoseAnswer, Serve
<1>6. Typed(W)
  BY <1>4, TypedGrows
<1>7. /\ out.res \in {"ok", "refused", "incomplete"}
      /\ out.copy \in Copies(W) /\ out.id \in Nat
      /\ \/ Untouched(job, out) \/ Created(job, out)
         \/ Rewritten(job, out) \/ ReadBack(job, out)
  BY <1>1, <1>2, <1>4, <1>5, Executed
<1>8. /\ events' = out.events
      /\ UNCHANGED <<page, form, ui, sent, bubbled, overlap>>
      /\ faults' \in Nat /\ faults <= faults'
  BY <1>1, <1>2, <1>4, <1>7, ServeFacts
<1>9. PICK new \in Jobs(W) :
        /\ jobs' = [jobs EXCEPT ![i] = new]
        /\ new.kind = job.kind /\ new.call = job.call
        /\ \/ new.res = "failed" /\ new.id = 0 /\ faults' > 0
           \/ /\ new.res = out.res /\ new.copy = out.copy
              /\ new.id = (IF out.id # 0 THEN out.id ELSE job.id)
              /\ job.kind # "create" => new.form = job.form
  BY <1>1, <1>2, <1>4, <1>7, ServeFacts
<1>10. Served(i, job, out, new)
  BY <1>1, <1>5, <1>7, <1>8, <1>9 DEF Served
<1> QED
  BY <1>1, <1>6, <1>7, <1>8, <1>10

LEMMA ServeStep ==
  ASSUME NEW V, Typed(V), IInv, NEW i \in Slots, ServeCall(i) \/ LoseAnswer(i)
  PROVE  IInv' /\ TypeOK'
<1>1. PICK W, out : \E new \in Jobs(W) :
        /\ Typed(W) /\ out.copy \in Copies(W) /\ Served(i, jobs[i], out, new)
        /\ UNCHANGED form
  BY Serving
<1>2. PICK new \in Jobs(W) :
        /\ Typed(W) /\ out.copy \in Copies(W) /\ Served(i, jobs[i], out, new)
        /\ UNCHANGED form
  BY <1>1
<1>3. Shape' /\ OneForm' /\ SaveKnown' /\ CopyKnown'
  BY <1>2, ServedShape, ServedForm, ServedSave, ServedCopy
<1>4. /\ events' = out.events /\ jobs' = [jobs EXCEPT ![i] = new]
      /\ UNCHANGED <<page, form, ui, sent, bubbled, overlap>> /\ faults' \in Nat
  BY <1>2 DEF Served
<1>5. Typed(W)'
  <2>1. events' \in Seq(Copies(W))
    <3>1. \/ Untouched(jobs[i], out) \/ Created(jobs[i], out)
          \/ Rewritten(jobs[i], out) \/ ReadBack(jobs[i], out)
      BY <1>2 DEF Served
    <3> QED
      BY <1>2, <1>4, <3>1, EventsAfter
  <2>2. profile' \in BOOLEAN
    BY DEF ServeCall, LoseAnswer, Serve, Typed
  <2>3. jobs' \in [Slots -> Jobs(W)]
    BY <1>2, <1>4 DEF Typed
  <2> QED
    BY <1>2, <1>4, <2>1, <2>2, <2>3 DEF Typed
<1> QED
  BY <1>3, <1>5 DEF IInv, TypeOK

-----------------------------------------------------------------------------
(* The whole system. *)

\* Slots are written only by typed jobs.
LEMMA OverwriteSlot ==
  ASSUME NEW V, Typed(V), NEW i \in Slots, NEW job \in Jobs(V)
  PROVE  Put(jobs, i, job) \in [Slots -> Jobs(V)]
BY DEF Put, Typed

LEMMA StartedType ==
  ASSUME NEW V, Typed(V), Free # {}, NEW job \in Jobs(V)
  PROVE  Started(job) \in [Slots -> Jobs(V)]
<1>1. PICK i : i = Min(Free)
  OBVIOUS
<1>2. i \in Slots
  BY <1>1, FreeSlot
<1> QED
  BY <1>1, <1>2, OverwriteSlot DEF Started

LEMMA EndedType ==
  ASSUME NEW V, Typed(V), NEW i \in Slots
  PROVE  Ended(i) \in [Slots -> Jobs(V)]
<1>1. NoJob \in Jobs(V)
  BY EmptyTypes DEF Typed
<1> QED
  BY <1>1, OverwriteSlot DEF Ended

\* A step that stays within the field values there are.
LEMMA TypeStep ==
  ASSUME NEW V, Typed(V), UNCHANGED <<page, events>>, profile' = profile,
         form' \in Forms(V), sent' \in Forms(V), ui' \in Uis(V), jobs' \in [Slots -> Jobs(V)],
         faults' \in Nat, bubbled' \in BOOLEAN, overlap' \in BOOLEAN
  PROVE  TypeOK'
<1>1. Typed(V)'
  BY DEF Typed
<1> QED
  BY <1>1 DEF TypeOK

LEMMA AnswersTyped ==
  ASSUME NEW V, Typed(V), IInv, NEW i \in Slots, Answer(i)
  PROVE  TypeOK'
<1>1. /\ jobs[i] \in Jobs(V) /\ ui \in Uis(V) /\ form \in Forms(V) /\ sent \in Forms(V)
      /\ faults \in Nat /\ bubbled \in BOOLEAN /\ overlap \in BOOLEAN
  BY DEF Typed
<1>2. /\ jobs[i].copy \in Copies(V) /\ jobs[i].form \in Forms(V) /\ jobs[i].id \in Nat
      /\ NoEvent \in Copies(V)
  BY <1>1, EmptyTypes DEF Jobs, Typed
<1>3. Good(i) \in BOOLEAN
  BY DEF Good
<1>4. UNCHANGED <<page, events, profile, sent, faults, bubbled, overlap>>
  BY DEF Answer, AnswerCategories, AnswerLoad, AnswerCreate, AnswerPrompt, AnswerPublish, AnswerUpdate,
         AnswerSessions, AnswerSaveFailure, AnswerUpload, Server, bounds, history
<1>5. form' \in Forms(V)
  <2>1. CASE AnswerLoad(i)
    <3>1. PICK e : e = jobs[i].copy
      OBVIOUS
    <3>2. form' = [text |-> e.text, refund |-> e.refund, cat |-> e.cat, rows |-> e.sess] \/ form' = form
      BY <2>1, <3>1 DEF AnswerLoad
    <3> QED
      BY <1>1, <1>2, <3>1, <3>2 DEF Copies, Forms
  <2>2. CASE ~AnswerLoad(i)
    <3>1. form' = form
      BY <2>2 DEF Answer, AnswerCategories, AnswerCreate, AnswerPrompt, AnswerPublish, AnswerUpdate,
             AnswerSessions, AnswerSaveFailure, AnswerUpload
    <3> QED
      BY <1>1, <3>1
  <2> QED
    BY <2>1, <2>2
<1>6. ui' \in Uis(V) /\ jobs' \in [Slots -> Jobs(V)]
  <2>1. CASE AnswerCategories(i)
    <3>1. ui' = [ui EXCEPT !.cats = Good(i), !.error = ui.error \/ ~Good(i)] /\ jobs' = Ended(i)
      BY <1>1, <2>1 DEF AnswerCategories, Uis
    <3>2. (ui.error \/ ~Good(i)) \in BOOLEAN
      OBVIOUS
    <3>3. ui' \in Uis(V)
      BY <1>1, <1>3, <3>1, <3>2, Zenon DEF Uis
    <3> QED
      BY <3>1, <3>3, EndedType
  <2>2. CASE AnswerLoad(i)
    <3>1. PICK c : c = IF page = "media" THEN jobs[i].copy ELSE ui.copy
      OBVIOUS
    <3>2. c \in Copies(V)
      BY <1>1, <1>2, <3>1 DEF Uis
    <3>3. ui' = IF ~Good(i) THEN [ui EXCEPT !.loading = FALSE, !.error = TRUE]
                ELSE [ui EXCEPT !.loading = FALSE, !.cats = TRUE, !.copy = c]
      BY <1>1, <2>2, <3>1 DEF AnswerLoad, Uis
    <3>4. ui' \in Uis(V)
      BY <1>1, <3>2, <3>3 DEF Uis
    <3> QED
      BY <2>2, <3>4, EndedType DEF AnswerLoad
  <2>3. CASE AnswerCreate(i)
    <3>1. ui' \in Uis(V)
      BY <1>1, <1>2, <2>3 DEF AnswerCreate, Uis
    <3> QED
      BY <2>3, <3>1, EndedType DEF AnswerCreate
  <2>4. CASE AnswerPrompt(i)
    <3>1. CreateJob(jobs[i].form) \in Jobs(V)
      BY <1>2, CreateJobFacts
    <3>2. Put(jobs, i, CreateJob(jobs[i].form)) \in [Slots -> Jobs(V)]
      BY <3>1, OverwriteSlot
    <3>3. CreateUi \in Uis(V)
      BY <1>1 DEF CreateUi, Uis
    <3> QED
      BY <1>1, <2>4, <3>2, <3>3, EndedType DEF AnswerPrompt
  <2>5. CASE AnswerPublish(i)
    <3>1. ui' \in Uis(V)
      BY <1>1, <2>5 DEF AnswerPublish, Uis
    <3> QED
      BY <2>5, <3>1, EndedType DEF AnswerPublish
  <2>6. CASE AnswerUpdate(i)
    <3>1. PICK job : job = [jobs[i] EXCEPT !.call = "sessions", !.res = "none", !.copy = NoEvent]
      OBVIOUS
    <3>2. job \in Jobs(V)
      BY <1>1, <1>2, <3>1 DEF Jobs, Calls
    <3> QED
      BY <1>1, <2>6, <3>1, <3>2, OverwriteSlot DEF AnswerUpdate
  <2>7. CASE AnswerSessions(i)
    <3>1. ui' \in Uis(V)
      BY <1>1, <2>7 DEF AnswerSessions, Uis
    <3> QED
      BY <2>7, <3>1, EndedType DEF AnswerSessions
  <2>8. CASE AnswerSaveFailure(i)
    <3>1. ui' \in Uis(V)
      BY <1>1, <2>8 DEF AnswerSaveFailure, Uis
    <3> QED
      BY <2>8, <3>1, EndedType DEF AnswerSaveFailure
  <2>9. CASE AnswerUpload(i)
    <3>1. PICK d : d = IF page = "create" THEN jobs[i].id ELSE ui.id
      OBVIOUS
    <3>2. PICK file : file = jobs[i].kind
      OBVIOUS
    <3>3. file \in Files /\ d \in Nat
      BY <1>1, <1>2, <2>9, <3>1, <3>2 DEF AnswerUpload, Uis
    <3>4. ui' = IF Good(i) THEN [ui EXCEPT ![file] = FALSE, !.copy = jobs[i].copy, !.id = d]
                ELSE [ui EXCEPT ![file] = FALSE, !.error = TRUE]
      BY <1>1, <2>9, <3>1, <3>2, <3>3 DEF AnswerUpload, Uis, Files
    <3>5. ui' \in Uis(V)
      BY <1>1, <1>2, <3>3, <3>4 DEF Uis, Files
    <3> QED
      BY <2>9, <3>5, EndedType DEF AnswerUpload
  <2> QED
    BY <2>1, <2>2, <2>3, <2>4, <2>5, <2>6, <2>7, <2>8, <2>9 DEF Answer
<1> QED
  BY <1>1, <1>4, <1>5, <1>6, TypeStep

LEMMA UserTyped ==
  ASSUME NEW V, Typed(V), ClickCreate \/ SavePrompt \/ HandlePublish \/ ClickSave \/ ObtainToken
  PROVE  TypeOK'
<1>1. /\ ui \in Uis(V) /\ form \in Forms(V) /\ sent \in Forms(V)
      /\ faults \in Nat /\ bubbled \in BOOLEAN /\ overlap \in BOOLEAN
      /\ jobs \in [Slots -> Jobs(V)] /\ {0, <<>>, <<EmptyRow>>, "draft", "published"} \subseteq V
  BY DEF Typed
<1>2. CreateUi \in Uis(V)
  BY <1>1 DEF CreateUi, Uis
<1>3. CreateJob(form) \in Jobs(V)
  BY <1>1, CreateJobFacts
<1>4. CASE ClickCreate
  <2>1. /\ UNCHANGED <<page, events, profile, form, sent, faults, bubbled, overlap>>
        /\ ui' = CreateUi /\ jobs' = Started(CreateJob(form)) /\ Free # {}
    BY <1>4 DEF ClickCreate, Server, history
  <2>2. jobs' \in [Slots -> Jobs(V)]
    BY <1>3, <2>1, StartedType
  <2> QED
    BY <1>1, <1>2, <2>1, <2>2, TypeStep
<1>5. CASE SavePrompt
  <2>1. /\ UNCHANGED <<page, events, profile, form, sent, faults, overlap>> /\ bubbled' = TRUE
        /\ ui' = CreateUi /\ Cardinality(Free) > 1
    BY <1>5 DEF SavePrompt, Server, bounds
  <2>2. PICK new : new = Job("prompt", "profile")
    OBVIOUS
  <2>3. PICK inner : inner = [new EXCEPT !.form = form]
    OBVIOUS
  <2>4. new \in Jobs(V)
    BY <1>1, <2>2, JobType DEF Kinds, Calls
  <2>5. inner \in Jobs(V)
    BY <1>1, <2>3, <2>4 DEF Jobs
  <2>6. PICK js : js = Started(inner)
    OBVIOUS
  <2>7. Free # {}
    BY <2>1, FS_EmptySet
  <2>8. js \in [Slots -> Jobs(V)]
    BY <2>5, <2>6, <2>7, StartedType
  <2>9. PICK b : b = Min(Free \ {Min(Free)})
    OBVIOUS
  <2>10. jobs' = [js EXCEPT ![b] = CreateJob(form)]
    BY <1>5, <2>2, <2>3, <2>6, <2>9 DEF SavePrompt, Put
  <2>11. jobs' \in [Slots -> Jobs(V)]
    BY <1>3, <2>8, <2>10
  <2> QED
    BY <1>1, <1>2, <2>1, <2>11, TypeStep
<1>6. CASE HandlePublish
  <2>1. /\ UNCHANGED <<page, events, profile, form, sent, faults, bubbled, overlap>> /\ Free # {}
        /\ ui' = [ui EXCEPT !.error = FALSE]
        /\ jobs' = Started([Job("publish", "publish") EXCEPT !.id = ui.id])
    BY <1>6 DEF HandlePublish, Server, bounds, history
  <2>2. PICK new : new = Job("publish", "publish")
    OBVIOUS
  <2>3. PICK job : job = [new EXCEPT !.id = ui.id]
    OBVIOUS
  <2>4. new \in Jobs(V) /\ ui.id \in Nat
    BY <1>1, <2>2, JobType DEF Kinds, Calls, Uis
  <2>5. job \in Jobs(V)
    BY <2>3, <2>4 DEF Jobs
  <2>6. jobs' \in [Slots -> Jobs(V)]
    BY <2>1, <2>2, <2>3, <2>5, StartedType
  <2>7. ui' \in Uis(V)
    BY <1>1, <2>1 DEF Uis
  <2> QED
    BY <1>1, <2>1, <2>6, <2>7, TypeStep
<1>7. CASE ClickSave
  <2>1. /\ UNCHANGED <<page, events, profile, form, faults, bubbled, overlap>> /\ Free # {}
        /\ ui' = [ui EXCEPT !.busy = TRUE, !.error = FALSE, !.saved = FALSE] /\ sent' = form
        /\ jobs' = Started([Job("save", "update") EXCEPT !.form = form, !.id = 1])
    BY <1>7 DEF ClickSave, Server
  <2>2. PICK new : new = Job("save", "update")
    OBVIOUS
  <2>3. PICK job : job = [new EXCEPT !.form = form, !.id = 1]
    OBVIOUS
  <2>4. new \in Jobs(V)
    BY <1>1, <2>2, JobType DEF Kinds, Calls
  <2>5. job \in Jobs(V)
    BY <1>1, <2>3, <2>4 DEF Jobs
  <2>6. jobs' \in [Slots -> Jobs(V)]
    BY <2>1, <2>2, <2>3, <2>5, StartedType
  <2>7. ui' \in Uis(V)
    BY <1>1, <2>1 DEF Uis
  <2> QED
    BY <1>1, <2>1, <2>6, <2>7, TypeStep
<1>8. CASE ObtainToken
  <2>1. UNCHANGED <<page, events, profile, form, ui, sent, faults, bubbled>>
    BY <1>8 DEF ObtainToken, Server, bounds
  <2>2. overlap' \in BOOLEAN
    BY <1>8 DEF ObtainToken
  <2>3. Job("load", "load") \in Jobs(V)
    BY <1>1, JobType DEF Kinds, Calls
  <2>4. jobs' \in [Slots -> Jobs(V)]
    BY <1>1, <1>8, <2>3, StartedType DEF ObtainToken
  <2> QED
    BY <1>1, <2>1, <2>2, <2>4, TypeStep
<1> QED
  BY <1>4, <1>5, <1>6, <1>7, <1>8

LEMMA UploadTyped ==
  ASSUME NEW V, Typed(V), NEW file \in Files, Upload(file)
  PROVE  TypeOK'
<1>1. /\ ui \in Uis(V) /\ form \in Forms(V) /\ sent \in Forms(V)
      /\ faults \in Nat /\ bubbled \in BOOLEAN /\ overlap \in BOOLEAN
      /\ {0, <<>>, <<EmptyRow>>, "draft", "published"} \subseteq V
  BY DEF Typed
<1>2. /\ UNCHANGED <<page, events, profile, form, sent, faults, bubbled>> /\ Free # {}
      /\ ui' = [ui EXCEPT ![file] = TRUE, !.error = FALSE]
      /\ jobs' = Started([Job(file, file) EXCEPT !.id = IF page = "create" THEN ui.id ELSE 1])
  BY DEF Upload, Server
<1>3. PICK new : new = Job(file, file)
  OBVIOUS
<1>4. PICK d : d = IF page = "create" THEN ui.id ELSE 1
  OBVIOUS
<1>5. PICK job : job = [new EXCEPT !.id = d]
  OBVIOUS
<1>6. new \in Jobs(V) /\ d \in Nat
  BY <1>1, <1>3, <1>4, JobType DEF Kinds, Calls, Files, Uis
<1>7. job \in Jobs(V)
  BY <1>5, <1>6 DEF Jobs
<1>8. jobs' \in [Slots -> Jobs(V)]
  BY <1>2, <1>3, <1>4, <1>5, <1>7, StartedType
<1>9. ui' \in Uis(V)
  BY <1>1, <1>2 DEF Uis, Files
<1>10. overlap' \in BOOLEAN
  BY DEF Upload
<1> QED
  BY <1>1, <1>2, <1>8, <1>9, <1>10, TypeStep

LEMMA FailTyped ==
  ASSUME NEW V, Typed(V), NEW i \in Slots, Fail(i)
  PROVE  TypeOK'
<1>1. /\ ui \in Uis(V) /\ form \in Forms(V) /\ sent \in Forms(V) /\ jobs[i] \in Jobs(V)
      /\ faults \in Nat /\ bubbled \in BOOLEAN /\ overlap \in BOOLEAN /\ NoJob \in Jobs(V)
  BY EmptyTypes DEF Typed
<1>2. /\ UNCHANGED <<page, events, profile, form, ui, sent, bubbled, overlap>> /\ faults' = faults + 1
  BY DEF Fail, history
<1>3. PICK job : job = [NoJob EXCEPT !.kind = jobs[i].kind, !.call = jobs[i].call, !.res = "failed"]
  OBVIOUS
<1>4. job \in Jobs(V)
  BY <1>1, <1>3 DEF Jobs
<1>5. jobs' \in [Slots -> Jobs(V)]
  BY <1>3, <1>4, OverwriteSlot DEF Fail
<1>6. faults' \in Nat
  BY <1>1, <1>2
<1> QED
  BY <1>1, <1>2, <1>5, <1>6, TypeStep

\* The user's new value of a field joins the values there are.
LEMMA FillTyped ==
  ASSUME NEW V, Typed(V), Fill
  PROVE  TypeOK'
<1>1. PICK f : Edit(f)
               /\ \E x : f \in {[form EXCEPT !.text = x], [form EXCEPT !.refund = x],
                                [form EXCEPT !.cat = x], [form EXCEPT !.rows = x]}
  <2>1. CASE \E t \in Texts \ {0} : EditText(t) \/ EditRefund(t - 1)
    BY <2>1 DEF EditText, EditRefund
  <2>2. CASE \E c \in Selectable \cup {0} : SelectCategory(c)
    BY <2>2 DEF SelectCategory
  <2>3. CASE AddSession
    BY <2>3 DEF AddSession, Typed, Forms
  <2>4. CASE \E k \in DOMAIN form.rows : RemoveSession(k)
    BY <2>4 DEF RemoveSession, Typed, Forms
  <2>5. CASE \E k \in DOMAIN form.rows : \E s \in Starts \cup {EmptyRow} : UpdateSession(k, s)
    <3>1. PICK k \in DOMAIN form.rows, s \in Starts \cup {EmptyRow} : UpdateSession(k, s)
      BY <2>5
    <3>2. PICK x : x = [form.rows EXCEPT ![k] = s]
      OBVIOUS
    <3>3. [form EXCEPT !.rows[k] = s] = [form EXCEPT !.rows = x]
      BY <3>2 DEF Typed, Forms
    <3> QED
      BY <3>1, <3>3 DEF UpdateSession
  <2> QED
    BY <2>1, <2>2, <2>3, <2>4, <2>5 DEF Fill
<1>2. PICK x : f \in {[form EXCEPT !.text = x], [form EXCEPT !.refund = x],
                      [form EXCEPT !.cat = x], [form EXCEPT !.rows = x]}
  BY <1>1
<1>3. PICK W : W = V \cup {x}
  OBVIOUS
<1>4. V \subseteq W /\ x \in W
  BY <1>3
<1>5. Typed(W)
  BY <1>4, TypedGrows
<1>6. f \in Forms(W)
  BY <1>2, <1>4, <1>5 DEF Forms, Typed
<1>7. form' = f /\ UNCHANGED <<page, events, profile, ui, jobs, sent, faults, bubbled, overlap>>
  BY <1>1 DEF Edit, Server
<1> QED
  BY <1>5, <1>6, <1>7, TypeStep DEF Typed

LEMMA InitInv ==
  ASSUME Init
  PROVE  TypeOK /\ IInv
<1>1. PICK V : V = {0, 1, <<>>, <<EmptyRow>>, "draft", "published", Min(Selectable), <<Min(Starts)>>}
  OBVIOUS
<1>2. {0, <<>>, <<EmptyRow>>, "draft", "published"} \subseteq V
      /\ 1 \in V /\ Min(Selectable) \in V /\ <<Min(Starts)>> \in V
  BY <1>1
<1>3. /\ EmptyForm \in Forms(V) /\ NoEvent \in Copies(V) /\ NoJob \in Jobs(V)
      /\ NoJob.kind = "none" /\ NoJob.call = "none" /\ NoJob.res = "none" /\ NoJob.id = 0
  BY <1>2, EmptyTypes
<1>4. PICK new : new = Event(EmptyForm, <<Min(Starts)>>)
  OBVIOUS
<1>5. new \in Copies(V)
  BY <1>2, <1>4 DEF Event, EmptyForm, Copies
<1>6. OldEvent \in Copies(V)
  <2>1. OldEvent = [new EXCEPT !.text = 1, !.cat = Min(Selectable)]
    BY <1>4 DEF OldEvent
  <2> QED
    BY <1>2, <1>5, <2>1 DEF Copies
<1>7. PICK cats : cats = Job("cats", "cats")
  OBVIOUS
<1>8. cats \in Jobs(V) /\ cats.kind = "cats" /\ cats.call = "cats" /\ cats.res = "none" /\ cats.id = 0
  BY <1>2, <1>7, JobType DEF Kinds, Calls
<1>9. PICK load : load = Job("load", "load")
  OBVIOUS
<1>10. load \in Jobs(V) /\ load.kind = "load" /\ load.call = "load" /\ load.res = "none" /\ load.id = 0
  BY <1>2, <1>9, JobType DEF Kinds, Calls
<1>11. PICK job : job = IF page = "create" THEN cats ELSE IF token # 0 THEN load ELSE NoJob
  OBVIOUS
<1>12. job \in Jobs(V) /\ job.res = "none" /\ job.id = 0 /\ job.kind = job.call
       /\ job.kind \in (IF page = "create" THEN {"cats"} ELSE {"none", "load"})
  BY <1>3, <1>8, <1>10, <1>11
<1>13. jobs = [i \in Slots |-> IF i = 1 THEN job ELSE NoJob]
  BY <1>7, <1>9, <1>11 DEF Init
<1>14. \A i \in Slots : jobs[i] = IF i = 1 THEN job ELSE NoJob
  BY <1>13
<1>15. page \in {"create", "edit", "media"} /\ faults = 0 /\ ~bubbled /\ ~overlap
       /\ bubbled \in BOOLEAN /\ overlap \in BOOLEAN
       /\ form = EmptyForm /\ sent = EmptyForm /\ ui = InitialUi
       /\ events = (IF page = "create" THEN <<>> ELSE <<OldEvent>>)
  BY DEF Init
<1>16. ui \in Uis(V) /\ ui.id = 0 /\ ui.copy = NoEvent /\ ~ui.saved
  BY <1>3, <1>15 DEF InitialUi, Uis
<1>17. Typed(V)
  <2>1. events \in Seq(Copies(V))
    BY <1>6, <1>15
  <2>2. jobs \in [Slots -> Jobs(V)]
    BY <1>3, <1>12, <1>13
  <2>3. profile \in BOOLEAN
    BY DEF Init
  <2> QED
    BY <1>2, <1>3, <1>15, <1>16, <2>1, <2>2, <2>3 DEF Typed
<1>18. Shape
  <2>1. page # "create" => DOMAIN events = {1}
    BY <1>15
  <2>2. ASSUME NEW i \in Slots PROVE JobShape(jobs[i])
    <3>1. CASE i = 1
      BY <1>12, <1>14, <1>15, <3>1 DEF JobShape, PageKinds, CallOf, Files
    <3>2. CASE i # 1
      BY <1>3, <1>14, <1>15, <3>2 DEF JobShape, PageKinds, CallOf, Files
    <3> QED
      BY <3>1, <3>2
  <2> QED
    BY <1>16, <2>1, <2>2 DEF Shape
<1>19. \A i \in Slots : jobs[i].kind \in {"none", "cats", "load"} /\ jobs[i].res = "none"
                        /\ (i # 1 => jobs[i].kind = "none")
  BY <1>3, <1>12, <1>14
<1>20. OneForm
  <2> SUFFICES ASSUME page = "create"
               PROVE  /\ \A i \in Slots : jobs[i].kind # "prompt"
                      /\ Active({"create"}) = {} /\ Len(events) = 0
    BY <1>16 DEF OneForm
  <2> QED
    BY <1>15, <1>19 DEF Active
<1>21. SaveKnown
  <2>1. Active({"save"}) = {}
    BY <1>19 DEF Active
  <2> QED
    BY <1>16, <2>1 DEF SaveKnown
<1>22. CopyKnown
  <2>1. \A i \in Slots : ~Good(i)
    BY <1>19 DEF Good
  <2>2. \A K : Active(K) \subseteq Slots
    BY DEF Active
  <2>3. \A i, j \in Active(Readers) : i = j
    BY <1>19 DEF Active, Readers, Files
  <2> QED
    BY <1>16, <2>1, <2>2, <2>3 DEF CopyKnown
<1> QED
  BY <1>17, <1>18, <1>20, <1>21, <1>22 DEF TypeOK, IInv

LEMMA NextInv ==
  ASSUME TypeOK, IInv, [Next]_vars
  PROVE  TypeOK' /\ IInv'
<1>1. PICK V : Typed(V)
  BY DEF TypeOK
<1>2. CASE UNCHANGED vars
  <2>1. UNCHANGED <<page, profile, events, form, ui, jobs, sent, faults, bubbled, overlap>>
    BY <1>2 DEF vars, bounds, history
  <2>2. Typed(V)'
    BY <1>1, <2>1 DEF Typed
  <2>3. IInv'
    BY <2>1, QuietStep
  <2> QED
    BY <2>2, <2>3 DEF TypeOK
<1>3. ASSUME NEW i \in Slots, ServeCall(i) \/ LoseAnswer(i)
      PROVE  TypeOK' /\ IInv'
  BY <1>1, <1>3, ServeStep
<1>4. ASSUME NEW i \in Slots, Fail(i)
      PROVE  TypeOK' /\ IInv'
  BY <1>1, <1>4, FailStep, FailTyped
<1>5. ASSUME NEW i \in Slots, Answer(i)
      PROVE  TypeOK' /\ IInv'
  <2>1. TypeOK'
    BY <1>1, <1>5, AnswersTyped
  <2>2. IInv'
    BY <1>1, <1>5, AnswerCategoriesStep, AnswerLoadStep, AnswerCreateStep, AnswerPromptStep,
       AnswerPublishStep, AnswerUpdateStep, AnswerSessionsStep, AnswerSaveFailureStep, AnswerUploadStep
       DEF Answer
  <2> QED
    BY <2>1, <2>2
<1>6. CASE Fill
  BY <1>1, <1>6, FillStep, FillTyped
<1>7. CASE ObtainToken
  BY <1>1, <1>7, ObtainTokenStep, UserTyped
<1>8. CASE ClickCreate
  BY <1>1, <1>8, ClickCreateStep, UserTyped
<1>9. CASE SavePrompt
  BY <1>1, <1>9, SavePromptStep, UserTyped
<1>10. CASE HandlePublish
  BY <1>1, <1>10, HandlePublishStep, UserTyped
<1>11. CASE ClickSave
  BY <1>1, <1>11, ClickSaveStep, UserTyped
<1>12. ASSUME NEW file \in Files, Upload(file)
       PROVE  TypeOK' /\ IInv'
  BY <1>1, <1>12, UploadStep, UploadTyped
<1> QED
  BY <1>2, <1>3, <1>4, <1>5, <1>6, <1>7, <1>8, <1>9, <1>10, <1>11, <1>12 DEF Next

\* The page, the calls under way and the stored events always fit together: calls
\* are about events that exist, a save has stored what it reports, and a copy on
\* its way is as good as the event it was taken from.
THEOREM Invariance == Spec => [](TypeOK /\ IInv)
<1>1. Init => TypeOK /\ IInv
  BY InitInv
<1>2. TypeOK /\ IInv /\ [Next]_vars => (TypeOK /\ IInv)'
  BY NextInv
<1> QED
  BY <1>1, <1>2, PTL DEF Spec

\* Filling in the create form once makes one event, whatever the order of clicks,
\* answers and uploads, unless a call failed or the prompt submitted the form too
\* (submitEvent of create/page.tsx).
THEOREM OneSubmissionOneEvent == Spec => []OneEventPerForm
<1>1. TypeOK /\ IInv => OneEventPerForm
  <2> SUFFICES ASSUME TypeOK, IInv, Len(events) > 1, faults = 0, ~bubbled PROVE FALSE
    <3>1. TypeOK => faults \in Nat
      BY DEF TypeOK, Typed
    <3> QED
      BY <3>1 DEF OneEventPerForm
  <2>1. PICK V : Typed(V)
    BY DEF TypeOK
  <2>2. CASE page = "create"
    <3>1. Len(events) = 0 \/ Len(events) = 1
      BY <2>2 DEF IInv, OneForm
    <3> QED
      BY <2>1, <3>1, EventRows
  <2>3. CASE page # "create"
    <3>1. DOMAIN events = {1} /\ DOMAIN events = 1 .. Len(events) /\ Len(events) \in Nat
      BY <2>1, <2>3, EventRows DEF IInv, Shape
    <3>2. 2 \in 1 .. Len(events)
      BY <3>1
    <3> QED
      BY <3>1, <3>2
  <2> QED
    BY <2>2, <2>3
<1> QED
  BY <1>1, Invariance, PTL

\* The edit page says "saved" only when the server holds the fields and the sessions
\* that were submitted, although they travel in two calls either of which may fail
\* or lose its answer (handleSubmit of edit/page.tsx).
THEOREM SavedIsStored == Spec => []SavedMeansStored
<1>1. TypeOK /\ IInv => SavedMeansStored
  <2> SUFFICES ASSUME TypeOK, IInv, ui.saved PROVE FieldsStored /\ SessionsStored
    BY DEF SavedMeansStored, FieldsStored, SessionsStored
  <2> QED
    BY DEF IInv, SaveKnown
<1> QED
  BY <1>1, Invariance, PTL

\* With no call under way the page shows the files the event has, unless two calls
\* that answer with the event overlapped or a call failed (uploadBanner, uploadVideo
\* and the load of media/page.tsx and create/page.tsx).
THEOREM CopyStaysCurrent == Spec => []CopyIsCurrent
<1>1. TypeOK /\ IInv => CopyIsCurrent
  <2> SUFFICES ASSUME TypeOK, IInv, Rest, ui.copy # NoEvent, page # "edit", ~overlap, faults = 0
               PROVE  SameFiles(ui.copy, events[Target])
    <3>1. TypeOK => faults \in Nat
      BY DEF TypeOK, Typed
    <3> QED
      BY <3>1 DEF CopyIsCurrent, SameFiles, Target
  <2>1. Active(Files) = {}
    BY DEF Rest, Active, Files
  <2> QED
    BY <2>1 DEF IInv, CopyKnown
<1> QED
  BY <1>1, Invariance, PTL

-----------------------------------------------------------------------------
(***************************************************************************)
(* The edit form after a save: a second layer over IInv, on the edit page. *)
(***************************************************************************)
EditInv == RowsTyped /\ FormKnown

\* The calls of the edit page.
LEMMA EditCalls ==
  ASSUME NEW V, Typed(V), IInv, page = "edit", NEW i \in Slots
  PROVE  /\ jobs[i].kind \in {"none", "load", "save"}
         /\ jobs[i].kind = "load" => jobs[i].call = "load"
         /\ jobs[i].kind = "save" =>
              /\ ui.busy /\ ~ui.saved /\ jobs[i].call \in {"update", "sessions"}
              /\ jobs[i].res # "failed" => jobs[i].id = 1 /\ jobs[i].form = sent
<1>1. JobShape(jobs[i]) /\ (ui.saved => ~ui.busy)
  BY Facts
<1>2. /\ jobs[i].kind \in {"none", "load", "save"}
      /\ jobs[i].kind = "load" => jobs[i].call = "load"
      /\ jobs[i].kind = "save" => jobs[i].call \in {"update", "sessions"}
  BY <1>1 DEF JobShape, PageKinds, CallOf
<1>3. ASSUME jobs[i].kind = "save"
      PROVE  ui.busy /\ SaveGood(jobs[i])
  <2>1. i \in Active({"save"})
    BY <1>3 DEF Active
  <2> QED
    BY <2>1 DEF IInv, SaveKnown
<1> QED
  BY <1>1, <1>2, <1>3 DEF SaveGood

\* A form filled from the event shows it, if the server has sorted its sessions.
LEMMA LoadedShows ==
  ASSUME SessionsStored, sent.rows \in Seq(Nat), NEW e, e = events[1],
         NEW f, f.text = e.text, f.refund = e.refund, f.cat = e.cat, f.rows = e.sess
  PROVE  Shows(f, e)
<1>1. e.sess = Stored(SessionInputs(sent))
  BY DEF SessionsStored
<1>2. Stored(SessionInputs(f)) = e.sess
  BY <1>1, StoredTwice
<1> QED
  BY <1>2 DEF Shows

\* A step that leaves the form and the report alone and puts a job of the same kind
\* into a slot, or none, or a load where no save is under way that is not noted.
LEMMA EditJobStep ==
  ASSUME NEW V, Typed(V), EditInv, page = "edit",
         UNCHANGED <<page, events, form, sent>>, dirty' <=> dirty,
         NEW i \in Slots, NEW job, jobs' = [jobs EXCEPT ![i] = job],
         job.kind = "load" /\ job.res = "ok" => job.copy = events[1],
         ui'.saved => ui.saved,
         ~reread' => /\ ~reread /\ job.kind \in {"none", "load", jobs[i].kind}
                     /\ job.kind = "load" /\ jobs[i].kind # "load" =>
                          \A j \in Slots : jobs[j].kind # "save"
  PROVE  EditInv'
<1>1. jobs'[i] = job /\ \A j \in Slots \ {i} : jobs'[j] = jobs[j]
  BY Slotted
<1>2. /\ form.rows \in Seq(Nat) /\ sent.rows \in Seq(Nat) /\ events[1].sess \in Seq(Nat)
      /\ \A j \in Slots : jobs[j].kind = "load" /\ jobs[j].res = "ok" => jobs[j].copy.sess \in Seq(Nat)
  BY DEF EditInv, RowsTyped, Good
<1>3. RowsTyped'
  BY <1>1, <1>2 DEF RowsTyped, Good
<1>4. FormKnown'
  <2> SUFFICES ASSUME ~reread'
               PROVE  /\ \A j \in Slots : jobs'[j].kind = "save" =>
                            (dirty \/ form = sent) /\ \A k \in Slots : jobs'[k].kind # "load"
                      /\ ui'.saved => dirty \/ Shows(form, events[1])
                      /\ \A j \in Slots : ui'.saved /\ jobs'[j].kind = "load" /\ jobs'[j].res = "ok"
                                             => jobs'[j].copy = events[1]
    BY DEF FormKnown, Good, Shows
  <2>1. /\ \A j \in Slots : jobs[j].kind = "save" =>
               (dirty \/ form = sent) /\ \A k \in Slots : jobs[k].kind # "load"
        /\ ui.saved => dirty \/ Shows(form, events[1])
        /\ \A j \in Slots : ui.saved /\ jobs[j].kind = "load" /\ jobs[j].res = "ok"
                               => jobs[j].copy = events[1]
    BY DEF EditInv, FormKnown, Good
  <2>2. ASSUME NEW j \in Slots, jobs'[j].kind = "save"
        PROVE  (dirty \/ form = sent) /\ \A k \in Slots : jobs'[k].kind # "load"
    <3>1. jobs[j].kind = "save"
      BY <1>1, <2>2
    <3>2. dirty \/ form = sent
      BY <2>1, <3>1
    <3>3. \A k \in Slots : jobs[k].kind # "load"
      BY <2>1, <3>1
    <3>4. job.kind # "load"
      BY <3>1, <3>3
    <3> QED
      BY <1>1, <3>2, <3>3, <3>4
  <2>3. \A j \in Slots : ui'.saved /\ jobs'[j].kind = "load" /\ jobs'[j].res = "ok"
                            => jobs'[j].copy = events[1]
    BY <1>1, <2>1
  <2>4. ui'.saved => dirty \/ Shows(form, events[1])
    BY <2>1
  <2> QED
    BY <2>2, <2>3, <2>4
<1> QED
  BY <1>3, <1>4 DEF EditInv

\* A load fills the form.
LEMMA EditLoad ==
  ASSUME NEW V, Typed(V), IInv, EditInv, page = "edit", NEW i \in Slots, AnswerLoad(i)
  PROVE  EditInv'
<1>1. /\ jobs[i].kind = "load" /\ UNCHANGED <<page, events, sent, reread>>
      /\ jobs' = [jobs EXCEPT ![i] = NoJob]
  BY DEF AnswerLoad, Answered, Server, bounds, Ended, Put
<1>2. NoJob.kind = "none"
  BY EmptyTypes DEF Typed
<1>3. ui'.saved = ui.saved
  BY DEF AnswerLoad, Typed, Uis
<1>4. CASE ~Good(i)
  <2>1. form' = form /\ (dirty' <=> dirty)
    BY <1>4 DEF AnswerLoad
  <2> QED
    BY <1>1, <1>2, <1>3, <2>1, EditJobStep
<1>5. CASE Good(i)
  <2>1. PICK e : e = jobs[i].copy
    OBVIOUS
  <2>2. form' = [text |-> e.text, refund |-> e.refund, cat |-> e.cat, rows |-> e.sess]
    BY <1>5, <2>1 DEF AnswerLoad
  <2>3. form'.text = e.text /\ form'.refund = e.refund /\ form'.cat = e.cat /\ form'.rows = e.sess
    BY <2>2
  <2>4. /\ e.sess \in Seq(Nat) /\ sent.rows \in Seq(Nat) /\ events[1].sess \in Seq(Nat)
        /\ \A j \in Slots : jobs[j].kind = "load" /\ Good(j) => jobs[j].copy.sess \in Seq(Nat)
    BY <1>1, <1>5, <2>1 DEF EditInv, RowsTyped
  <2>5. jobs'[i] = NoJob /\ \A j \in Slots \ {i} : jobs'[j] = jobs[j]
    BY <1>1, Slotted
  <2>6. RowsTyped'
    BY <1>1, <1>2, <2>3, <2>4, <2>5 DEF RowsTyped, Good
  <2>7. ASSUME ~reread
        PROVE  /\ \A j \in Slots : jobs[j].kind # "save"
               /\ \A j \in Slots : ui.saved /\ jobs[j].kind = "load" /\ Good(j)
                                      => jobs[j].copy = events[1]
    BY <1>1, <2>7 DEF EditInv, FormKnown
  <2>8. ASSUME ~reread, ui.saved
        PROVE  Shows(form', events[1])
    <3>1. e = events[1]
      BY <1>1, <1>5, <2>1, <2>7, <2>8
    <3>2. SessionsStored
      BY <2>8, Facts
    <3> QED
      BY <2>3, <2>4, <3>1, <3>2, LoadedShows
  <2>9. FormKnown'
    <3>1. ~reread' => \A j \in Slots : jobs'[j].kind # "save"
      BY <1>1, <1>2, <2>5, <2>7
    <3>2. ~reread' /\ ui'.saved => Shows(form, events[1])'
      <4>1. ~reread' /\ ui'.saved => Shows(form', events[1])
        BY <1>1, <1>3, <2>8
      <4> QED
        BY <1>1, <4>1 DEF Shows
    <3>3. \A j \in Slots : ~reread' /\ ui'.saved /\ jobs'[j].kind = "load" /\ jobs'[j].res = "ok"
                              => jobs'[j].copy = events[1]
      BY <1>1, <1>2, <1>3, <2>5, <2>7 DEF Good
    <3> QED
      BY <1>1, <3>1, <3>2, <3>3 DEF FormKnown, Good
  <2> QED
    BY <2>6, <2>9 DEF EditInv
<1> QED
  BY <1>4, <1>5

\* A save is answered.
LEMMA EditSaveAnswered ==
  ASSUME NEW V, Typed(V), IInv, EditInv, page = "edit", NEW i \in Slots, SaveKnown',
         AnswerUpdate(i) \/ AnswerSessions(i) \/ AnswerSaveFailure(i)
  PROVE  EditInv'
<1>1. jobs[i].kind = "save" /\ UNCHANGED <<page, events, form, sent, dirty, reread>>
  BY DEF AnswerUpdate, AnswerSessions, AnswerSaveFailure, Answered, Server, history
<1>2. NoJob.kind = "none"
  BY EmptyTypes DEF Typed
<1>3. CASE AnswerUpdate(i)
  <2>1. PICK job : job = [jobs[i] EXCEPT !.call = "sessions", !.res = "none", !.copy = NoEvent]
    OBVIOUS
  <2>2. jobs' = [jobs EXCEPT ![i] = job] /\ ui' = ui
    BY <1>3, <2>1 DEF AnswerUpdate, Put
  <2>3. jobs[i] \in Jobs(V)
    BY DEF Typed
  <2>4. job.kind = "save"
    BY <1>1, <2>1, <2>3 DEF Jobs
  <2> QED
    BY <1>1, <2>2, <2>4, EditJobStep
<1>4. CASE AnswerSaveFailure(i)
  <2>1. jobs' = [jobs EXCEPT ![i] = NoJob]
    BY <1>4 DEF AnswerSaveFailure, Ended, Put
  <2>2. ui'.saved = ui.saved
    BY <1>4 DEF AnswerSaveFailure, Typed, Uis
  <2> QED
    BY <1>1, <1>2, <2>1, <2>2, EditJobStep
<1>5. CASE AnswerSessions(i)
  <2>1. jobs' = [jobs EXCEPT ![i] = NoJob]
    BY <1>5 DEF AnswerSessions, Ended, Put
  <2>2. ui'.saved
    BY <1>5 DEF AnswerSessions, Typed, Uis
  <2>3. jobs'[i] = NoJob /\ \A j \in Slots \ {i} : jobs'[j] = jobs[j]
    BY <2>1, Slotted
  <2>4. FieldsStored /\ SessionsStored
    <3>1. FieldsStored' /\ SessionsStored'
      BY <1>1, <2>2 DEF SaveKnown
    <3> QED
      BY <1>1, <3>1, StoredKept
  <2>5. ASSUME ~reread
        PROVE  (dirty \/ form = sent) /\ \A j \in Slots : jobs[j].kind # "load"
    BY <1>1, <2>5 DEF EditInv, FormKnown
  <2>6. ASSUME ~reread
        PROVE  dirty \/ Shows(form, events[1])
    <3>1. form = sent => Shows(form, events[1])
      BY <2>4 DEF FieldsStored, SessionsStored, Shows
    <3> QED
      BY <2>5, <2>6, <3>1
  <2>7. \A j \in Slots \ {i} : jobs[j].kind # "save"
    <3>1. \A j, k \in Active({"save"}) : j = k
      BY DEF IInv, SaveKnown
    <3> QED
      BY <1>1, <3>1 DEF Active
  <2>8. \A j \in Slots : jobs'[j].kind # "save" /\ (~reread => jobs'[j].kind # "load")
    BY <1>2, <2>3, <2>5, <2>7
  <2>9. RowsTyped'
    BY <1>1, <1>2, <2>3 DEF EditInv, RowsTyped, Good
  <2>10. FormKnown'
    BY <1>1, <2>6, <2>8 DEF FormKnown, Shows
  <2> QED
    BY <2>9, <2>10 DEF EditInv
<1> QED
  BY <1>3, <1>4, <1>5

\* The form is submitted.
LEMMA EditClickSave ==
  ASSUME NEW V, Typed(V), IInv, EditInv, ClickSave
  PROVE  EditInv'
<1>1. /\ page = "edit" /\ Free # {} /\ sent' = form /\ ~dirty' /\ UNCHANGED <<page, events, form>>
      /\ reread' = (Active({"load"}) # {})
      /\ jobs' = Started([Job("save", "update") EXCEPT !.form = form, !.id = 1])
  BY DEF ClickSave, Server
<1>2. ~ui'.saved
  BY DEF ClickSave, Typed, Uis
<1>3. PICK i \in Slots : i = Min(Free)
  BY <1>1, FreeSlot
<1>4. PICK new : new = Job("save", "update")
  OBVIOUS
<1>5. new \in Jobs(V) /\ new.kind = "save"
  BY <1>4, JobType DEF Typed, Kinds, Calls
<1>6. PICK job : job = [new EXCEPT !.form = form, !.id = 1]
  OBVIOUS
<1>7. job.kind = "save"
  BY <1>5, <1>6 DEF Jobs
<1>8. jobs' = [jobs EXCEPT ![i] = job]
  BY <1>1, <1>3, <1>4, <1>6 DEF Started, Put
<1>9. jobs'[i] = job /\ \A j \in Slots \ {i} : jobs'[j] = jobs[j]
  BY <1>8, Slotted
<1>10. RowsTyped'
  BY <1>1, <1>7, <1>9 DEF EditInv, RowsTyped, Good
<1>11. ~reread' => \A j \in Slots : jobs'[j].kind # "load"
  BY <1>1, <1>7, <1>9 DEF Active
<1>12. FormKnown'
  BY <1>1, <1>2, <1>11 DEF FormKnown
<1> QED
  BY <1>10, <1>12 DEF EditInv

\* A renewed token loads the event again.
LEMMA EditToken ==
  ASSUME NEW V, Typed(V), IInv, EditInv, page = "edit", ObtainToken
  PROVE  EditInv'
<1>1. /\ Free # {} /\ UNCHANGED <<page, events, form, sent, dirty, ui>>
      /\ reread' = (reread \/ Active({"save"}) # {})
      /\ jobs' = Started(Job("load", "load"))
  BY DEF ObtainToken, Server, bounds
<1>2. PICK i \in Slots : i = Min(Free)
  BY <1>1, FreeSlot
<1>3. PICK job : job = Job("load", "load")
  OBVIOUS
<1>4. job.kind = "load" /\ job.res = "none"
  BY <1>3, JobType DEF Typed, Kinds, Calls
<1>5. jobs' = [jobs EXCEPT ![i] = job]
  BY <1>1, <1>2, <1>3 DEF Started, Put
<1>6. ~reread' => ~reread /\ \A j \in Slots : jobs[j].kind # "save"
  BY <1>1 DEF Active
<1> QED
  BY <1>1, <1>4, <1>5, <1>6, EditJobStep

\* The user edits the form.
LEMMA EditFill ==
  ASSUME NEW V, Typed(V), EditInv, page = "edit", Fill
  PROVE  EditInv'
<1>1. /\ form.rows \in Seq(Nat) /\ sent.rows \in Seq(Nat) /\ events[1].sess \in Seq(Nat)
      /\ \A j \in Slots : jobs[j].kind = "load" /\ jobs[j].res = "ok" => jobs[j].copy.sess \in Seq(Nat)
  BY DEF EditInv, RowsTyped, Good
<1>2. Starts \cup {EmptyRow} \subseteq Nat
  BY ConstantsAssumption DEF EmptyRow
<1>3. DOMAIN form.rows = 1 .. Len(form.rows) /\ Len(form.rows) \in Nat
  BY <1>1, LenProperties
<1>4. PICK f : Edit(f) /\ f.rows \in Seq(Nat)
  <2>1. CASE \E t \in Texts \ {0} : EditText(t) \/ EditRefund(t - 1)
    <3>1. PICK f : Edit(f) /\ \E x : f = [form EXCEPT !.text = x] \/ f = [form EXCEPT !.refund = x]
      BY <2>1 DEF EditText, EditRefund
    <3>2. f.rows = form.rows
      BY <3>1 DEF Typed, Forms
    <3> QED
      BY <1>1, <3>1, <3>2
  <2>2. CASE \E c \in Selectable \cup {0} : SelectCategory(c)
    <3>1. PICK f : Edit(f) /\ \E x : f = [form EXCEPT !.cat = x]
      BY <2>2 DEF SelectCategory
    <3>2. f.rows = form.rows
      BY <3>1 DEF Typed, Forms
    <3> QED
      BY <1>1, <3>1, <3>2
  <2>3. ASSUME NEW x \in Seq(Nat), Edit([form EXCEPT !.rows = x])
        PROVE  \E f : Edit(f) /\ f.rows \in Seq(Nat)
    <3>1. [form EXCEPT !.rows = x].rows = x
      BY DEF Typed, Forms
    <3> QED
      BY <2>3, <3>1
  <2>4. CASE AddSession
    <3>1. PICK x : x = Append(form.rows, EmptyRow)
      OBVIOUS
    <3>2. x \in Seq(Nat)
      BY <1>1, <1>2, <3>1, AppendProperties
    <3>3. Edit([form EXCEPT !.rows = x])
      <4>1. [form EXCEPT !.rows = Append(@, EmptyRow)] = [form EXCEPT !.rows = x]
        BY <3>1 DEF Typed, Forms
      <4> QED
        BY <2>4, <4>1 DEF AddSession
    <3> QED
      BY <2>3, <3>2, <3>3
  <2>5. ASSUME NEW k \in DOMAIN form.rows, RemoveSession(k)
        PROVE  \E f : Edit(f) /\ f.rows \in Seq(Nat)
    <3>1. PICK a, b : /\ a = SubSeq(form.rows, 1, k - 1)
                      /\ b = SubSeq(form.rows, k + 1, Len(form.rows))
      OBVIOUS
    <3>2. k \in 1 .. Len(form.rows) /\ \A m \in 1 .. Len(form.rows) : form.rows[m] \in Nat
      BY <1>1, <1>3, ElementOfSeq
    <3>3. a \in Seq(Nat)
      <4>1. \A m \in 1 .. (k - 1) : form.rows[m] \in Nat
        BY <1>3, <3>2
      <4>2. 1 \in Int /\ k - 1 \in Int
        BY <1>3, <3>2
      <4> QED
        BY <3>1, <4>1, <4>2, SubSeqProperties
    <3>4. b \in Seq(Nat)
      <4>1. \A m \in (k + 1) .. Len(form.rows) : form.rows[m] \in Nat
        BY <1>3, <3>2
      <4>2. k + 1 \in Int /\ Len(form.rows) \in Int
        BY <1>3, <3>2
      <4> QED
        BY <3>1, <4>1, <4>2, SubSeqProperties
    <3>5. PICK x : x = a \o b
      OBVIOUS
    <3>6. x \in Seq(Nat)
      BY <3>3, <3>4, <3>5, ConcatProperties
    <3>7. Edit([form EXCEPT !.rows = x])
      <4>1. [form EXCEPT !.rows = SubSeq(@, 1, k - 1) \o SubSeq(@, k + 1, Len(@))]
              = [form EXCEPT !.rows = x]
        BY <3>1, <3>5 DEF Typed, Forms
      <4> QED
        BY <2>5, <4>1 DEF RemoveSession
    <3> QED
      BY <2>3, <3>6, <3>7
  <2>6. ASSUME NEW k \in DOMAIN form.rows, NEW s \in Starts \cup {EmptyRow}, UpdateSession(k, s)
        PROVE  \E f : Edit(f) /\ f.rows \in Seq(Nat)
    <3>1. PICK x : x = [form.rows EXCEPT ![k] = s]
      OBVIOUS
    <3>2. x \in Seq(Nat)
      BY <1>1, <1>2, <1>3, <3>1, ExceptSeq
    <3>3. [form EXCEPT !.rows[k] = s] = [form EXCEPT !.rows = x]
      BY <3>1 DEF Typed, Forms
    <3> QED
      BY <2>3, <2>6, <3>2, <3>3 DEF UpdateSession
  <2> QED
    BY <2>1, <2>2, <2>4, <2>5, <2>6 DEF Fill
<1>5. form' = f /\ dirty' /\ UNCHANGED <<page, events, jobs, sent, ui, reread>>
  BY <1>4 DEF Edit, Server
<1>6. RowsTyped'
  BY <1>1, <1>4, <1>5 DEF RowsTyped, Good
<1>7. FormKnown'
  BY <1>5 DEF EditInv, FormKnown, Good
<1> QED
  BY <1>6, <1>7 DEF EditInv

\* A call is executed; its answer arrives or is lost.
LEMMA EditServe ==
  ASSUME NEW V, Typed(V), IInv, EditInv, page = "edit", NEW i \in Slots,
         ServeCall(i) \/ LoseAnswer(i)
  PROVE  EditInv'
<1>1. UNCHANGED <<page, form, sent, dirty, reread, ui>>
  BY DEF ServeCall, LoseAnswer, Serve, history
<1>2. PICK W, out : \E new \in Jobs(W) :
        /\ Typed(W) /\ out.copy \in Copies(W) /\ Served(i, jobs[i], out, new)
        /\ UNCHANGED form
  BY Serving
<1>3. PICK new \in Jobs(W) :
        Typed(W) /\ out.copy \in Copies(W) /\ Served(i, jobs[i], out, new)
  BY <1>2
<1>4. PICK job : job = jobs[i]
  OBVIOUS
<1>5. /\ events' = out.events /\ jobs' = [jobs EXCEPT ![i] = new]
      /\ new.kind = job.kind /\ job.kind # "none" /\ job.res = "none"
      /\ new.res = "failed" \/ (new.res = out.res /\ new.copy = out.copy)
      /\ \/ Untouched(job, out) \/ Created(job, out)
         \/ Rewritten(job, out) \/ ReadBack(job, out)
  BY <1>3, <1>4 DEF Served
<1>6. /\ job.kind \in {"load", "save"}
      /\ job.kind = "load" => job.call = "load"
      /\ job.kind = "save" =>
           ~ui.saved /\ job.call \in {"update", "sessions"} /\ job.id = 1 /\ job.form = sent
  BY <1>4, <1>5, EditCalls
<1>7. ~Created(job, out)
  BY <1>6 DEF Created
<1>8. CASE Untouched(job, out)
  <2>1. events' = events /\ new.res # "ok"
    BY <1>5, <1>6, <1>8 DEF Untouched
  <2> QED
    BY <1>1, <1>4, <1>5, <2>1, EditJobStep
<1>9. CASE ReadBack(job, out)
  <2>1. events' = events /\ (new.res = "ok" => new.copy = events[1])
    BY <1>5, <1>9 DEF ReadBack
  <2> QED
    BY <1>1, <1>4, <1>5, <2>1, EditJobStep
<1>10. CASE Rewritten(job, out)
  <2>1. /\ job.kind = "save" /\ 1 \in DOMAIN events
        /\ \/ out.copy.sess = events[1].sess
           \/ out.copy.sess = Stored(SessionInputs(sent))
    BY <1>6, <1>10 DEF Rewritten, Files
  <2>2. events'[1] = out.copy
    <3>1. \A k \in DOMAIN events : out.events[k] = IF k = job.id THEN out.copy ELSE events[k]
      BY <1>3, <1>10, EventsAfter
    <3> QED
      BY <1>5, <1>6, <2>1, <3>1
  <2>3. /\ form.rows \in Seq(Nat) /\ sent.rows \in Seq(Nat) /\ events[1].sess \in Seq(Nat)
        /\ \A j \in Slots : jobs[j].kind = "load" /\ jobs[j].res = "ok"
                               => jobs[j].copy.sess \in Seq(Nat)
    BY DEF EditInv, RowsTyped, Good
  <2>4. events'[1].sess \in Seq(Nat)
    <3>1. Stored(SessionInputs(sent)) \in Seq(Nat)
      BY <2>3, InputsStart
    <3> QED
      BY <2>1, <2>2, <2>3, <3>1
  <2>5. jobs'[i] = new /\ \A j \in Slots \ {i} : jobs'[j] = jobs[j]
    BY <1>5, Slotted
  <2>6. new.kind = "save" /\ jobs[i].kind = "save" /\ ~ui'.saved
    BY <1>1, <1>4, <1>5, <1>6, <2>1
  <2>7. RowsTyped'
    BY <1>1, <2>3, <2>4, <2>5, <2>6 DEF RowsTyped, Good
  <2>8. ~reread => /\ dirty \/ form = sent
                   /\ \A j \in Slots : jobs[j].kind # "load"
    BY <2>6 DEF EditInv, FormKnown
  <2>9. ~reread' => (dirty' \/ form' = sent') /\ \A j \in Slots : jobs'[j].kind # "load"
    BY <1>1, <2>5, <2>6, <2>8
  <2>10. FormKnown'
    BY <2>6, <2>9 DEF FormKnown
  <2> QED
    BY <2>7, <2>10 DEF EditInv
<1> QED
  BY <1>5, <1>7, <1>8, <1>9, <1>10

\* A call fails.
LEMMA EditFail ==
  ASSUME NEW V, Typed(V), EditInv, page = "edit", NEW i \in Slots, Fail(i)
  PROVE  EditInv'
<1>1. /\ UNCHANGED <<page, events, form, sent, dirty, reread, ui>>
      /\ jobs' = [jobs EXCEPT ![i] = [NoJob EXCEPT !.kind = jobs[i].kind, !.call = jobs[i].call,
                                                   !.res = "failed"]]
  BY DEF Fail, history, Put
<1>2. PICK new : new = [NoJob EXCEPT !.kind = jobs[i].kind, !.call = jobs[i].call, !.res = "failed"]
  OBVIOUS
<1>3. new.kind = jobs[i].kind /\ new.res = "failed"
  <2>1. NoJob \in Jobs(V)
    BY EmptyTypes DEF Typed
  <2> QED
    BY <1>2, <2>1 DEF Jobs
<1>4. jobs' = [jobs EXCEPT ![i] = new]
  BY <1>1, <1>2
<1> QED
  BY <1>1, <1>3, <1>4, EditJobStep

LEMMA EditNext ==
  ASSUME TypeOK, IInv, IInv', EditInv, [Next]_vars
  PROVE  EditInv'
<1>1. PICK V : Typed(V)
  BY DEF TypeOK
<1>2. CASE UNCHANGED vars
  <2>1. UNCHANGED <<page, events, form, ui, jobs, sent, dirty, reread>>
    BY <1>2 DEF vars, history
  <2> QED
    BY <2>1 DEF EditInv, RowsTyped, FormKnown, Good, Shows
<1>3. CASE Next /\ page # "edit"
  <2>1. page' = page
    <3>1. ASSUME NEW i \in Slots, ServeCall(i) \/ LoseAnswer(i) \/ Fail(i) \/ Answer(i)
          PROVE  page' = page
      BY <3>1 DEF ServeCall, LoseAnswer, Serve, Fail, Answer, AnswerCategories, AnswerLoad,
         AnswerCreate, AnswerPrompt, AnswerPublish, AnswerUpdate, AnswerSessions,
         AnswerSaveFailure, AnswerUpload
    <3>2. Fill => page' = page
      BY DEF Fill, EditText, EditRefund, SelectCategory, AddSession, RemoveSession, UpdateSession, Edit
    <3>3. ObtainToken \/ ClickCreate \/ SavePrompt \/ HandlePublish \/ ClickSave => page' = page
      BY DEF ObtainToken, ClickCreate, SavePrompt, HandlePublish, ClickSave
    <3>4. (\E file \in Files : Upload(file)) => page' = page
      BY DEF Upload
    <3> QED
      BY <1>3, <3>1, <3>2, <3>3, <3>4 DEF Next
  <2> QED
    BY <1>3, <2>1 DEF EditInv, RowsTyped, FormKnown
<1>4. CASE Next /\ page = "edit"
  <2>1. ASSUME NEW i \in Slots, ServeCall(i) \/ LoseAnswer(i)
        PROVE  EditInv'
    BY <1>1, <1>4, <2>1, EditServe
  <2>2. ASSUME NEW i \in Slots, Fail(i)
        PROVE  EditInv'
    BY <1>1, <1>4, <2>2, EditFail
  <2>3. ASSUME NEW i \in Slots, Answer(i)
        PROVE  EditInv'
    <3>1. jobs[i].kind \in {"none", "load", "save"}
      BY <1>1, <1>4, EditCalls
    <3>2. \/ AnswerLoad(i)
          \/ AnswerUpdate(i) \/ AnswerSessions(i) \/ AnswerSaveFailure(i)
      BY <2>3, <3>1 DEF Answer, AnswerCategories, AnswerCreate, AnswerPrompt, AnswerPublish,
         AnswerUpload, Answered, Files
    <3>3. SaveKnown'
      BY DEF IInv
    <3> QED
      BY <1>1, <1>4, <3>2, <3>3, EditLoad, EditSaveAnswered
  <2>4. CASE Fill
    BY <1>1, <1>4, <2>4, EditFill
  <2>5. CASE ObtainToken
    BY <1>1, <1>4, <2>5, EditToken
  <2>6. CASE ClickSave
    BY <1>1, <2>6, EditClickSave
  <2>7. ~ClickCreate /\ ~SavePrompt
    BY <1>4 DEF ClickCreate, SavePrompt
  <2>8. View # "created"
    BY <1>4 DEF View
  <2>9. ~HandlePublish /\ \A file \in Files : ~Upload(file)
    BY <1>4, <2>8 DEF HandlePublish, Upload
  <2> QED
    BY <1>4, <2>1, <2>2, <2>3, <2>4, <2>5, <2>6, <2>7, <2>9 DEF Next
<1> QED
  BY <1>2, <1>3, <1>4

LEMMA EditInit ==
  ASSUME Init
  PROVE  EditInv
<1>1. /\ form = EmptyForm /\ sent = EmptyForm /\ ui = InitialUi
      /\ page # "create" => events = <<OldEvent>>
  BY DEF Init
<1>2. EmptyForm.rows \in Seq(Nat)
  BY DEF EmptyForm, EmptyRow
<1>3. OldEvent.sess \in Seq(Nat)
  <2>1. PICK first : first = Min(Starts)
    OBVIOUS
  <2>2. first \in Nat
    BY <2>1, MinInSet, ConstantsAssumption
  <2>3. OldEvent.sess = <<first>>
    BY <2>1 DEF OldEvent, Event
  <2> QED
    BY <2>2, <2>3
<1>4. \A i \in Slots : jobs[i].kind # "save" /\ jobs[i].res = "none"
  <2>1. PICK V : V = {0, <<>>, <<EmptyRow>>, "draft", "published"}
    OBVIOUS
  <2>2. NoJob.kind = "none" /\ NoJob.res = "none"
    BY <2>1, EmptyTypes
  <2>3. /\ Job("cats", "cats").kind = "cats" /\ Job("cats", "cats").res = "none"
        /\ Job("load", "load").kind = "load" /\ Job("load", "load").res = "none"
    BY <2>1, JobType DEF Kinds, Calls
  <2> QED
    BY <2>2, <2>3 DEF Init
<1>5. ~ui.saved
  BY <1>1 DEF InitialUi
<1>6. page = "edit" => events[1] = OldEvent
  BY <1>1
<1>7. RowsTyped
  BY <1>1, <1>2, <1>3, <1>4, <1>6 DEF RowsTyped, Good
<1>8. FormKnown
  BY <1>4, <1>5 DEF FormKnown
<1> QED
  BY <1>7, <1>8 DEF EditInv

\* After a save the edit form shows the event as the server holds it: the fields, and
\* in the order of their start the sessions. A form that was edited since is excused,
\* and one that a load, begun before the save had ended, may have overwritten
\* (handleSubmit and loadEvent of edit/page.tsx).
THEOREM SavedFormStaysCurrent == Spec => []SavedFormIsCurrent
<1>1. Init => EditInv
  BY EditInit
<1>2. (TypeOK /\ IInv) /\ (TypeOK /\ IInv)' /\ EditInv /\ [Next]_vars => EditInv'
  BY EditNext
<1>3. TypeOK /\ IInv /\ EditInv => SavedFormIsCurrent
  <2> SUFFICES ASSUME TypeOK, IInv, EditInv, ui.saved, ~reread, ~dirty
               PROVE  Shows(form, events[1])
    BY DEF SavedFormIsCurrent
  <2>1. page = "edit"
    BY DEF IInv, SaveKnown
  <2> QED
    BY <2>1 DEF EditInv, FormKnown
<1> QED
  BY <1>1, <1>2, <1>3, Invariance, PTL DEF Spec
=============================================================================
