----------------------- MODULE NotificationWorkerProofs -----------------------
(***************************************************************************)
(* Proofs about NotificationWorker for any number of workers, rows and     *)
(* faults.  Core says what a worker remembers and how many may be inside a *)
(* job; on top of it, the two balances count what those faults may cost    *)
(* that make a job forget what it has done.                                *)
(***************************************************************************)
EXTENDS NotificationWorker, SequenceTheorems, TLAPS, FiniteSetTheorems

-----------------------------------------------------------------------------
(* Counting workers *)

One(P) == IF P THEN 1 ELSE 0

\* Two sets that differ in one worker at most.
LEMMA CardinalityChange ==
  ASSUME NEW S, NEW T, NEW x, IsFiniteSet(S), S \ {x} = T \ {x}
  PROVE  /\ IsFiniteSet(T)
         /\ Cardinality(S) \in Nat /\ Cardinality(T) \in Nat
         /\ Cardinality(T) = Cardinality(S) + One(x \in T) - One(x \in S)
<1>1. /\ IsFiniteSet(S \ {x}) /\ Cardinality(S) \in Nat
      /\ Cardinality(S \ {x}) = Cardinality(S) - One(x \in S)
  BY FS_RemoveElement, FS_CardinalityType DEF One
<1>2. /\ IsFiniteSet((S \ {x}) \cup {x})
      /\ Cardinality((S \ {x}) \cup {x}) = Cardinality(S \ {x}) + 1
      /\ Cardinality(S \ {x}) \in Nat
  BY <1>1, FS_AddElement, FS_CardinalityType
<1>3. CASE x \in T
  <2>1. T = (S \ {x}) \cup {x}
    BY <1>3
  <2> QED
    BY <1>1, <1>2, <1>3, <2>1 DEF One
<1>4. CASE x \notin T
  <2>1. T = S \ {x}
    BY <1>4
  <2> QED
    BY <1>1, <1>2, <1>4, <2>1 DEF One
<1> QED
  BY <1>3, <1>4

\* Two disjoint parts of a finite set.
LEMMA CardinalityParts ==
  ASSUME NEW S, NEW A, NEW B, IsFiniteSet(S), A \subseteq S, B \subseteq S, A \cap B = {}
  PROVE  /\ IsFiniteSet(A) /\ IsFiniteSet(B)
         /\ Cardinality(A) \in Nat /\ Cardinality(B) \in Nat /\ Cardinality(S) \in Nat
         /\ Cardinality(A) + Cardinality(B) <= Cardinality(S)
<1>1. IsFiniteSet(A) /\ IsFiniteSet(B)
  BY FS_Subset
<1>2. Cardinality(A) \in Nat /\ Cardinality(B) \in Nat /\ Cardinality(S) \in Nat
  BY <1>1, FS_CardinalityType
<1>3. Cardinality(A \cup B) = Cardinality(A) + Cardinality(B)
  BY <1>1, <1>2, FS_Union, FS_EmptySet
<1>4. Cardinality(A \cup B) <= Cardinality(S)
  BY FS_Subset, A \cup B \in SUBSET S
<1> QED
  BY <1>1, <1>2, <1>3, <1>4

\* In a set with at most one member, all members are the same.
LEMMA CardinalityOne ==
  ASSUME NEW S, NEW x \in S, NEW y \in S, IsFiniteSet(S), Cardinality(S) <= 1
  PROVE  x = y
<1> SUFFICES ASSUME x # y PROVE FALSE
  OBVIOUS
<1>1. {x} \cap {y} = {}
  OBVIOUS
<1>2. Cardinality({x}) + Cardinality({y}) <= Cardinality(S) /\ Cardinality(S) \in Nat
  BY <1>1, CardinalityParts
<1>3. Cardinality({x}) = 1 /\ Cardinality({y}) = 1
  BY FS_Singleton
<1> QED
  BY <1>2, <1>3

-----------------------------------------------------------------------------
(* What steps have in common *)

\* Rows are never deleted, settled rows stay settled, and a row keeps its
\* registration and its template.
RowsKept ==
  /\ DOMAIN outbox \subseteq DOMAIN outbox'
  /\ \A i \in DOMAIN outbox :
       /\ outbox[i].status # "pending" => outbox'[i].status # "pending"
       /\ outbox'[i].reg = outbox[i].reg
       /\ outbox'[i].template = outbox[i].template
       /\ accepted'[i] >= accepted[i]

RedoGrows == redo' \in [Jobs -> Nat] /\ \A j \in Jobs : redo'[j] >= redo[j]

\* Nothing changes for a worker.
Same(v) == pc'[v] = pc[v] /\ todo'[v] = todo[v] /\ cur'[v] = cur[v]
Others(w) == \A v \in Workers \ {w} : Same(v)

LEMMA HoldsStays ==
  ASSUME Core, TypeOK', Aligned', RowsKept, NEW v \in Workers, Same(v)
  PROVE  Holds(v)'
<1>1. Holds(v)
  BY DEF Core, WorkersHold
<1>2. /\ todo[v].rows \subseteq DOMAIN outbox
      /\ pc[v]["dispatch"] \in Sending => cur[v].id \in DOMAIN outbox
  BY <1>1 DEF Holds
<1>3. \A i \in DOMAIN outbox : accepted[i] \in Nat /\ accepted'[i] \in Nat
  BY DEF Core, TypeOK, Aligned, RowsKept
<1> QED
  BY <1>1, <1>2, <1>3 DEF Holds, RowsKept, Same

LEMMA NothingType == Nothing \in Loaded /\ NoWork \in [rows : SUBSET Nat, regs : SUBSET Regs, mark : SUBSET Regs]
BY DEF Nothing, Loaded, NotificationStatus, NoWork

\* A worker moves within a job.
LEMMA PcStep ==
  ASSUME TypeOK, NEW w \in Workers, NEW j \in Jobs, NEW p \in PC,
         pc' = [pc EXCEPT ![w][j] = p]
  PROVE  /\ pc' \in [Workers -> [Jobs -> PC]]
         /\ pc'[w][j] = p
         /\ \A k \in Jobs \ {j} : pc'[w][k] = pc[w][k]
         /\ \A v \in Workers \ {w} : pc'[v] = pc[v]
BY DEF TypeOK

\* Locks and the number of workers inside are as before.
LEMMA LocksStay ==
  ASSUME Core, RedoGrows, causes \subseteq causes',
         lock' = lock, \A j \in Jobs : Inside(j)' = Inside(j)
  PROVE  LocksCounted'
<1> SUFFICES ASSUME NEW j \in Jobs
             PROVE  /\ IsFiniteSet(Inside(j)')
                    /\ Entitled(j)' <= 1 + redo'[j]
                    /\ j \notin causes' => Entitled(j)' <= 1
  BY DEF LocksCounted
<1>1. /\ IsFiniteSet(Inside(j))
      /\ Entitled(j) <= 1 + redo[j]
      /\ j \notin causes => Entitled(j) <= 1
      /\ redo[j] \in Nat /\ redo'[j] \in Nat /\ redo'[j] >= redo[j]
  BY DEF Core, LocksCounted, TypeOK, RedoGrows
<1>2. Entitled(j)' = Entitled(j) /\ Entitled(j) \in Nat
  BY <1>1, FS_CardinalityType DEF Entitled
<1>3. Inside(j)' = Inside(j)
  OBVIOUS
<1> QED
  BY <1>1, <1>2, <1>3

\* A worker moves within a job it stays in.
LEMMA InsideStays ==
  ASSUME TypeOK, NEW w \in Workers, NEW j \in Jobs, NEW p \in PC, p # "idle",
         pc[w][j] # "idle", pc' = [pc EXCEPT ![w][j] = p]
  PROVE  \A k \in Jobs : Inside(k)' = Inside(k)
<1>1. \A v \in Workers, k \in Jobs : pc'[v][k] # "idle" <=> pc[v][k] # "idle"
  BY PcStep
<1> QED
  BY <1>1 DEF Inside

-----------------------------------------------------------------------------
(* Core *)

LEMMA InitCore == Init => Core
<1> SUFFICES ASSUME Init PROVE Core
  OBVIOUS
<1>1. TypeOK /\ Aligned
  BY NothingType DEF Init, TypeOK, Aligned, Jobs, PC, FaultKinds
<1>2. WorkersHold
  BY DEF Init, WorkersHold, Holds, Sending, NoWork, Jobs
<1>3. \A j \in Jobs : Inside(j) = {} /\ ~ lock[j]
  BY DEF Init, Inside
<1>4. \A j \in Jobs : IsFiniteSet(Inside(j)) /\ Entitled(j) = 1
  BY <1>3, FS_EmptySet DEF Entitled
<1>5. \A j \in Jobs : redo[j] = 0
  BY DEF Init
<1>6. LocksCounted
  BY <1>4, <1>5 DEF LocksCounted
<1> QED
  BY <1>1, <1>2, <1>6 DEF Core

\* Only locks and the places of workers change, and nobody inside a job moves on.
LEMMA LockMoveCore ==
  ASSUME Core, UNCHANGED <<tables, todo, cur, accepted>>,
         TypeOK', \A j \in Jobs : redo'[j] = 0 => j \notin causes', LocksCounted',
         \A v \in Workers, j \in Jobs :
           \/ pc'[v][j] = pc[v][j]
           \/ {pc[v][j], pc'[v][j]} \subseteq {"idle", "select", "release"}
  PROVE  Core'
<1>1. UNCHANGED <<outbox, reminded, todo, cur, accepted>>
  BY DEF tables
<1>2. Aligned'
  BY <1>1 DEF Core, Aligned
<1>3. ASSUME NEW v \in Workers PROVE Holds(v)'
  <2>1. Holds(v)
    BY DEF Core, WorkersHold
  <2>2. \/ pc'[v]["dispatch"] = pc[v]["dispatch"]
        \/ {pc[v]["dispatch"], pc'[v]["dispatch"]} \subseteq {"idle", "select", "release"}
    BY DEF Jobs
  <2>3. \/ pc'[v]["scan"] = pc[v]["scan"]
        \/ {pc[v]["scan"], pc'[v]["scan"]} \subseteq {"idle", "select", "release"}
    BY DEF Jobs
  <2> QED
    BY <1>1, <2>1, <2>2, <2>3 DEF Holds, Sending
<1> QED
  BY <1>2, <1>3 DEF Core, WorkersHold

\* A worker enters or leaves a job and takes or gives back the lock.
LEMMA EnterLeave ==
  ASSUME Core, NEW w \in Workers, NEW j \in Jobs, NEW p \in PC,
         NEW b \in BOOLEAN, pc' = [pc EXCEPT ![w][j] = p],
         lock' = [lock EXCEPT ![j] = b], UNCHANGED <<faults, causes, redo>>,
         \/ ~ lock[j] /\ b /\ pc[w][j] = "idle" /\ p # "idle"
         \/ ~ b /\ pc[w][j] # "idle" /\ p = "idle"
  PROVE  /\ LocksCounted'
         /\ \A k \in Jobs : Entitled(k) \in Nat /\ Entitled(k)' \in Nat /\ Entitled(k)' <= Entitled(k)
<1>0. TypeOK /\ LocksCounted
  BY DEF Core
<1>1. /\ pc'[w][j] = p
      /\ \A k \in Jobs \ {j} : pc'[w][k] = pc[w][k]
      /\ \A v \in Workers \ {w} : pc'[v] = pc[v]
  BY <1>0, PcStep
<1>2. lock'[j] = b /\ \A k \in Jobs \ {j} : lock'[k] = lock[k]
  BY <1>0 DEF TypeOK
<1>3. ASSUME NEW k \in Jobs
      PROVE  /\ IsFiniteSet(Inside(k)')
             /\ Entitled(k) \in Nat /\ Entitled(k)' \in Nat /\ Entitled(k)' <= Entitled(k)
  <2>1. IsFiniteSet(Inside(k))
    BY <1>0 DEF LocksCounted
  <2>2. CASE k # j
    <3>1. Inside(k)' = Inside(k) /\ lock'[k] = lock[k]
      BY <1>1, <1>2, <2>2 DEF Inside
    <3> QED
      BY <2>1, <3>1, FS_CardinalityType DEF Entitled
  <2>3. CASE k = j
    <3>1. Inside(j) \ {w} = Inside(j)' \ {w}
      BY <1>1 DEF Inside
    <3>2. /\ IsFiniteSet(Inside(j)')
          /\ Cardinality(Inside(j)) \in Nat /\ Cardinality(Inside(j)') \in Nat
          /\ Cardinality(Inside(j)') = Cardinality(Inside(j)) + One(w \in Inside(j)') - One(w \in Inside(j))
      BY <2>1, <2>3, <3>1, CardinalityChange
    <3>3. (w \in Inside(j)' <=> p # "idle") /\ (w \in Inside(j) <=> pc[w][j] # "idle")
      BY <1>1 DEF Inside
    <3> QED
      BY <1>2, <2>3, <3>2, <3>3 DEF Entitled, One
  <2> QED
    BY <2>2, <2>3
<1>4. LocksCounted'
  <2> SUFFICES ASSUME NEW k \in Jobs
               PROVE  /\ Entitled(k)' <= 1 + redo[k]
                      /\ k \notin causes => Entitled(k)' <= 1
    BY <1>3 DEF LocksCounted
  <2>1. /\ Entitled(k) <= 1 + redo[k] /\ redo[k] \in Nat
        /\ k \notin causes => Entitled(k) <= 1
    BY <1>0 DEF LocksCounted, TypeOK
  <2> QED
    BY <1>3, <2>1
<1> QED
  BY <1>3, <1>4

LEMMA AcquireCore ==
  ASSUME Core, NEW w \in Workers, NEW j \in Jobs, Acquire(w, j)
  PROVE  Core'
<1>0. TypeOK /\ Aligned
  BY DEF Core
<1>1. /\ ~ lock[j] /\ pc[w][j] = "idle" /\ pc' = [pc EXCEPT ![w][j] = "select"]
      /\ lock' = [lock EXCEPT ![j] = TRUE]
      /\ UNCHANGED <<tables, window, todo, cur, accepted, faults, causes, redo>>
  BY DEF Acquire, Goto
<1>2. "select" \in PC
  BY DEF PC
<1>3. /\ pc' \in [Workers -> [Jobs -> PC]]
      /\ pc'[w][j] = "select"
      /\ \A k \in Jobs \ {j} : pc'[w][k] = pc[w][k]
      /\ \A v \in Workers \ {w} : pc'[v] = pc[v]
  BY <1>0, <1>1, <1>2, PcStep
<1>4. LocksCounted'
  BY <1>1, <1>2, EnterLeave
<1>5. TypeOK'
  BY <1>0, <1>1, <1>3 DEF TypeOK, tables
<1>6. \A k \in Jobs : redo'[k] = 0 => k \notin causes'
  BY <1>0, <1>1 DEF Aligned
<1>7. \A v \in Workers, k \in Jobs :
        \/ pc'[v][k] = pc[v][k]
        \/ {pc[v][k], pc'[v][k]} \subseteq {"idle", "select", "release"}
  BY <1>1, <1>3
<1> QED
  BY <1>1, <1>4, <1>5, <1>6, <1>7, LockMoveCore

LEMMA ReleaseCore ==
  ASSUME Core, NEW w \in Workers, NEW j \in Jobs, Release(w, j)
  PROVE  Core'
<1>0. TypeOK /\ Aligned
  BY DEF Core
<1>1. /\ pc[w][j] = "release" /\ pc' = [pc EXCEPT ![w][j] = "idle"]
      /\ lock' = [lock EXCEPT ![j] = FALSE]
      /\ UNCHANGED <<tables, window, todo, cur, accepted, faults, causes, redo>>
  BY DEF Release, Goto
<1>2. "idle" \in PC
  BY DEF PC
<1>3. /\ pc' \in [Workers -> [Jobs -> PC]]
      /\ pc'[w][j] = "idle"
      /\ \A k \in Jobs \ {j} : pc'[w][k] = pc[w][k]
      /\ \A v \in Workers \ {w} : pc'[v] = pc[v]
  BY <1>0, <1>1, <1>2, PcStep
<1>4. LocksCounted'
  BY <1>1, <1>2, EnterLeave
<1>5. TypeOK'
  BY <1>0, <1>1, <1>3 DEF TypeOK, tables
<1>6. \A k \in Jobs : redo'[k] = 0 => k \notin causes'
  BY <1>0, <1>1 DEF Aligned
<1>7. \A v \in Workers, k \in Jobs :
        \/ pc'[v][k] = pc[v][k]
        \/ {pc[v][k], pc'[v][k]} \subseteq {"idle", "select", "release"}
  BY <1>1, <1>3
<1> QED
  BY <1>1, <1>4, <1>5, <1>6, <1>7, LockMoveCore

\* A key expires.
LEMMA ExpiryCore ==
  ASSUME Core, NEW j \in Jobs, StaleLockExpires(j) \/ LockOverrun(j)
  PROVE  Core'
<1>0. TypeOK /\ Aligned /\ LocksCounted
  BY DEF Core
<1>1. /\ lock[j] /\ lock' = [lock EXCEPT ![j] = FALSE]
      /\ UNCHANGED <<tables, window, pc, todo, cur, accepted>>
      /\ \/ Inside(j) = {} /\ UNCHANGED <<faults, causes, redo>>
         \/ /\ faults' = faults + 1 /\ causes' = causes \cup {j}
            /\ redo' = [k \in Jobs |-> IF k \in {j} THEN redo[k] + 1 ELSE redo[k]]
  BY DEF StaleLockExpires, LockOverrun, Fault
<1>a. faults' \in Nat /\ causes' \subseteq FaultKinds
  <2>1. j \in FaultKinds
    BY DEF FaultKinds
  <2>2. faults \in Nat /\ causes \subseteq FaultKinds
    BY <1>0 DEF TypeOK
  <2>3. /\ faults' = faults \/ faults' = faults + 1
        /\ causes' \subseteq causes \cup {j}
    BY <1>1
  <2> QED
    BY <2>1, <2>2, <2>3
<1>c. /\ redo \in [Jobs -> Nat] /\ redo' \in [Jobs -> Nat]
      /\ \A k \in Jobs : redo'[k] = redo[k] \/ redo'[k] = redo[k] + 1
  BY <1>0, <1>1 DEF TypeOK
<1>b. /\ lock' \in [Jobs -> BOOLEAN]
      /\ UNCHANGED <<outbox, reminded, window, pc, todo, cur, accepted>>
  BY <1>0, <1>1 DEF TypeOK, tables
<1>2. TypeOK'
  BY <1>a, <1>0, <1>b, <1>c DEF TypeOK
<1>3. \A k \in Jobs : redo'[k] = 0 => k \notin causes'
  BY <1>0, <1>1, <1>c DEF Aligned, TypeOK
<1>4. ASSUME NEW k \in Jobs
      PROVE  /\ IsFiniteSet(Inside(k)')
             /\ Entitled(k)' <= 1 + redo'[k]
             /\ k \notin causes' => Entitled(k)' <= 1
  <2>1. /\ IsFiniteSet(Inside(k)) /\ redo[k] \in Nat /\ redo'[k] \in Nat
        /\ redo'[k] = redo[k] \/ redo'[k] = redo[k] + 1
        /\ Entitled(k) <= 1 + redo[k]
        /\ k \notin causes => Entitled(k) <= 1
    BY <1>0, <1>c DEF LocksCounted
  <2>2. Inside(k)' = Inside(k)
    BY <1>1 DEF Inside
  <2>3. Cardinality(Inside(k)) \in Nat /\ (Inside(k) = {} => Cardinality(Inside(k)) = 0)
    BY <2>1, FS_CardinalityType, FS_EmptySet
  <2>4. lock'[j] = FALSE /\ (k # j => lock'[k] = lock[k])
    BY <1>0, <1>1 DEF TypeOK
  <2> QED
    BY <1>1, <2>1, <2>2, <2>3, <2>4 DEF Entitled
<1>5. LocksCounted'
  BY <1>4 DEF LocksCounted
<1> QED
  BY <1>1, <1>2, <1>3, <1>5, LockMoveCore

\* A worker works on within a job.
LEMMA WorkCore ==
  ASSUME Core, NEW w \in Workers, NEW j \in Jobs, NEW p \in PC, p # "idle",
         pc[w][j] # "idle", pc' = [pc EXCEPT ![w][j] = p],
         lock' = lock, RedoGrows, causes \subseteq causes',
         TypeOK', Aligned', RowsKept, Others(w), Holds(w)'
  PROVE  Core'
<1>1. \A v \in Workers : Holds(v)'
  BY HoldsStays DEF Others
<1>2. LocksCounted'
  <2>1. \A k \in Jobs : Inside(k)' = Inside(k)
    BY InsideStays DEF Core
  <2> QED
    BY <2>1, LocksStay
<1> QED
  BY <1>1, <1>2 DEF Core, WorkersHold

\* A step of the outside world.
LEMMA WorldCore ==
  ASSUME Core, UNCHANGED <<lock, pc, todo, cur, faults, causes, redo>>,
         TypeOK', Aligned', RowsKept
  PROVE  Core'
<1>1. \A v \in Workers : Holds(v)'
  BY HoldsStays DEF Same
<1>2. LocksCounted'
  <2>1. \A k \in Jobs : Inside(k)' = Inside(k)
    BY DEF Inside
  <2>2. RedoGrows
    BY DEF TypeOK, Core, RedoGrows
  <2> QED
    BY <2>1, <2>2, LocksStay
<1> QED
  BY <1>1, <1>2 DEF Core, WorkersHold

\* A row is added: enqueue.
LEMMA enqueueRows ==
  ASSUME Core, NEW r \in Regs, NEW t \in {"complete", "reminder"}, enqueue(r, t)
  PROVE  /\ outbox' \in Seq(Row) /\ accepted' \in Seq(Nat) /\ RowsKept
         /\ DOMAIN accepted' = DOMAIN outbox'
         /\ Len(outbox) + 1 \notin DOMAIN outbox
         /\ DOMAIN outbox' = DOMAIN outbox \cup {Len(outbox) + 1}
         /\ \A i \in DOMAIN outbox : outbox'[i] = outbox[i] /\ accepted'[i] = accepted[i]
         /\ outbox'[Len(outbox) + 1] = NewRow(r, t) /\ accepted'[Len(outbox) + 1] = 0
         /\ Len(outbox) + 1 \in Nat
<1>0. outbox \in Seq(Row) /\ accepted \in Seq(Nat) /\ DOMAIN accepted = DOMAIN outbox
  BY DEF Core, TypeOK, Aligned
<1>1. outbox' = Append(outbox, NewRow(r, t)) /\ accepted' = Append(accepted, 0)
  BY DEF enqueue
<1>2. NewRow(r, t) \in Row
  BY DEF NewRow, Row, NotificationStatus
<1>3. Len(accepted) = Len(outbox)
  BY <1>0, LenProperties
<1>4. /\ outbox' \in Seq(Row) /\ Len(outbox) \in Nat
      /\ Len(outbox) + 1 \notin DOMAIN outbox
      /\ DOMAIN outbox' = DOMAIN outbox \cup {Len(outbox) + 1}
      /\ \A i \in DOMAIN outbox : outbox'[i] = outbox[i]
      /\ outbox'[Len(outbox) + 1] = NewRow(r, t)
  BY <1>0, <1>1, <1>2, AppendProperties, LenProperties
<1>5. /\ accepted' \in Seq(Nat)
      /\ DOMAIN accepted' = DOMAIN accepted \cup {Len(accepted) + 1}
      /\ \A i \in DOMAIN accepted : accepted'[i] = accepted[i]
      /\ accepted'[Len(accepted) + 1] = 0
  BY <1>0, <1>1, AppendProperties, LenProperties
<1>6. \A i \in DOMAIN outbox : accepted[i] \in Nat
  BY <1>0
<1>7. RowsKept
  BY <1>0, <1>4, <1>5, <1>6 DEF RowsKept
<1> QED
  BY <1>0, <1>3, <1>4, <1>5, <1>7

\* A row is written, and perhaps taken by the provider.
LEMMA WriteRows ==
  ASSUME Core, NEW i \in DOMAIN outbox, NEW c \in Row, NEW n \in Nat,
         outbox' = [outbox EXCEPT ![i] = c], accepted' = [accepted EXCEPT ![i] = n],
         c.reg = outbox[i].reg, c.template = outbox[i].template,
         outbox[i].status # "pending" => c.status # "pending",
         n >= accepted[i]
  PROVE  /\ outbox' \in Seq(Row) /\ accepted' \in Seq(Nat) /\ RowsKept
         /\ DOMAIN outbox' = DOMAIN outbox /\ DOMAIN accepted' = DOMAIN outbox
         /\ \A k \in DOMAIN outbox :
              /\ outbox'[k] = IF k = i THEN c ELSE outbox[k]
              /\ accepted'[k] = IF k = i THEN n ELSE accepted[k]
<1>0. outbox \in Seq(Row) /\ accepted \in Seq(Nat) /\ DOMAIN accepted = DOMAIN outbox
  BY DEF Core, TypeOK, Aligned
<1>1. /\ outbox' \in Seq(Row) /\ DOMAIN outbox' = DOMAIN outbox
      /\ \A k \in DOMAIN outbox : outbox'[k] = IF k = i THEN c ELSE outbox[k]
  BY <1>0, LenProperties, ExceptSeq
<1>2. /\ accepted' \in Seq(Nat) /\ DOMAIN accepted' = DOMAIN accepted
      /\ \A k \in DOMAIN accepted : accepted'[k] = IF k = i THEN n ELSE accepted[k]
  BY <1>0, LenProperties, ExceptSeq
<1>3. \A k \in DOMAIN outbox : accepted[k] \in Nat
  BY <1>0
<1>4. RowsKept
  BY <1>0, <1>1, <1>2, <1>3 DEF RowsKept
<1> QED
  BY <1>0, <1>1, <1>2, <1>4

LEMMA NoRows ==
  ASSUME Core, UNCHANGED <<outbox, accepted>>
  PROVE  RowsKept
<1>1. \A k \in DOMAIN outbox : accepted[k] \in Nat
  BY DEF Core, TypeOK, Aligned
<1> QED
  BY <1>1 DEF RowsKept

-----------------------------------------------------------------------------
(* Core: the outside world *)

LEMMA RegisteredCore ==
  ASSUME Core, NEW r \in Regs, Registered(r)
  PROVE  Core'
<1>1. /\ enqueue(r, "complete")
      /\ UNCHANGED <<reminded, window, lock, pc, todo, cur, faults, causes, redo>>
  BY DEF Registered
<1>2. /\ outbox' \in Seq(Row) /\ accepted' \in Seq(Nat) /\ RowsKept
      /\ DOMAIN accepted' = DOMAIN outbox'
  BY <1>1, enqueueRows
<1>3. TypeOK' /\ Aligned'
  BY <1>1, <1>2 DEF Core, TypeOK, Aligned
<1> QED
  BY <1>1, <1>2, <1>3, WorldCore

LEMMA WindowMovesCore ==
  ASSUME Core, NEW r \in Regs, WindowMoves(r)
  PROVE  Core'
<1>1. /\ UNCHANGED <<outbox, reminded, lock, pc, todo, cur, accepted, faults, causes, redo>>
      /\ window' \in [Regs -> {"before", "open", "over"}]
  BY DEF Core, TypeOK, WindowMoves, tables
<1>2. RowsKept
  BY <1>1, NoRows
<1>3. TypeOK' /\ Aligned'
  BY <1>1 DEF Core, TypeOK, Aligned
<1> QED
  BY <1>1, <1>2, <1>3, WorldCore

LEMMA BackoffRows ==
  ASSUME Core, NEW i \in 1 .. MaxRows, BackoffElapses(i)
  PROVE  /\ outbox' \in Seq(Row) /\ RowsKept
         /\ DOMAIN outbox' = DOMAIN outbox
         /\ UNCHANGED <<reminded, window, lock, pc, todo, cur, accepted, faults, causes, redo>>
         /\ \A k \in DOMAIN outbox :
              /\ outbox'[k].status = outbox[k].status
              /\ outbox'[k].attempts = outbox[k].attempts
<1>1. /\ i \in DOMAIN outbox /\ outbox' = [outbox EXCEPT ![i].due = TRUE]
      /\ UNCHANGED <<reminded, window, lock, pc, todo, cur, accepted, faults, causes, redo>>
  BY DEF BackoffElapses
<1>2. PICK c : c = [outbox[i] EXCEPT !.due = TRUE]
  OBVIOUS
<1>3. outbox[i] \in Row /\ accepted[i] \in Nat
  BY <1>1 DEF Core, TypeOK, Aligned
<1>4. /\ c \in Row /\ c.reg = outbox[i].reg /\ c.template = outbox[i].template
      /\ c.status = outbox[i].status /\ c.attempts = outbox[i].attempts
  BY <1>2, <1>3 DEF Row
<1>5. PICK n \in Nat : n = accepted[i] /\ n >= accepted[i]
  BY <1>3
<1>6. outbox' = [outbox EXCEPT ![i] = c] /\ accepted' = [accepted EXCEPT ![i] = n]
  <2>1. outbox \in Seq(Row) /\ accepted \in Seq(Nat)
    BY DEF Core, TypeOK
  <2>2. accepted = [accepted EXCEPT ![i] = n]
    BY <1>5, <2>1, LenProperties
  <2> QED
    BY <1>1, <1>2, <2>1, <2>2
<1>7. i \in DOMAIN outbox
  BY <1>1
<1>8. /\ outbox' \in Seq(Row) /\ RowsKept /\ DOMAIN outbox' = DOMAIN outbox
      /\ \A k \in DOMAIN outbox : outbox'[k] = IF k = i THEN c ELSE outbox[k]
  BY <1>4, <1>5, <1>6, <1>7, WriteRows
<1> QED
  BY <1>1, <1>4, <1>8

LEMMA BackoffCore ==
  ASSUME Core, NEW i \in 1 .. MaxRows, BackoffElapses(i)
  PROVE  Core'
<1>1. /\ outbox' \in Seq(Row) /\ RowsKept
      /\ DOMAIN outbox' = DOMAIN outbox
      /\ UNCHANGED <<reminded, window, lock, pc, todo, cur, accepted, faults, causes, redo>>
  BY BackoffRows
<1>2. TypeOK' /\ Aligned'
  BY <1>1 DEF Core, TypeOK, Aligned
<1> QED
  BY <1>1, <1>2, WorldCore

-----------------------------------------------------------------------------
(* Core: dispatch_outbox *)

\* Where a worker is and what it remembers after a step of a job.
DispatchMoves(w, p, R, c) ==
  /\ pc'[w]["dispatch"] = p /\ pc'[w]["scan"] = pc[w]["scan"]
  /\ todo'[w].rows = R /\ todo'[w].regs = todo[w].regs /\ todo'[w].mark = todo[w].mark
  /\ cur'[w] = c
  /\ Others(w)

ScanMoves(w, p, G, M) ==
  /\ pc'[w]["scan"] = p /\ pc'[w]["dispatch"] = pc[w]["dispatch"]
  /\ todo'[w].regs = G /\ todo'[w].mark = M /\ todo'[w].rows = todo[w].rows
  /\ cur'[w] = cur[w]
  /\ Others(w)

\* The faults of a step.
FaultsGrow ==
  /\ faults' \in Nat /\ RedoGrows
  /\ causes \subseteq causes' /\ causes' \subseteq FaultKinds
  /\ \A j \in Jobs : redo'[j] = 0 => j \notin causes'

\* The jobs in J forget what they have done.
Forgets(J) == \A j \in Jobs : redo'[j] = redo[j] + One(j \in J)

LEMMA NoFaultGrows ==
  ASSUME Core, UNCHANGED <<faults, causes, redo>>
  PROVE  FaultsGrow
BY DEF Core, TypeOK, Aligned, FaultsGrow, RedoGrows

LEMMA FaultGrows ==
  ASSUME Core, NEW k \in FaultKinds, NEW J, Fault(k, J), k \in Jobs => k \in J
  PROVE  FaultsGrow /\ Forgets(J)
<1>1. /\ redo \in [Jobs -> Nat] /\ faults \in Nat /\ causes \subseteq FaultKinds
      /\ \A j \in Jobs : redo[j] = 0 => j \notin causes
  BY DEF Core, TypeOK, Aligned
<1>2. redo' \in [Jobs -> Nat] /\ Forgets(J)
  BY <1>1 DEF Fault, Forgets, One
<1>3. RedoGrows
  BY <1>1, <1>2 DEF RedoGrows, Forgets, One
<1>4. \A j \in Jobs : redo'[j] = 0 => j \notin causes'
  BY <1>1, <1>2 DEF Fault, Forgets, One
<1> QED
  BY <1>1, <1>2, <1>3, <1>4 DEF Fault, FaultsGrow

LEMMA DispatchWork ==
  ASSUME Core, NEW w \in Workers, NEW p \in PC \ {"idle"},
         NEW R \in SUBSET (DOMAIN outbox), NEW c \in Loaded,
         pc[w]["dispatch"] # "idle", pc' = [pc EXCEPT ![w]["dispatch"] = p],
         todo' = [todo EXCEPT ![w].rows = R], cur' = [cur EXCEPT ![w] = c],
         UNCHANGED <<reminded, window, lock>>, FaultsGrow, RowsKept,
         outbox' \in Seq(Row), accepted' \in Seq(Nat), DOMAIN accepted' = DOMAIN outbox',
         p \in {"select", "release"} => R = {},
         p \in Sending =>
           /\ c.id \in R
           /\ c.status # "pending" => outbox'[c.id].status # "pending"
           /\ p = "commit_sent" => accepted'[c.id] >= 1
  PROVE  Core' /\ DispatchMoves(w, p, R, c)
<1>0. TypeOK /\ Aligned /\ Holds(w)
  BY DEF Core, WorkersHold
<1>1. "dispatch" \in Jobs /\ "scan" \in Jobs \ {"dispatch"} /\ p \in PC
  BY DEF Jobs
<1>2. /\ pc' \in [Workers -> [Jobs -> PC]]
      /\ pc'[w]["dispatch"] = p /\ pc'[w]["scan"] = pc[w]["scan"]
      /\ \A v \in Workers \ {w} : pc'[v] = pc[v]
  <2>1. /\ pc' \in [Workers -> [Jobs -> PC]]
        /\ pc'[w]["dispatch"] = p
        /\ \A k \in Jobs \ {"dispatch"} : pc'[w][k] = pc[w][k]
        /\ \A v \in Workers \ {w} : pc'[v] = pc[v]
    BY <1>0, <1>1, PcStep
  <2> QED
    BY <1>1, <2>1
<1>3. R \in SUBSET Nat
  BY <1>0, LenProperties DEF TypeOK
<1>4. /\ todo' \in [Workers -> [rows : SUBSET Nat, regs : SUBSET Regs, mark : SUBSET Regs]]
      /\ todo'[w].rows = R /\ todo'[w].regs = todo[w].regs /\ todo'[w].mark = todo[w].mark
      /\ \A v \in Workers \ {w} : todo'[v] = todo[v]
  BY <1>0, <1>3 DEF TypeOK
<1>5. /\ cur' \in [Workers -> Loaded] /\ cur'[w] = c
      /\ \A v \in Workers \ {w} : cur'[v] = cur[v]
  BY <1>0 DEF TypeOK
<1>6. DispatchMoves(w, p, R, c)
  BY <1>2, <1>4, <1>5 DEF DispatchMoves, Others, Same
<1>7. TypeOK' /\ Aligned'
  BY <1>0, <1>2, <1>4, <1>5 DEF TypeOK, Aligned, FaultsGrow, RedoGrows
<1>8. Holds(w)'
  BY <1>0, <1>2, <1>4, <1>5 DEF Holds, Sending, RowsKept
<1>9. Core'
  BY <1>1, <1>6, <1>7, <1>8, WorkCore DEF DispatchMoves, FaultsGrow
<1> QED
  BY <1>6, <1>9

\* A worker that keeps its rows or what it loaded.
LEMMA Keeps ==
  ASSUME TypeOK, NEW w \in Workers
  PROVE  /\ todo = [todo EXCEPT ![w].rows = todo[w].rows]
         /\ cur = [cur EXCEPT ![w] = cur[w]]
         /\ cur[w] \in Loaded
BY DEF TypeOK

LEMMA LoadType ==
  ASSUME TypeOK, NEW i \in DOMAIN outbox
  PROVE  Load(i) \in Loaded /\ Load(i).id = i /\ Load(i).status = outbox[i].status
<1>1. outbox[i] \in Row /\ i \in Nat
  BY LenProperties DEF TypeOK
<1> QED
  BY <1>1 DEF Load, Loaded, Row

LEMMA DispatchSelectMoves ==
  ASSUME Core, NEW w \in Workers, DispatchSelect(w)
  PROVE  /\ Core' /\ pc[w]["dispatch"] = "select"
         /\ UNCHANGED <<outbox, reminded, lock, accepted, faults, causes, redo>>
         /\ \/ DispatchMoves(w, "release", todo[w].rows, cur[w])
            \/ \E R \in SUBSET (DOMAIN outbox) : \E i \in R :
                 /\ DispatchMoves(w, "send", R, Load(i))
                 /\ \A k \in R : outbox[k].status = "pending"
<1>0. TypeOK /\ Aligned /\ Holds(w)
  BY DEF Core, WorkersHold
<1>1. UNCHANGED <<outbox, reminded, window, lock, accepted, faults, causes, redo>>
  BY DEF DispatchSelect, tables
<1>2. FaultsGrow /\ RowsKept
  BY <1>1, NoFaultGrows, NoRows
<1>3. outbox' \in Seq(Row) /\ accepted' \in Seq(Nat) /\ DOMAIN accepted' = DOMAIN outbox'
  BY <1>0, <1>1 DEF TypeOK, Aligned
<1>4. CASE Goto(w, "dispatch", "select", "release") /\ UNCHANGED <<todo, cur>>
  <2>1. pc[w]["dispatch"] = "select" /\ pc' = [pc EXCEPT ![w]["dispatch"] = "release"]
    BY <1>4 DEF Goto
  <2>2. PICK R, c : R = todo[w].rows /\ c = cur[w]
    OBVIOUS
  <2>3. /\ todo' = [todo EXCEPT ![w].rows = R] /\ cur' = [cur EXCEPT ![w] = c]
        /\ c \in Loaded /\ R = {}
    BY <1>0, <1>4, <2>1, <2>2, Keeps DEF Holds
  <2>4. "release" \in PC \ {"idle"} /\ "release" \notin Sending
    BY DEF PC, Sending
  <2>5. Core' /\ DispatchMoves(w, "release", R, c)
    BY <1>1, <1>2, <1>3, <2>1, <2>3, <2>4, DispatchWork
  <2> QED
    BY <1>1, <2>1, <2>2, <2>5
<1>5. CASE Goto(w, "dispatch", "select", "send")
           /\ \E R \in SUBSET {k \in DOMAIN outbox : outbox[k].status = "pending" /\ outbox[k].due} :
                \E i \in R : /\ todo' = [todo EXCEPT ![w].rows = R]
                            /\ cur' = [cur EXCEPT ![w] = Load(i)]
  <2>1. pc[w]["dispatch"] = "select" /\ pc' = [pc EXCEPT ![w]["dispatch"] = "send"]
    BY <1>5 DEF Goto
  <2>2. PICK R \in SUBSET (DOMAIN outbox) : \E i \in R :
             /\ \A k \in R : outbox[k].status = "pending"
             /\ todo' = [todo EXCEPT ![w].rows = R] /\ cur' = [cur EXCEPT ![w] = Load(i)]
    BY <1>5
  <2>3. PICK i \in R :
             /\ \A k \in R : outbox[k].status = "pending"
             /\ todo' = [todo EXCEPT ![w].rows = R] /\ cur' = [cur EXCEPT ![w] = Load(i)]
    BY <2>2
  <2>4. Load(i) \in Loaded /\ Load(i).id = i /\ Load(i).status = outbox[i].status
    BY <1>0, LoadType
  <2>5. PICK c \in Loaded : c = Load(i) /\ c.id = i /\ c.status = outbox[i].status
    BY <2>4
  <2>6. "send" \in PC \ {"idle"} /\ "send" \notin {"select", "release"} /\ "send" # "commit_sent"
    BY DEF PC
  <2>7. Core' /\ DispatchMoves(w, "send", R, c)
    BY <1>1, <1>2, <1>3, <2>1, <2>3, <2>5, <2>6, DispatchWork
  <2> QED
    BY <1>1, <2>1, <2>3, <2>5, <2>7
<1>6. \/ Goto(w, "dispatch", "select", "release") /\ UNCHANGED <<todo, cur>>
      \/ /\ Goto(w, "dispatch", "select", "send")
         /\ \E R \in SUBSET {k \in DOMAIN outbox : outbox[k].status = "pending" /\ outbox[k].due} :
              \E i \in R : /\ todo' = [todo EXCEPT ![w].rows = R]
                          /\ cur' = [cur EXCEPT ![w] = Load(i)]
  BY DEF DispatchSelect, kSubset
<1> QED
  BY <1>4, <1>5, <1>6

LEMMA DispatchLoadMoves ==
  ASSUME Core, NEW w \in Workers, DispatchLoad(w)
  PROVE  /\ Core' /\ pc[w]["dispatch"] = "load"
         /\ UNCHANGED <<outbox, reminded, lock, accepted, faults, causes, redo>>
         /\ \E i \in todo[w].rows : DispatchMoves(w, "send", todo[w].rows, Load(i))
<1>0. TypeOK /\ Aligned /\ Holds(w)
  BY DEF Core, WorkersHold
<1>1. /\ UNCHANGED <<outbox, reminded, window, lock, todo, accepted, faults, causes, redo>>
      /\ pc[w]["dispatch"] = "load" /\ pc' = [pc EXCEPT ![w]["dispatch"] = "send"]
      /\ \E i \in todo[w].rows : cur' = [cur EXCEPT ![w] = Load(i)]
  BY DEF DispatchLoad, tables, Goto
<1>2. FaultsGrow /\ RowsKept
  BY <1>1, NoFaultGrows, NoRows
<1>3. outbox' \in Seq(Row) /\ accepted' \in Seq(Nat) /\ DOMAIN accepted' = DOMAIN outbox'
  BY <1>0, <1>1 DEF TypeOK, Aligned
<1>4. PICK R \in SUBSET (DOMAIN outbox) :
           R = todo[w].rows /\ todo' = [todo EXCEPT ![w].rows = R]
  BY <1>0, <1>1, Keeps DEF Holds
<1>5. PICK i \in R : cur' = [cur EXCEPT ![w] = Load(i)]
  BY <1>1, <1>4
<1>6. Load(i) \in Loaded /\ Load(i).id = i /\ Load(i).status = outbox[i].status
  BY <1>0, LoadType
<1>7. PICK c \in Loaded : c = Load(i) /\ c.id = i /\ c.status = outbox[i].status
  BY <1>6
<1>8. "send" \in PC \ {"idle"} /\ "send" \notin {"select", "release"} /\ "send" # "commit_sent"
  BY DEF PC
<1>9. outbox'[i] = outbox[i]
  BY <1>1
<1>10. Core' /\ DispatchMoves(w, "send", R, c)
  BY <1>1, <1>2, <1>3, <1>4, <1>5, <1>7, <1>8, <1>9, DispatchWork
<1> QED
  BY <1>1, <1>4, <1>7, <1>10

LEMMA SendOneMoves ==
  ASSUME Core, NEW w \in Workers, SendOne(w)
  PROVE  /\ Core' /\ pc[w]["dispatch"] = "send"
         /\ UNCHANGED <<outbox, reminded, lock>>
         /\ \E p \in {"commit_sent", "commit_retry"} :
              /\ DispatchMoves(w, p, todo[w].rows, cur[w])
              /\ \/ UNCHANGED <<accepted, faults, causes, redo>> /\ p = "commit_retry"
                 \/ /\ accepted' = [accepted EXCEPT ![cur[w].id] = @ + 1]
                    /\ \/ UNCHANGED <<faults, causes, redo>> /\ p = "commit_sent"
                       \/ FaultsGrow /\ Forgets({"dispatch"}) /\ p = "commit_retry"
<1>0. TypeOK /\ Aligned /\ Holds(w)
  BY DEF Core, WorkersHold
<1>1. UNCHANGED <<outbox, reminded, window, lock, todo, cur>> /\ pc[w]["dispatch"] = "send"
  BY DEF SendOne, tables, Goto
<1>2. /\ cur[w].id \in todo[w].rows /\ cur[w].id \in DOMAIN outbox
      /\ cur[w].status # "pending" => outbox[cur[w].id].status # "pending"
  BY <1>0, <1>1 DEF Holds, Sending
<1>3. PICK R \in SUBSET (DOMAIN outbox), c \in Loaded :
           /\ R = todo[w].rows /\ todo' = [todo EXCEPT ![w].rows = R]
           /\ c = cur[w] /\ cur' = [cur EXCEPT ![w] = c]
           /\ c.id \in R /\ c.id \in DOMAIN outbox
           /\ c.status # "pending" => outbox[c.id].status # "pending"
  BY <1>0, <1>1, <1>2, Keeps DEF Holds
<1>4. outbox[c.id] \in Row /\ accepted[c.id] \in Nat
      /\ outbox' = [outbox EXCEPT ![c.id] = outbox[c.id]]
  BY <1>0, <1>1, <1>3, LenProperties DEF TypeOK, Aligned
<1>5. {"commit_sent", "commit_retry"} \subseteq PC \ {"idle", "select", "release"}
  BY DEF PC
<1>6. PICK n \in Nat : n = accepted[c.id] + 1
  BY <1>4
<1>7. CASE accepted' = [accepted EXCEPT ![c.id] = n]
  <2>1. /\ outbox' \in Seq(Row) /\ accepted' \in Seq(Nat) /\ RowsKept
        /\ DOMAIN accepted' = DOMAIN outbox'
        /\ accepted'[c.id] = n
    <3>1. PICK d \in Row : d = outbox[c.id]
      BY <1>4
    <3>2. /\ outbox' = [outbox EXCEPT ![c.id] = d] /\ n >= accepted[c.id]
          /\ d.reg = outbox[c.id].reg /\ d.template = outbox[c.id].template
          /\ outbox[c.id].status # "pending" => d.status # "pending"
      BY <1>4, <1>6, <3>1
    <3> QED
      BY <1>3, <1>7, <3>2, WriteRows
  <2>2. accepted'[c.id] >= 1
    BY <1>4, <1>6, <2>1
  <2>3. ASSUME NEW p \in {"commit_sent", "commit_retry"}, FaultsGrow,
               pc' = [pc EXCEPT ![w]["dispatch"] = p]
        PROVE  Core' /\ DispatchMoves(w, p, R, c)
    <3>1. UNCHANGED <<reminded, window, lock>> /\ outbox'[c.id] = outbox[c.id]
          /\ pc[w]["dispatch"] # "idle"
      BY <1>1
    <3>2. p \in PC \ {"idle"} /\ p \notin {"select", "release"}
      BY <1>5
    <3> QED
      BY <1>3, <2>1, <2>2, <2>3, <3>1, <3>2, DispatchWork
  <2>4. CASE Goto(w, "dispatch", "send", "commit_sent") /\ NoFault
    <3>1. FaultsGrow /\ UNCHANGED <<faults, causes, redo>>
      BY <2>4, NoFaultGrows DEF NoFault
    <3> QED
      BY <1>1, <1>3, <1>6, <1>7, <2>3, <2>4, <3>1 DEF Goto
  <2>5. CASE Goto(w, "dispatch", "send", "commit_retry") /\ Fault("lost_answer", {"dispatch"})
    <3>1. FaultsGrow /\ Forgets({"dispatch"})
      <4>1. "lost_answer" \in FaultKinds /\ "lost_answer" \notin Jobs
        BY DEF FaultKinds, Jobs
      <4> QED
        BY <2>5, <4>1, FaultGrows
    <3> QED
      BY <1>1, <1>3, <1>6, <1>7, <2>3, <2>5, <3>1 DEF Goto
  <2>6. CASE UNCHANGED accepted
    <3>1. accepted'[c.id] = accepted[c.id]
      BY <2>6
    <3> QED
      BY <1>4, <1>6, <2>1, <3>1
  <2> QED
    BY <1>3, <1>6, <2>4, <2>5, <2>6 DEF SendOne
<1>8. CASE UNCHANGED accepted /\ Goto(w, "dispatch", "send", "commit_retry") /\ NoFault
  <2>1. FaultsGrow /\ RowsKept /\ UNCHANGED <<faults, causes, redo>>
    BY <1>1, <1>8, NoFaultGrows, NoRows DEF NoFault
  <2>2. outbox' \in Seq(Row) /\ accepted' \in Seq(Nat) /\ DOMAIN accepted' = DOMAIN outbox'
    BY <1>0, <1>1, <1>8 DEF TypeOK, Aligned
  <2>3. /\ UNCHANGED <<reminded, window, lock>> /\ outbox'[c.id] = outbox[c.id]
        /\ pc[w]["dispatch"] # "idle" /\ pc' = [pc EXCEPT ![w]["dispatch"] = "commit_retry"]
    BY <1>1, <1>8 DEF Goto
  <2>4. "commit_retry" \in PC \ {"idle"} /\ "commit_retry" \notin {"select", "release", "commit_sent"}
    BY <1>5
  <2>5. Core' /\ DispatchMoves(w, "commit_retry", R, c)
    BY <1>3, <2>1, <2>2, <2>3, <2>4, DispatchWork
  <2> QED
    BY <1>1, <1>3, <1>8, <2>1, <2>5
<1> QED
  BY <1>3, <1>6, <1>7, <1>8 DEF SendOne

\* What the commit after a try writes.
Committed(w, row, c) ==
  /\ c.reg = row.reg /\ c.template = row.template
  /\ c.attempts = Tried(w)
  /\ \/ /\ pc[w]["dispatch"] = "commit_sent"
        /\ c.status = Status(w, row, "sent")
     \/ /\ pc[w]["dispatch"] = "commit_retry" /\ Tried(w) >= MaxAttempts
        /\ c.status = Status(w, row, "failed")
     \/ /\ pc[w]["dispatch"] = "commit_retry" /\ Tried(w) < MaxAttempts
        /\ c.status = row.status

LEMMA CommitRow ==
  ASSUME TypeOK, NEW w \in Workers, NEW row \in Row
  PROVE  /\ Sent(w, row) \in Row /\ _mark_retry_or_failed(w, row) \in Row
         /\ pc[w]["dispatch"] = "commit_sent" => Committed(w, row, Sent(w, row))
         /\ pc[w]["dispatch"] = "commit_retry" => Committed(w, row, _mark_retry_or_failed(w, row))
<1>1. PICK n \in Nat : n = Tried(w)
  BY DEF TypeOK, Loaded, Tried
<1>2. PICK s \in NotificationStatus : s = Status(w, row, "sent")
  BY DEF Status, Row, NotificationStatus
<1>3. PICK f \in NotificationStatus : f = Status(w, row, "failed")
  BY DEF Status, Row, NotificationStatus
<1>4. Sent(w, row) = [row EXCEPT !.attempts = n, !.status = s]
  BY <1>1, <1>2 DEF Sent
<1>5. _mark_retry_or_failed(w, row) =
        IF n >= MaxAttempts THEN [row EXCEPT !.attempts = n, !.status = f]
                            ELSE [row EXCEPT !.attempts = n, !.due = FALSE]
  BY <1>1, <1>3 DEF _mark_retry_or_failed
<1>8. PICK d : d = Sent(w, row)
  OBVIOUS
<1>9. /\ d \in Row /\ d.reg = row.reg /\ d.template = row.template
      /\ d.attempts = n /\ d.status = s
  BY <1>4, <1>8 DEF Row
<1>10. d \in Row /\ (pc[w]["dispatch"] = "commit_sent" => Committed(w, row, d))
  BY <1>1, <1>2, <1>9 DEF Committed
<1>11. PICK e : e = _mark_retry_or_failed(w, row)
  OBVIOUS
<1>12. n >= MaxAttempts \/ n < MaxAttempts
  BY WorkerAssumption
<1>13. CASE n >= MaxAttempts
  <2>1. /\ e \in Row /\ e.reg = row.reg /\ e.template = row.template
        /\ e.attempts = n /\ e.status = f
    BY <1>5, <1>11, <1>13 DEF Row
  <2>2. e \in Row /\ (pc[w]["dispatch"] = "commit_retry" => Committed(w, row, e))
    BY <1>1, <1>3, <1>13, <2>1 DEF Committed
  <2> QED
    BY <1>8, <1>10, <1>11, <2>2
<1>14. CASE n < MaxAttempts
  <2>1. /\ e \in Row /\ e.reg = row.reg /\ e.template = row.template
        /\ e.attempts = n /\ e.status = row.status
    <3>1. ~ (n >= MaxAttempts)
      BY <1>14, WorkerAssumption
    <3> QED
      BY <1>5, <1>11, <3>1 DEF Row
  <2>2. e \in Row /\ (pc[w]["dispatch"] = "commit_retry" => Committed(w, row, e))
    BY <1>1, <1>14, <2>1 DEF Committed
  <2> QED
    BY <1>8, <1>10, <1>11, <2>2
<1> QED
  BY <1>12, <1>13, <1>14

LEMMA SendCommitMoves ==
  ASSUME Core, NEW w \in Workers, SendCommit(w)
  PROVE  /\ Core' /\ pc[w]["dispatch"] \in {"commit_sent", "commit_retry"}
         /\ UNCHANGED <<reminded, lock, accepted, faults, causes, redo>>
         /\ \E p \in {"release", "load"}, c \in Row :
              /\ DispatchMoves(w, p, todo[w].rows \ {cur[w].id}, Nothing)
              /\ Committed(w, outbox[cur[w].id], c)
              /\ DOMAIN outbox' = DOMAIN outbox
              /\ \A k \in DOMAIN outbox :
                   outbox'[k] = IF k = cur[w].id THEN c ELSE outbox[k]
<1>0. TypeOK /\ Aligned /\ Holds(w)
  BY DEF Core, WorkersHold
<1>1. PICK i : i = cur[w].id
  OBVIOUS
<1>2. /\ pc[w]["dispatch"] \in {"commit_sent", "commit_retry"}
      /\ UNCHANGED <<reminded, window, lock, accepted, faults, causes, redo>>
      /\ todo' = [todo EXCEPT ![w].rows = todo[w].rows \ {i}]
      /\ cur' = [cur EXCEPT ![w] = Nothing]
  BY <1>1 DEF SendCommit, Goto
<1>3. /\ i \in todo[w].rows /\ i \in DOMAIN outbox
      /\ cur[w].status # "pending" => outbox[i].status # "pending"
  BY <1>0, <1>1, <1>2 DEF Holds, Sending
<1>4. outbox[i] \in Row /\ accepted[i] \in Nat /\ accepted \in Seq(Nat)
  BY <1>0, <1>3 DEF TypeOK, Aligned
<1>5. /\ Sent(w, outbox[i]) \in Row /\ _mark_retry_or_failed(w, outbox[i]) \in Row
      /\ pc[w]["dispatch"] = "commit_sent" => Committed(w, outbox[i], Sent(w, outbox[i]))
      /\ pc[w]["dispatch"] = "commit_retry" =>
           Committed(w, outbox[i], _mark_retry_or_failed(w, outbox[i]))
  BY <1>0, <1>4, CommitRow
<1>6. \E c \in Row : Committed(w, outbox[i], c) /\ outbox' = [outbox EXCEPT ![i] = c]
  <2>1. CASE pc[w]["dispatch"] = "commit_sent"
    <3>1. outbox' = [outbox EXCEPT ![i] = Sent(w, outbox[i])]
      BY <1>1, <2>1 DEF SendCommit, Goto
    <3> QED
      BY <1>5, <2>1, <3>1
  <2>2. CASE pc[w]["dispatch"] = "commit_retry"
    <3>1. outbox' = [outbox EXCEPT ![i] = _mark_retry_or_failed(w, outbox[i])]
      BY <1>1, <2>2 DEF SendCommit, Goto
    <3> QED
      BY <1>5, <2>2, <3>1
  <2> QED
    BY <1>2, <2>1, <2>2
<1>7. PICK c \in Row : Committed(w, outbox[i], c) /\ outbox' = [outbox EXCEPT ![i] = c]
  BY <1>6
<1>8. /\ c.reg = outbox[i].reg /\ c.template = outbox[i].template
      /\ outbox[i].status # "pending" => c.status # "pending"
  BY <1>7 DEF Committed, Status
<1>9. PICK n \in Nat : n >= accepted[i] /\ accepted' = [accepted EXCEPT ![i] = n]
  <2>1. accepted = [accepted EXCEPT ![i] = accepted[i]] /\ accepted[i] >= accepted[i]
    BY <1>4, LenProperties
  <2> QED
    BY <1>2, <1>4, <2>1
<1>10. /\ outbox' \in Seq(Row) /\ accepted' \in Seq(Nat) /\ RowsKept
       /\ DOMAIN outbox' = DOMAIN outbox /\ DOMAIN accepted' = DOMAIN outbox
       /\ \A k \in DOMAIN outbox : outbox'[k] = IF k = i THEN c ELSE outbox[k]
  BY <1>3, <1>7, <1>8, <1>9, WriteRows
<1>11. PICK R \in SUBSET (DOMAIN outbox) : R = todo[w].rows \ {i}
  BY <1>0 DEF Holds
<1>12. PICK p \in {"release", "load"} :
            /\ p = IF R = {} THEN "release" ELSE "load"
            /\ pc' = [pc EXCEPT ![w]["dispatch"] = p]
  BY <1>1, <1>11 DEF SendCommit, Goto
<1>13. p \in PC \ {"idle"} /\ p \notin Sending /\ (p \in {"select", "release"} => R = {})
  BY <1>12 DEF PC, Sending
<1>14. FaultsGrow
  BY <1>2, NoFaultGrows
<1>15. pc[w]["dispatch"] # "idle" /\ UNCHANGED <<reminded, window, lock>>
       /\ todo' = [todo EXCEPT ![w].rows = R] /\ cur' = [cur EXCEPT ![w] = Nothing]
       /\ DOMAIN accepted' = DOMAIN outbox'
  BY <1>2, <1>10, <1>11
<1>16. Core' /\ DispatchMoves(w, p, R, Nothing)
  BY <1>10, <1>12, <1>13, <1>14, <1>15, NothingType, DispatchWork
<1> QED
  BY <1>1, <1>2, <1>7, <1>10, <1>11, <1>16

-----------------------------------------------------------------------------
(* Core: scan_reminders *)

LEMMA ScanWork ==
  ASSUME Core, NEW w \in Workers, NEW p \in PC \ {"idle"},
         NEW G \in SUBSET Regs, NEW M \in SUBSET G,
         pc[w]["scan"] # "idle", pc' = [pc EXCEPT ![w]["scan"] = p],
         todo' = [todo EXCEPT ![w].regs = G, ![w].mark = M],
         UNCHANGED <<cur, window, lock>>, FaultsGrow, RowsKept, reminded' \in SUBSET Regs,
         outbox' \in Seq(Row), accepted' \in Seq(Nat), DOMAIN accepted' = DOMAIN outbox',
         p \in {"select", "release"} => G = {},
         p # "mark" => M = {}
  PROVE  Core' /\ ScanMoves(w, p, G, M)
<1>0. TypeOK /\ Aligned /\ Holds(w)
  BY DEF Core, WorkersHold
<1>1. "scan" \in Jobs /\ "dispatch" \in Jobs \ {"scan"} /\ p \in PC
  BY DEF Jobs
<1>2. /\ pc' \in [Workers -> [Jobs -> PC]]
      /\ pc'[w]["scan"] = p /\ pc'[w]["dispatch"] = pc[w]["dispatch"]
      /\ \A v \in Workers \ {w} : pc'[v] = pc[v]
  <2>1. /\ pc' \in [Workers -> [Jobs -> PC]]
        /\ pc'[w]["scan"] = p
        /\ \A k \in Jobs \ {"scan"} : pc'[w][k] = pc[w][k]
        /\ \A v \in Workers \ {w} : pc'[v] = pc[v]
    BY <1>0, <1>1, PcStep
  <2> QED
    BY <1>1, <2>1
<1>3. /\ todo' \in [Workers -> [rows : SUBSET Nat, regs : SUBSET Regs, mark : SUBSET Regs]]
      /\ todo'[w].regs = G /\ todo'[w].mark = M /\ todo'[w].rows = todo[w].rows
      /\ \A v \in Workers \ {w} : todo'[v] = todo[v]
  BY <1>0 DEF TypeOK
<1>4. ScanMoves(w, p, G, M)
  BY <1>2, <1>3 DEF ScanMoves, Others, Same
<1>5. TypeOK' /\ Aligned'
  BY <1>0, <1>2, <1>3 DEF TypeOK, Aligned, FaultsGrow, RedoGrows
<1>6. Holds(w)'
  <2>1. \A i \in DOMAIN outbox : accepted[i] \in Nat /\ accepted'[i] \in Nat
    BY <1>0, <1>5 DEF TypeOK, Aligned, RowsKept
  <2>2. /\ todo[w].rows \subseteq DOMAIN outbox
        /\ pc[w]["dispatch"] \in Sending => cur[w].id \in DOMAIN outbox
    BY <1>0 DEF Holds
  <2> QED
    BY <1>0, <1>2, <1>3, <2>1, <2>2 DEF Holds, RowsKept
<1>7. Core'
  BY <1>1, <1>4, <1>5, <1>6, WorkCore DEF ScanMoves, FaultsGrow
<1> QED
  BY <1>4, <1>7

LEMMA ScanSelectMoves ==
  ASSUME Core, NEW w \in Workers, ScanSelect(w)
  PROVE  /\ Core' /\ pc[w]["scan"] = "select"
         /\ UNCHANGED <<outbox, reminded, lock, accepted, faults, causes, redo>>
         /\ \E p \in {"release", "remind"}, G \in SUBSET (Regs \ reminded) : ScanMoves(w, p, G, {})
<1>0. TypeOK /\ Aligned /\ Holds(w)
  BY DEF Core, WorkersHold
<1>1. PICK G \in SUBSET (Regs \ reminded) : G = {r \in Regs \ reminded : window[r] = "open"}
  OBVIOUS
<1>2. PICK p \in {"release", "remind"} : p = IF G = {} THEN "release" ELSE "remind"
  OBVIOUS
<1>3. /\ UNCHANGED <<outbox, reminded, window, lock, cur, accepted, faults, causes, redo>>
      /\ pc[w]["scan"] = "select" /\ pc' = [pc EXCEPT ![w]["scan"] = p]
      /\ todo' = [todo EXCEPT ![w].regs = G]
  BY <1>1, <1>2 DEF ScanSelect, tables, Goto
<1>4. todo[w].mark = {}
  BY <1>0, <1>3 DEF Holds
<1>5. todo' = [todo EXCEPT ![w].regs = G, ![w].mark = {}]
  BY <1>0, <1>3, <1>4 DEF TypeOK
<1>6. FaultsGrow /\ RowsKept
  BY <1>3, NoFaultGrows, NoRows
<1>7. outbox' \in Seq(Row) /\ accepted' \in Seq(Nat) /\ DOMAIN accepted' = DOMAIN outbox'
      /\ reminded' \in SUBSET Regs /\ G \in SUBSET Regs /\ {} \in SUBSET G
  BY <1>0, <1>3 DEF TypeOK, Aligned
<1>8. p \in PC \ {"idle"} /\ p # "mark" /\ (p \in {"select", "release"} => G = {})
  BY <1>2 DEF PC
<1>9. pc[w]["scan"] # "idle" /\ UNCHANGED <<cur, window, lock>>
  BY <1>3
<1>10. PICK M \in SUBSET G : M = {}
  OBVIOUS
<1>11. Core' /\ ScanMoves(w, p, G, M)
  BY <1>3, <1>5, <1>6, <1>7, <1>8, <1>9, <1>10, ScanWork
<1> QED
  BY <1>3, <1>10, <1>11

LEMMA RemindMoves ==
  ASSUME Core, NEW w \in Workers, Remind(w)
  PROVE  /\ Core' /\ pc[w]["scan"] = "remind"
         /\ UNCHANGED <<reminded, lock, faults, causes, redo>>
         /\ \E r \in todo[w].regs :
              ScanMoves(w, "mark", todo[w].regs, {r}) /\ enqueue(r, "reminder")
<1>0. TypeOK /\ Aligned /\ Holds(w)
  BY DEF Core, WorkersHold
<1>1. /\ UNCHANGED <<reminded, window, lock, cur, faults, causes, redo>>
      /\ pc[w]["scan"] = "remind" /\ pc' = [pc EXCEPT ![w]["scan"] = "mark"]
  BY DEF Remind, Goto
<1>2. PICK r \in todo[w].regs : enqueue(r, "reminder") /\ todo' = [todo EXCEPT ![w].mark = {r}]
  BY DEF Remind
<1>3. PICK G \in SUBSET Regs : G = todo[w].regs
  BY <1>0 DEF TypeOK
<1>4. PICK M \in SUBSET G : M = {r}
  BY <1>2, <1>3
<1>5. todo' = [todo EXCEPT ![w].regs = G, ![w].mark = M]
  BY <1>0, <1>2, <1>3, <1>4 DEF TypeOK
<1>6. /\ outbox' \in Seq(Row) /\ accepted' \in Seq(Nat) /\ RowsKept
      /\ DOMAIN accepted' = DOMAIN outbox'
  BY <1>2, <1>3, enqueueRows
<1>7. FaultsGrow /\ reminded' \in SUBSET Regs
  BY <1>0, <1>1, NoFaultGrows DEF TypeOK
<1>8. "mark" \in PC \ {"idle"} /\ "mark" \notin {"select", "release"}
  BY DEF PC
<1>9. pc[w]["scan"] # "idle" /\ UNCHANGED <<cur, window, lock>>
  BY <1>1
<1>10. Core' /\ ScanMoves(w, "mark", G, M)
  BY <1>1, <1>5, <1>6, <1>7, <1>8, <1>9, ScanWork
<1> QED
  BY <1>1, <1>2, <1>3, <1>4, <1>10

LEMMA MarkMoves ==
  ASSUME Core, NEW w \in Workers, Mark(w)
  PROVE  /\ Core' /\ pc[w]["scan"] = "mark"
         /\ UNCHANGED <<outbox, lock, accepted, faults, causes, redo>>
         /\ reminded' = reminded \cup todo[w].mark
         /\ \E p \in {"release", "remind"} :
              ScanMoves(w, p, todo[w].regs \ todo[w].mark, {})
<1>0. TypeOK /\ Aligned /\ Holds(w)
  BY DEF Core, WorkersHold
<1>1. PICK G \in SUBSET Regs : G = todo[w].regs \ todo[w].mark
  BY <1>0 DEF TypeOK
<1>2. PICK p \in {"release", "remind"} : p = IF G = {} THEN "release" ELSE "remind"
  OBVIOUS
<1>3. PICK M \in SUBSET G : M = {}
  OBVIOUS
<1>4. /\ UNCHANGED <<outbox, window, lock, cur, accepted, faults, causes, redo>>
      /\ pc[w]["scan"] = "mark" /\ pc' = [pc EXCEPT ![w]["scan"] = p]
      /\ todo' = [todo EXCEPT ![w].regs = G, ![w].mark = M]
      /\ reminded' = reminded \cup todo[w].mark
  BY <1>1, <1>2, <1>3 DEF Mark, Goto
<1>5. FaultsGrow /\ RowsKept
  BY <1>4, NoFaultGrows, NoRows
<1>6. outbox' \in Seq(Row) /\ accepted' \in Seq(Nat) /\ DOMAIN accepted' = DOMAIN outbox'
      /\ reminded' \in SUBSET Regs
  BY <1>0, <1>4 DEF TypeOK, Aligned
<1>7. p \in PC \ {"idle"} /\ p # "mark" /\ (p \in {"select", "release"} => G = {})
  BY <1>2 DEF PC
<1>8. pc[w]["scan"] # "idle" /\ UNCHANGED <<cur, window, lock>>
  BY <1>4
<1>9. pc' = [pc EXCEPT ![w]["scan"] = p] /\ todo' = [todo EXCEPT ![w].regs = G, ![w].mark = M]
  BY <1>4
<1>10. Core' /\ ScanMoves(w, p, G, M)
  BY <1>3, <1>5, <1>6, <1>7, <1>8, <1>9, ScanWork
<1> QED
  BY <1>1, <1>3, <1>4, <1>10

-----------------------------------------------------------------------------
(* Core: faults *)

LEMMA JobFailsMoves ==
  ASSUME Core, NEW w \in Workers, NEW j \in Jobs, JobFails(w, j)
  PROVE  /\ Core' /\ pc[w][j] # "idle" /\ FaultsGrow /\ Forgets({j} \cap Uncommitted(w))
         /\ UNCHANGED <<outbox, reminded, lock, accepted>>
         /\ \/ j = "dispatch" /\ DispatchMoves(w, "release", {}, Nothing)
            \/ j = "scan" /\ ScanMoves(w, "release", {}, {})
<1>0. TypeOK /\ Aligned
  BY DEF Core
<1>1. /\ UNCHANGED <<outbox, reminded, window, lock, accepted>>
      /\ pc[w][j] # "idle" /\ pc' = [pc EXCEPT ![w][j] = "release"]
      /\ Forget(w, j)
  BY DEF JobFails, tables
<1>2. FaultsGrow /\ Forgets({j} \cap Uncommitted(w))
  <2>1. /\ "exception" \in FaultKinds /\ "exception" \notin Jobs
        /\ Fault("exception", {j} \cap Uncommitted(w))
    BY DEF FaultKinds, Jobs, JobFails
  <2> QED
    BY <2>1, FaultGrows
<1>3. RowsKept
  BY <1>1, NoRows
<1>4. outbox' \in Seq(Row) /\ accepted' \in Seq(Nat) /\ DOMAIN accepted' = DOMAIN outbox'
      /\ reminded' \in SUBSET Regs
  BY <1>0, <1>1 DEF TypeOK, Aligned
<1>5. "release" \in PC \ {"idle"} /\ "release" \notin Sending /\ "release" # "mark"
  BY DEF PC, Sending
<1>6. CASE j = "dispatch"
  <2>1. PICK R \in SUBSET (DOMAIN outbox) : R = {}
    OBVIOUS
  <2>2. todo' = [todo EXCEPT ![w].rows = R] /\ cur' = [cur EXCEPT ![w] = Nothing]
    BY <1>1, <1>6, <2>1 DEF Forget
  <2>3. UNCHANGED <<reminded, window, lock>>
    BY <1>1
  <2>4. pc[w]["dispatch"] # "idle" /\ pc' = [pc EXCEPT ![w]["dispatch"] = "release"]
    BY <1>1, <1>6
  <2>5. Core' /\ DispatchMoves(w, "release", R, Nothing)
    BY <1>2, <1>3, <1>4, <1>5, <2>1, <2>2, <2>3, <2>4, NothingType, DispatchWork
  <2> QED
    BY <1>1, <1>2, <1>6, <2>1, <2>5
<1>7. CASE j = "scan"
  <2>0. PICK G \in SUBSET Regs : G = {}
    OBVIOUS
  <2>1. PICK M \in SUBSET G : G = {} /\ M = {}
    BY <2>0
  <2>2. todo' = [todo EXCEPT ![w].regs = G, ![w].mark = M] /\ UNCHANGED <<cur, window, lock>>
    BY <1>1, <1>7, <2>1 DEF Forget
  <2>3. pc[w]["scan"] # "idle" /\ pc' = [pc EXCEPT ![w]["scan"] = "release"]
    BY <1>1, <1>7
  <2>4. Core' /\ ScanMoves(w, "release", G, M)
    BY <1>2, <1>3, <1>4, <1>5, <2>1, <2>2, <2>3, ScanWork
  <2> QED
    BY <1>1, <1>2, <1>7, <2>1, <2>4
<1> QED
  BY <1>6, <1>7 DEF Jobs

\* The worker is nowhere and remembers nothing.
Gone(w) ==
  /\ \A j \in Jobs : pc'[w][j] = "idle"
  /\ todo'[w] = NoWork
  /\ Others(w)

LEMMA CrashMoves ==
  ASSUME Core, NEW w \in Workers, Crash(w)
  PROVE  /\ Core' /\ Gone(w) /\ FaultsGrow /\ Forgets(Uncommitted(w))
         /\ UNCHANGED <<outbox, reminded, lock, accepted>>
<1>0. TypeOK /\ Aligned /\ LocksCounted
  BY DEF Core
<1>1. /\ UNCHANGED <<outbox, reminded, window, lock, accepted>>
      /\ pc' = [pc EXCEPT ![w] = [j \in Jobs |-> "idle"]]
      /\ todo' = [todo EXCEPT ![w] = NoWork]
      /\ cur' = [cur EXCEPT ![w] = Nothing]
  BY DEF Crash, tables
<1>2. FaultsGrow /\ Forgets(Uncommitted(w))
  <2>1. /\ "crash" \in FaultKinds /\ "crash" \notin Jobs
        /\ Fault("crash", Uncommitted(w))
    BY DEF FaultKinds, Jobs, Crash
  <2> QED
    BY <2>1, FaultGrows
<1>3. RowsKept
  BY <1>1, NoRows
<1>4. [j \in Jobs |-> "idle"] \in [Jobs -> PC]
  BY DEF PC
<1>5. /\ pc' \in [Workers -> [Jobs -> PC]]
      /\ \A j \in Jobs : pc'[w][j] = "idle"
      /\ \A v \in Workers \ {w} : pc'[v] = pc[v]
  BY <1>0, <1>1, <1>4 DEF TypeOK
<1>6. /\ todo' \in [Workers -> [rows : SUBSET Nat, regs : SUBSET Regs, mark : SUBSET Regs]]
      /\ cur' \in [Workers -> Loaded] /\ todo'[w] = NoWork
      /\ \A v \in Workers \ {w} : todo'[v] = todo[v] /\ cur'[v] = cur[v]
  BY <1>0, <1>1, NothingType DEF TypeOK
<1>7. Gone(w)
  BY <1>5, <1>6 DEF Gone, Others, Same
<1>8. TypeOK' /\ Aligned'
  BY <1>0, <1>1, <1>2, <1>5, <1>6 DEF TypeOK, Aligned, FaultsGrow, RedoGrows
<1>9. Holds(w)'
  BY <1>5, <1>6 DEF Holds, Sending, NoWork, Jobs
<1>10. WorkersHold'
  BY <1>3, <1>7, <1>8, <1>9, HoldsStays DEF WorkersHold, Gone, Others
<1>11. LocksCounted'
  <2> SUFFICES ASSUME NEW k \in Jobs
               PROVE  /\ IsFiniteSet(Inside(k)')
                      /\ Entitled(k)' <= 1 + redo'[k]
                      /\ k \notin causes' => Entitled(k)' <= 1
    BY DEF LocksCounted
  <2>1. /\ IsFiniteSet(Inside(k)) /\ Entitled(k) <= 1 + redo[k] /\ redo[k] \in Nat
        /\ k \notin causes => Entitled(k) <= 1
    BY <1>0 DEF LocksCounted, TypeOK
  <2>a. redo'[k] \in Nat /\ redo'[k] >= redo[k] /\ causes \subseteq causes'
    BY <1>2 DEF FaultsGrow, RedoGrows
  <2>2. Inside(k)' \in SUBSET Inside(k)
    BY <1>5 DEF Inside
  <2>3. IsFiniteSet(Inside(k)') /\ Cardinality(Inside(k)') <= Cardinality(Inside(k))
    BY <2>1, <2>2, FS_Subset
  <2>4. Cardinality(Inside(k)') \in Nat /\ Cardinality(Inside(k)) \in Nat
    BY <2>1, <2>3, FS_CardinalityType
  <2> QED
    BY <1>1, <2>1, <2>a, <2>3, <2>4 DEF Entitled
<1> QED
  BY <1>1, <1>2, <1>7, <1>8, <1>10, <1>11 DEF Core

-----------------------------------------------------------------------------
(* Core: the theorems *)

\* One case per action; UNCHANGED vars for a step that does nothing.
LEMMA CoreStep ==
  ASSUME Core, [Next]_vars
  PROVE  Core'
<1>1. ASSUME NEW w \in Workers, NEW j \in Jobs, Job(w, j) PROVE Core'
  BY <1>1, AcquireCore, ReleaseCore, DispatchSelectMoves, DispatchLoadMoves, SendOneMoves,
     SendCommitMoves, ScanSelectMoves, RemindMoves, MarkMoves DEF Job, Dispatch, Scan
<1>2. ASSUME NEW w \in Workers, NEW j \in Jobs, JobFails(w, j) PROVE Core'
  BY <1>2, JobFailsMoves
<1>3. ASSUME NEW w \in Workers, Crash(w) PROVE Core'
  BY <1>3, CrashMoves
<1>4. ASSUME NEW j \in Jobs, StaleLockExpires(j) \/ LockOverrun(j) PROVE Core'
  BY <1>4, ExpiryCore
<1>5. ASSUME NEW r \in Regs, Registered(r) \/ WindowMoves(r) PROVE Core'
  BY <1>5, RegisteredCore, WindowMovesCore
<1>6. ASSUME NEW i \in 1 .. MaxRows, BackoffElapses(i) PROVE Core'
  BY <1>6, BackoffCore
<1>7. CASE UNCHANGED vars
  <2>1. UNCHANGED <<outbox, reminded, window, lock, pc, todo, cur, accepted, faults, causes, redo>>
    BY <1>7 DEF vars
  <2>2. TypeOK' /\ Aligned'
    BY <2>1 DEF Core, TypeOK, Aligned
  <2> QED
    BY <2>1, <2>2, NoRows, WorldCore
<1> QED
  BY <1>1, <1>2, <1>3, <1>4, <1>5, <1>6, <1>7 DEF Next

LEMMA CoreAlways == Spec => []Core
<1>1. Core /\ [Next]_vars => Core'
  BY CoreStep
<1> QED
  BY <1>1, InitCore, PTL DEF Spec

\* The tables, the locks and what every worker remembers keep their types.
THEOREM TypeCorrect == Spec => []TypeOK
<1>1. Core => TypeOK
  BY DEF Core
<1> QED
  BY <1>1, CoreAlways, PTL

\* The Redis lock of _with_lock keeps two workers out of one job, through crashes
\* and the unconditional delete of the key, for as long as no job outlives its
\* time to live; the invariant counts the workers inside and the one that a free
\* lock would admit.
THEOREM JobsAreExclusive == Spec => []OneWorkerPerJob
<1>1. Core => OneWorkerPerJob
  <2> SUFFICES ASSUME Core, NEW j \in Jobs \ causes PROVE Cardinality(Inside(j)) <= 1
    BY DEF OneWorkerPerJob
  <2>1. IsFiniteSet(Inside(j)) /\ Entitled(j) <= 1
    BY DEF Core, LocksCounted
  <2>2. Cardinality(Inside(j)) \in Nat
    BY <2>1, FS_CardinalityType
  <2> QED
    BY <2>1, <2>2 DEF Entitled
<1> QED
  BY <1>1, CoreAlways, PTL

-----------------------------------------------------------------------------
(* Who is entitled to run a job *)

\* No more workers are entitled to a job than before, or one at most, or one more
\* at the price of a fault that counts for it.
Paid(j) ==
  \/ Entitled(j)' <= Entitled(j)
  \/ Entitled(j)' <= 1
  \/ Entitled(j)' <= Entitled(j) + 1 /\ redo'[j] >= redo[j] + 1

LEMMA RedoType ==
  ASSUME Core
  PROVE  /\ "dispatch" \in Jobs /\ "scan" \in Jobs
         /\ redo["dispatch"] \in Nat /\ redo["scan"] \in Nat
BY DEF Core, TypeOK, Jobs

LEMMA EntitledType ==
  ASSUME Core, NEW j \in Jobs
  PROVE  /\ IsFiniteSet(Inside(j)) /\ Cardinality(Inside(j)) \in Nat
         /\ Entitled(j) \in Nat /\ redo[j] \in Nat
         /\ Cardinality(Inside(j)) <= Entitled(j) /\ Entitled(j) <= 1 + redo[j]
<1>1. IsFiniteSet(Inside(j)) /\ redo[j] \in Nat /\ Entitled(j) <= 1 + redo[j]
  BY DEF Core, LocksCounted, TypeOK
<1>2. Cardinality(Inside(j)) \in Nat
  BY <1>1, FS_CardinalityType
<1> QED
  BY <1>1, <1>2 DEF Entitled

LEMMA EntitledTypeNext ==
  ASSUME Core', NEW j \in Jobs
  PROVE  Entitled(j)' \in Nat /\ redo'[j] \in Nat /\ Entitled(j)' <= 1 + redo'[j]
<1>1. IsFiniteSet(Inside(j)') /\ redo'[j] \in Nat /\ Entitled(j)' <= 1 + redo'[j]
  BY DEF Core, LocksCounted, TypeOK
<1>2. Cardinality(Inside(j)') \in Nat
  BY <1>1, FS_CardinalityType
<1> QED
  BY <1>1, <1>2 DEF Entitled

\* Nobody enters or leaves a job.
LEMMA EntitledSame ==
  ASSUME NEW j \in Jobs, lock' = lock,
         \A v \in Workers : pc'[v][j] # "idle" <=> pc[v][j] # "idle"
  PROVE  Entitled(j)' = Entitled(j)
<1>1. Inside(j)' = Inside(j)
  BY DEF Inside
<1> QED
  BY <1>1 DEF Entitled

LEMMA EntitledExpiry ==
  ASSUME Core, NEW j \in Jobs, StaleLockExpires(j) \/ LockOverrun(j)
  PROVE  \A k \in Jobs : Paid(k)
<1> SUFFICES ASSUME NEW k \in Jobs PROVE Paid(k)
  OBVIOUS
<1>1. /\ lock[j] /\ lock' = [lock EXCEPT ![j] = FALSE] /\ pc' = pc
      /\ Inside(j) = {} \/ redo'[j] = redo[j] + 1
  BY DEF StaleLockExpires, LockOverrun, Fault
<1>2. Inside(k)' = Inside(k)
  BY <1>1 DEF Inside
<1>3. lock'[j] = FALSE /\ (k # j => lock'[k] = lock[k])
  BY <1>1 DEF Core, TypeOK
<1>4. /\ Cardinality(Inside(k)) \in Nat /\ redo[j] \in Nat
      /\ Inside(k) = {} => Cardinality(Inside(k)) = 0
  BY EntitledType, FS_EmptySet
<1> QED
  BY <1>1, <1>2, <1>3, <1>4 DEF Paid, Entitled

\* A crash takes one worker out of the jobs it was in.
LEMMA EntitledCrash ==
  ASSUME Core, Core', NEW w \in Workers, Gone(w), lock' = lock, NEW j \in Jobs
  PROVE  Entitled(j)' = Entitled(j) - One(pc[w][j] # "idle")
<1>1. Inside(j) \ {w} = Inside(j)' \ {w}
  BY DEF Inside, Gone, Others, Same
<1>2. IsFiniteSet(Inside(j))
  BY EntitledType
<1>3. /\ Cardinality(Inside(j)) \in Nat /\ Cardinality(Inside(j)') \in Nat
      /\ Cardinality(Inside(j)') = Cardinality(Inside(j)) + One(w \in Inside(j)') - One(w \in Inside(j))
  BY <1>1, <1>2, CardinalityChange
<1>4. w \notin Inside(j)' /\ (w \in Inside(j) <=> pc[w][j] # "idle")
  BY DEF Inside, Gone
<1> QED
  BY <1>3, <1>4 DEF Entitled, One

-----------------------------------------------------------------------------
(* Deliveries *)

LEMMA DeliveryNumbers ==
  ASSUME Core, NEW i
  PROVE  /\ IsFiniteSet(Taken(i)) /\ IsFiniteSet(Ahead(i))
         /\ Cardinality(Taken(i)) \in Nat /\ Cardinality(Ahead(i)) \in Nat
         /\ Cardinality(Taken(i)) + Cardinality(Ahead(i)) <= Entitled("dispatch")
         /\ Entitled("dispatch") \in Nat /\ redo["dispatch"] \in Nat
         /\ Entitled("dispatch") <= 1 + redo["dispatch"]
         /\ i \in DOMAIN outbox => accepted[i] \in Nat
<1>1. "dispatch" \in Jobs
  BY DEF Jobs
<1>2. /\ IsFiniteSet(Inside("dispatch")) /\ Cardinality(Inside("dispatch")) \in Nat
      /\ Entitled("dispatch") \in Nat /\ redo["dispatch"] \in Nat
      /\ Cardinality(Inside("dispatch")) <= Entitled("dispatch")
      /\ Entitled("dispatch") <= 1 + redo["dispatch"]
  BY <1>1, EntitledType
<1>3. Taken(i) \subseteq Inside("dispatch") /\ Taken(i) \cap Ahead(i) = {}
  BY DEF Taken, Ahead, Inside
<1>4. Ahead(i) \subseteq Inside("dispatch")
  BY DEF Ahead, Inside, Core, WorkersHold, Holds
<1>5. /\ IsFiniteSet(Taken(i)) /\ IsFiniteSet(Ahead(i))
      /\ Cardinality(Taken(i)) \in Nat /\ Cardinality(Ahead(i)) \in Nat
      /\ Cardinality(Taken(i)) + Cardinality(Ahead(i)) <= Cardinality(Inside("dispatch"))
  BY <1>2, <1>3, <1>4, CardinalityParts
<1>6. i \in DOMAIN outbox => accepted[i] \in Nat
  BY DEF Core, TypeOK, Aligned
<1> QED
  BY <1>2, <1>5, <1>6

\* Nothing happens to the row or to the workers that deal with it.
LEMMA DeliverySame ==
  ASSUME Core, Core', NEW i \in DOMAIN outbox, DeliveryBalance(i),
         Taken(i)' = Taken(i), Ahead(i)' = Ahead(i), i \in DOMAIN outbox',
         outbox'[i].status = "pending" <=> outbox[i].status = "pending",
         accepted'[i] = accepted[i], redo'["dispatch"] >= redo["dispatch"], Paid("dispatch")
  PROVE  DeliveryBalance(i)'
<1>1. /\ Cardinality(Taken(i)) \in Nat /\ Cardinality(Ahead(i)) \in Nat
      /\ Entitled("dispatch") \in Nat /\ redo["dispatch"] \in Nat /\ accepted[i] \in Nat
  BY DeliveryNumbers
<1>2. Entitled("dispatch")' \in Nat /\ redo'["dispatch"] \in Nat
  <2>1. "dispatch" \in Jobs
    BY DEF Jobs
  <2> QED
    BY <2>1, EntitledTypeNext
<1> QED
  BY <1>1, <1>2 DEF DeliveryBalance, Balance, Paid

\* What a worker's step does to the workers that deal with a row.
LEMMA DispatchSets ==
  ASSUME Core, NEW w \in Workers, NEW p, NEW R, NEW c, DispatchMoves(w, p, R, c), NEW i
  PROVE  /\ Cardinality(Taken(i)') \in Nat /\ Cardinality(Ahead(i)') \in Nat
         /\ Cardinality(Taken(i)') = Cardinality(Taken(i))
              + One(p = "commit_sent" /\ c.id = i)
              - One(pc[w]["dispatch"] = "commit_sent" /\ cur[w].id = i)
         /\ Cardinality(Ahead(i)') = Cardinality(Ahead(i))
              + One(i \in R /\ ~ (p \in {"commit_sent", "commit_retry"} /\ c.id = i))
              - One(i \in todo[w].rows
                    /\ ~ (pc[w]["dispatch"] \in {"commit_sent", "commit_retry"} /\ cur[w].id = i))
<1>1. IsFiniteSet(Taken(i)) /\ IsFiniteSet(Ahead(i))
  BY DeliveryNumbers
<1>2. Taken(i) \ {w} = Taken(i)' \ {w} /\ Ahead(i) \ {w} = Ahead(i)' \ {w}
  BY DEF Taken, Ahead, DispatchMoves, Others, Same
<1>3. /\ w \in Taken(i)' <=> p = "commit_sent" /\ c.id = i
      /\ w \in Taken(i) <=> pc[w]["dispatch"] = "commit_sent" /\ cur[w].id = i
  BY DEF Taken, DispatchMoves
<1>4. /\ w \in Ahead(i)' <=> i \in R /\ ~ (p \in {"commit_sent", "commit_retry"} /\ c.id = i)
      /\ w \in Ahead(i) <=> i \in todo[w].rows
           /\ ~ (pc[w]["dispatch"] \in {"commit_sent", "commit_retry"} /\ cur[w].id = i)
  BY DEF Ahead, DispatchMoves
<1>5. /\ Cardinality(Taken(i)') \in Nat
      /\ Cardinality(Taken(i)') = Cardinality(Taken(i)) + One(w \in Taken(i)') - One(w \in Taken(i))
  BY <1>1, <1>2, CardinalityChange
<1>6. /\ Cardinality(Ahead(i)') \in Nat
      /\ Cardinality(Ahead(i)') = Cardinality(Ahead(i)) + One(w \in Ahead(i)') - One(w \in Ahead(i))
  BY <1>1, <1>2, CardinalityChange
<1> QED
  BY <1>3, <1>4, <1>5, <1>6 DEF One

\* A step that is none of dispatch_outbox: rows are added or become due.
RowsIdle ==
  /\ DOMAIN outbox \subseteq DOMAIN outbox'
  /\ \A i \in DOMAIN outbox :
       /\ outbox'[i].status = outbox[i].status /\ outbox'[i].attempts = outbox[i].attempts
       /\ accepted'[i] = accepted[i]
  /\ \A i \in DOMAIN outbox' \ DOMAIN outbox :
       /\ outbox'[i].status = "pending" /\ outbox'[i].attempts = 0
       /\ accepted'[i] = 0

DispatchIdle ==
  /\ \A v \in Workers :
       /\ cur'[v] = cur[v] /\ todo'[v].rows = todo[v].rows
       /\ \/ pc'[v]["dispatch"] = pc[v]["dispatch"]
          \/ {pc'[v]["dispatch"], pc[v]["dispatch"]} \subseteq {"idle", "select", "release"}
  /\ RowsIdle
  /\ redo'["dispatch"] >= redo["dispatch"] /\ causes \subseteq causes' /\ Paid("dispatch")

LEMMA DeliveriesIdle ==
  ASSUME Core, Core', DeliveriesBalance, DispatchIdle
  PROVE  DeliveriesBalance'
<1> SUFFICES ASSUME NEW i \in DOMAIN outbox' PROVE DeliveryBalance(i)'
  BY DEF DeliveriesBalance
<1>1. CASE i \in DOMAIN outbox
  <2>1. Taken(i)' = Taken(i) /\ Ahead(i)' = Ahead(i)
    BY DEF DispatchIdle, Taken, Ahead
  <2>2. /\ outbox'[i].status = "pending" <=> outbox[i].status = "pending"
        /\ accepted'[i] = accepted[i] /\ redo'["dispatch"] >= redo["dispatch"] /\ Paid("dispatch")
    BY <1>1 DEF DispatchIdle, RowsIdle
  <2>3. DeliveryBalance(i)
    BY <1>1 DEF DeliveriesBalance
  <2> QED
    BY <1>1, <2>1, <2>2, <2>3, DeliverySame
<1>2. CASE i \notin DOMAIN outbox
  <2>1. outbox'[i].status = "pending" /\ accepted'[i] = 0
    BY <1>2 DEF DispatchIdle, RowsIdle
  <2>2. Taken(i)' = Taken(i)
    BY DEF DispatchIdle, Taken
  <2>3. Cardinality(Taken(i)) \in Nat
    BY DeliveryNumbers
  <2>4. /\ Entitled("dispatch")' \in Nat /\ redo'["dispatch"] \in Nat
        /\ Entitled("dispatch")' <= 1 + redo'["dispatch"]
    BY EntitledTypeNext DEF Jobs
  <2> QED
    BY <2>1, <2>2, <2>3, <2>4 DEF DeliveryBalance, Balance
<1> QED
  BY <1>1, <1>2

\* Workers that stay in dispatch_outbox, or never were there, keep the lock's count.
LEMMA DispatchEntitled ==
  ASSUME NEW w \in Workers, NEW p, NEW R, NEW c, DispatchMoves(w, p, R, c),
         p # "idle", pc[w]["dispatch"] # "idle", lock' = lock
  PROVE  Entitled("dispatch")' = Entitled("dispatch") /\ Entitled("scan")' = Entitled("scan")
<1>1. "dispatch" \in Jobs /\ "scan" \in Jobs
  BY DEF Jobs
<1>2. \A v \in Workers : /\ pc'[v]["dispatch"] # "idle" <=> pc[v]["dispatch"] # "idle"
                         /\ pc'[v]["scan"] # "idle" <=> pc[v]["scan"] # "idle"
  BY DEF DispatchMoves, Others, Same
<1> QED
  BY <1>1, <1>2, EntitledSame

LEMMA SelectDeliveries ==
  ASSUME Core, Core', DeliveriesBalance, NEW w \in Workers, DispatchSelect(w)
  PROVE  DeliveriesBalance'
<1>1. /\ pc[w]["dispatch"] = "select" /\ UNCHANGED <<outbox, lock, accepted, faults, causes, redo>>
      /\ \/ DispatchMoves(w, "release", todo[w].rows, cur[w])
         \/ \E R \in SUBSET (DOMAIN outbox) : \E i \in R :
              /\ DispatchMoves(w, "send", R, Load(i))
              /\ \A k \in R : outbox[k].status = "pending"
  BY DispatchSelectMoves
<1>2. PICK p, R, c :
           /\ p \in {"release", "send"}
           /\ DispatchMoves(w, p, R, c)
           /\ R = {} \/ \A k \in R : outbox[k].status = "pending"
  <2>1. todo[w].rows = {}
    BY <1>1 DEF Core, WorkersHold, Holds
  <2> QED
    BY <1>1, <2>1
<1>3. Entitled("dispatch")' = Entitled("dispatch")
  BY <1>1, <1>2, DispatchEntitled
<1> SUFFICES ASSUME NEW i \in DOMAIN outbox PROVE DeliveryBalance(i)'
  BY <1>1 DEF DeliveriesBalance
<1>4. /\ Cardinality(Taken(i)) \in Nat /\ Cardinality(Ahead(i)) \in Nat
      /\ Entitled("dispatch") \in Nat /\ redo["dispatch"] \in Nat /\ accepted[i] \in Nat
      /\ Cardinality(Taken(i)) + Cardinality(Ahead(i)) <= Entitled("dispatch")
  BY DeliveryNumbers
<1>5. /\ Cardinality(Taken(i)') = Cardinality(Taken(i))
      /\ outbox[i].status # "pending" => Cardinality(Ahead(i)') <= Cardinality(Ahead(i))
      /\ Cardinality(Ahead(i)') \in Nat
  <2>1. /\ Cardinality(Taken(i)') = Cardinality(Taken(i))
              + One(p = "commit_sent" /\ c.id = i)
              - One(pc[w]["dispatch"] = "commit_sent" /\ cur[w].id = i)
        /\ Cardinality(Ahead(i)') \in Nat
        /\ Cardinality(Ahead(i)') = Cardinality(Ahead(i))
              + One(i \in R /\ ~ (p \in {"commit_sent", "commit_retry"} /\ c.id = i))
              - One(i \in todo[w].rows
                    /\ ~ (pc[w]["dispatch"] \in {"commit_sent", "commit_retry"} /\ cur[w].id = i))
    BY <1>2, DispatchSets
  <2>2. outbox[i].status # "pending" => i \notin R
    BY <1>2
  <2> QED
    BY <1>1, <1>2, <1>4, <2>1, <2>2 DEF One
<1>6. DeliveryBalance(i)
  BY DEF DeliveriesBalance
<1> QED
  BY <1>1, <1>3, <1>4, <1>5, <1>6 DEF DeliveryBalance, Balance

LEMMA LoadDeliveries ==
  ASSUME Core, Core', DeliveriesBalance, NEW w \in Workers, DispatchLoad(w)
  PROVE  DeliveriesBalance'
<1>1. /\ pc[w]["dispatch"] = "load" /\ UNCHANGED <<outbox, lock, accepted, faults, causes, redo>>
      /\ \E i \in todo[w].rows : DispatchMoves(w, "send", todo[w].rows, Load(i))
  BY DispatchLoadMoves
<1>2. PICK c : DispatchMoves(w, "send", todo[w].rows, c)
  BY <1>1
<1>3. Entitled("dispatch")' = Entitled("dispatch")
  BY <1>1, <1>2, DispatchEntitled
<1> SUFFICES ASSUME NEW i \in DOMAIN outbox PROVE DeliveryBalance(i)'
  BY <1>1 DEF DeliveriesBalance
<1>4. Taken(i)' = Taken(i) /\ Ahead(i)' = Ahead(i)
  BY <1>1, <1>2 DEF DispatchMoves, Others, Same, Taken, Ahead
<1>5. DeliveryBalance(i)
  BY DEF DeliveriesBalance
<1> QED
  BY <1>1, <1>3, <1>4, <1>5 DEF DeliveryBalance, Balance

LEMMA SendDeliveries ==
  ASSUME Core, Core', DeliveriesBalance, NEW w \in Workers, SendOne(w)
  PROVE  DeliveriesBalance'
<1>1. /\ pc[w]["dispatch"] = "send" /\ UNCHANGED <<outbox, lock>>
      /\ \E p \in {"commit_sent", "commit_retry"} :
           /\ DispatchMoves(w, p, todo[w].rows, cur[w])
           /\ \/ UNCHANGED <<accepted, faults, causes, redo>> /\ p = "commit_retry"
              \/ /\ accepted' = [accepted EXCEPT ![cur[w].id] = @ + 1]
                 /\ \/ UNCHANGED <<faults, causes, redo>> /\ p = "commit_sent"
                    \/ FaultsGrow /\ redo'["dispatch"] = redo["dispatch"] + 1 /\ p = "commit_retry"
  BY SendOneMoves, RedoType DEF Forgets, One
<1>2. PICK p \in {"commit_sent", "commit_retry"} :
           /\ DispatchMoves(w, p, todo[w].rows, cur[w])
           /\ \/ UNCHANGED <<accepted, faults, causes, redo>> /\ p = "commit_retry"
              \/ /\ accepted' = [accepted EXCEPT ![cur[w].id] = @ + 1]
                 /\ \/ UNCHANGED <<faults, causes, redo>> /\ p = "commit_sent"
                    \/ FaultsGrow /\ redo'["dispatch"] = redo["dispatch"] + 1 /\ p = "commit_retry"
  BY <1>1
<1>3. Entitled("dispatch")' = Entitled("dispatch")
  BY <1>1, <1>2, DispatchEntitled
<1>4. cur[w].id \in todo[w].rows
  BY <1>1 DEF Core, WorkersHold, Holds, Sending
<1> SUFFICES ASSUME NEW i \in DOMAIN outbox PROVE DeliveryBalance(i)'
  BY <1>1 DEF DeliveriesBalance
<1>5. /\ Cardinality(Taken(i)) \in Nat /\ Cardinality(Ahead(i)) \in Nat
      /\ Entitled("dispatch") \in Nat /\ redo["dispatch"] \in Nat /\ accepted[i] \in Nat
      /\ Cardinality(Taken(i)) + Cardinality(Ahead(i)) <= Entitled("dispatch")
  BY DeliveryNumbers
<1>6. DeliveryBalance(i)
  BY DEF DeliveriesBalance
<1>7. /\ Cardinality(Taken(i)') \in Nat /\ Cardinality(Ahead(i)') \in Nat
      /\ Cardinality(Taken(i)') = Cardinality(Taken(i)) + One(p = "commit_sent" /\ cur[w].id = i)
      /\ Cardinality(Ahead(i)') = Cardinality(Ahead(i)) - One(cur[w].id = i)
  <2>1. /\ Cardinality(Taken(i)') \in Nat /\ Cardinality(Ahead(i)') \in Nat
        /\ Cardinality(Taken(i)') = Cardinality(Taken(i))
              + One(p = "commit_sent" /\ cur[w].id = i)
              - One(pc[w]["dispatch"] = "commit_sent" /\ cur[w].id = i)
        /\ Cardinality(Ahead(i)') = Cardinality(Ahead(i))
              + One(i \in todo[w].rows /\ ~ (p \in {"commit_sent", "commit_retry"} /\ cur[w].id = i))
              - One(i \in todo[w].rows
                    /\ ~ (pc[w]["dispatch"] \in {"commit_sent", "commit_retry"} /\ cur[w].id = i))
    BY <1>2, DispatchSets
  <2> QED
    BY <1>1, <1>4, <1>5, <2>1 DEF One
<1>8. \/ accepted'[i] = accepted[i] /\ redo'["dispatch"] = redo["dispatch"] /\ p = "commit_retry"
      \/ /\ accepted'[i] = accepted[i] + One(cur[w].id = i)
         /\ \/ redo'["dispatch"] = redo["dispatch"] /\ p = "commit_sent"
            \/ redo'["dispatch"] = redo["dispatch"] + 1 /\ p = "commit_retry"
  <2>1. i \in DOMAIN accepted
    BY DEF Core, Aligned
  <2>2. accepted' = [accepted EXCEPT ![cur[w].id] = @ + 1] =>
          accepted'[i] = accepted[i] + One(cur[w].id = i)
    BY <1>5, <2>1 DEF One
  <2> QED
    BY <1>2, <2>2
<1>9. outbox'[i] = outbox[i]
  BY <1>1
<1>10. CASE cur[w].id = i
  BY <1>3, <1>5, <1>6, <1>7, <1>8, <1>9, <1>10 DEF DeliveryBalance, Balance, One
<1>11. CASE cur[w].id # i
  BY <1>3, <1>5, <1>6, <1>7, <1>8, <1>9, <1>11 DEF DeliveryBalance, Balance, One
<1> QED
  BY <1>10, <1>11

LEMMA CommitDeliveries ==
  ASSUME Core, Core', DeliveriesBalance, NEW w \in Workers, SendCommit(w)
  PROVE  DeliveriesBalance'
<1>1. /\ pc[w]["dispatch"] \in {"commit_sent", "commit_retry"}
      /\ UNCHANGED <<lock, accepted, faults, causes, redo>>
      /\ \E p \in {"release", "load"}, c \in Row :
           /\ DispatchMoves(w, p, todo[w].rows \ {cur[w].id}, Nothing)
           /\ Committed(w, outbox[cur[w].id], c)
           /\ DOMAIN outbox' = DOMAIN outbox
           /\ \A k \in DOMAIN outbox : outbox'[k] = IF k = cur[w].id THEN c ELSE outbox[k]
  BY SendCommitMoves
<1>2. PICK p \in {"release", "load"}, c \in Row :
           /\ DispatchMoves(w, p, todo[w].rows \ {cur[w].id}, Nothing)
           /\ Committed(w, outbox[cur[w].id], c)
           /\ DOMAIN outbox' = DOMAIN outbox
           /\ \A k \in DOMAIN outbox : outbox'[k] = IF k = cur[w].id THEN c ELSE outbox[k]
  BY <1>1
<1>3. Entitled("dispatch")' = Entitled("dispatch")
  BY <1>1, <1>2, DispatchEntitled
<1>4. /\ cur[w].id \in todo[w].rows
      /\ cur[w].status # "pending" => outbox[cur[w].id].status # "pending"
  BY <1>1 DEF Core, WorkersHold, Holds, Sending
<1> SUFFICES ASSUME NEW i \in DOMAIN outbox PROVE DeliveryBalance(i)'
  BY <1>2 DEF DeliveriesBalance
<1>5. /\ Cardinality(Taken(i)) \in Nat /\ Cardinality(Ahead(i)) \in Nat
      /\ Entitled("dispatch") \in Nat /\ redo["dispatch"] \in Nat /\ accepted[i] \in Nat
      /\ Cardinality(Taken(i)) + Cardinality(Ahead(i)) <= Entitled("dispatch")
  BY DeliveryNumbers
<1>6. DeliveryBalance(i)
  BY DEF DeliveriesBalance
<1>7. /\ Cardinality(Taken(i)') \in Nat /\ Cardinality(Ahead(i)') \in Nat
      /\ Cardinality(Taken(i)') = Cardinality(Taken(i))
            - One(pc[w]["dispatch"] = "commit_sent" /\ cur[w].id = i)
      /\ Cardinality(Ahead(i)') = Cardinality(Ahead(i))
  <2>1. PICK R, d : R = todo[w].rows \ {cur[w].id} /\ d = Nothing
    OBVIOUS
  <2>2. DispatchMoves(w, p, R, d)
    BY <1>2, <2>1
  <2>3. /\ Cardinality(Taken(i)') \in Nat /\ Cardinality(Ahead(i)') \in Nat
        /\ Cardinality(Taken(i)') = Cardinality(Taken(i))
              + One(p = "commit_sent" /\ d.id = i)
              - One(pc[w]["dispatch"] = "commit_sent" /\ cur[w].id = i)
        /\ Cardinality(Ahead(i)') = Cardinality(Ahead(i))
              + One(i \in R /\ ~ (p \in {"commit_sent", "commit_retry"} /\ d.id = i))
              - One(i \in todo[w].rows
                    /\ ~ (pc[w]["dispatch"] \in {"commit_sent", "commit_retry"} /\ cur[w].id = i))
    BY <2>2, DispatchSets
  <2>4. /\ p \notin {"commit_sent", "commit_retry"}
        /\ i \in R <=> (i \in todo[w].rows /\ ~ (cur[w].id = i))
    BY <1>2, <2>1
  <2> QED
    BY <1>1, <1>5, <2>3, <2>4 DEF One
<1>8. accepted'[i] = accepted[i] /\ redo'["dispatch"] = redo["dispatch"]
  BY <1>1
<1>9. CASE cur[w].id = i
  <2>1. outbox'[i] = c
    BY <1>2, <1>9
  <2>2. \/ outbox'[i].status # "pending"
        \/ pc[w]["dispatch"] = "commit_retry" /\ outbox'[i].status = outbox[i].status
    <3>1. Committed(w, outbox[i], c) /\ (cur[w].status # "pending" => outbox[i].status # "pending")
      BY <1>2, <1>4, <1>9
    <3> QED
      BY <2>1, <3>1 DEF Committed, Status
  <2> QED
    BY <1>1, <1>3, <1>5, <1>6, <1>7, <1>8, <1>9, <2>2 DEF DeliveryBalance, Balance, One
<1>10. CASE cur[w].id # i
  <2>1. outbox'[i] = outbox[i]
    BY <1>2, <1>10
  <2> QED
    BY <1>3, <1>5, <1>6, <1>7, <1>8, <1>10, <2>1 DEF DeliveryBalance, Balance, One
<1> QED
  BY <1>9, <1>10

\* An exception or a crash: what was taken and not committed may be taken again.
LEMMA LossDeliveries ==
  ASSUME Core, Core', DeliveriesBalance, NEW w \in Workers,
         Others(w), todo'[w].rows = {}, pc'[w]["dispatch"] # "commit_sent",
         UNCHANGED <<outbox, accepted>>,
         redo'["dispatch"] >= redo["dispatch"] + One(pc[w]["dispatch"] = "commit_sent"),
         Entitled("dispatch")' <= Entitled("dispatch")
  PROVE  DeliveriesBalance'
<1> SUFFICES ASSUME NEW i \in DOMAIN outbox PROVE DeliveryBalance(i)'
  BY DEF DeliveriesBalance
<1>1. /\ Cardinality(Taken(i)) \in Nat /\ Cardinality(Ahead(i)) \in Nat
      /\ IsFiniteSet(Taken(i)) /\ IsFiniteSet(Ahead(i))
      /\ Entitled("dispatch") \in Nat /\ redo["dispatch"] \in Nat /\ accepted[i] \in Nat
  BY DeliveryNumbers
<1>2. DeliveryBalance(i)
  BY DEF DeliveriesBalance
<1>3. Entitled("dispatch")' \in Nat /\ redo'["dispatch"] \in Nat
  BY EntitledTypeNext DEF Jobs
<1>4. /\ Taken(i) \ {w} = Taken(i)' \ {w} /\ w \notin Taken(i)'
      /\ Ahead(i) \ {w} = Ahead(i)' \ {w} /\ w \notin Ahead(i)'
  BY DEF Taken, Ahead, Others, Same
<1>5. /\ Cardinality(Taken(i)') \in Nat /\ Cardinality(Ahead(i)') \in Nat
      /\ Cardinality(Taken(i)') = Cardinality(Taken(i)) + One(w \in Taken(i)') - One(w \in Taken(i))
      /\ Cardinality(Ahead(i)') = Cardinality(Ahead(i)) + One(w \in Ahead(i)') - One(w \in Ahead(i))
  BY <1>1, <1>4, CardinalityChange
<1>a. w \in Taken(i) => pc[w]["dispatch"] = "commit_sent"
  BY DEF Taken
<1>6. /\ Cardinality(Taken(i)') >= Cardinality(Taken(i)) - (redo'["dispatch"] - redo["dispatch"])
      /\ Cardinality(Ahead(i)') <= Cardinality(Ahead(i))
      /\ redo'["dispatch"] >= redo["dispatch"]
  BY <1>1, <1>3, <1>4, <1>5, <1>a DEF One
<1>7. accepted'[i] = accepted[i] /\ outbox'[i] = outbox[i]
  OBVIOUS
<1> QED
  BY <1>1, <1>2, <1>3, <1>5, <1>6, <1>7 DEF DeliveryBalance, Balance

-----------------------------------------------------------------------------
(* Steps that are none of dispatch_outbox *)

LEMMA SameRowsIdle ==
  ASSUME UNCHANGED <<outbox, accepted>>
  PROVE  RowsIdle
BY DEF RowsIdle

LEMMA enqueueIdle ==
  ASSUME Core, NEW r \in Regs, NEW t \in {"complete", "reminder"}, enqueue(r, t)
  PROVE  RowsIdle
<1>1. /\ DOMAIN outbox' = DOMAIN outbox \cup {Len(outbox) + 1}
      /\ \A i \in DOMAIN outbox : outbox'[i] = outbox[i] /\ accepted'[i] = accepted[i]
      /\ outbox'[Len(outbox) + 1] = NewRow(r, t) /\ accepted'[Len(outbox) + 1] = 0
  BY enqueueRows
<1>2. NewRow(r, t).status = "pending" /\ NewRow(r, t).attempts = 0
  BY DEF NewRow
<1> QED
  BY <1>1, <1>2 DEF RowsIdle

LEMMA PaidSame ==
  ASSUME Core, NEW j \in Jobs, Entitled(j)' = Entitled(j)
  PROVE  Paid(j)
<1>1. Entitled(j) \in Nat
  BY EntitledType
<1> QED
  BY <1>1 DEF Paid

LEMMA ScanIsIdle ==
  ASSUME Core, NEW w \in Workers, NEW p, NEW G, NEW M, ScanMoves(w, p, G, M),
         lock' = lock, RowsIdle, redo'["dispatch"] >= redo["dispatch"], causes \subseteq causes'
  PROVE  DispatchIdle
<1>1. "dispatch" \in Jobs
  BY DEF Jobs
<1>2. \A v \in Workers :
        /\ cur'[v] = cur[v] /\ todo'[v].rows = todo[v].rows
        /\ pc'[v]["dispatch"] = pc[v]["dispatch"]
  BY DEF ScanMoves, Others, Same
<1>3. Paid("dispatch")
  BY <1>1, <1>2, EntitledSame, PaidSame
<1> QED
  BY <1>2, <1>3 DEF DispatchIdle

\* Acquire, Release and the expiry of a key, for both jobs.
LEMMA LocksIdle ==
  ASSUME Core, NEW w \in Workers, NEW j \in Jobs, Acquire(w, j) \/ Release(w, j)
  PROVE  DispatchIdle /\ \A k \in Jobs : Paid(k)
<1>0. TypeOK /\ redo["dispatch"] \in Nat
  BY RedoType DEF Core
<1>1. /\ UNCHANGED <<outbox, todo, cur, accepted, faults, causes, redo>>
      /\ \E p \in PC, b \in BOOLEAN :
           /\ {p, pc[w][j]} \subseteq {"idle", "select", "release"}
           /\ pc' = [pc EXCEPT ![w][j] = p] /\ lock' = [lock EXCEPT ![j] = b]
           /\ \/ ~ lock[j] /\ b /\ pc[w][j] = "idle" /\ p # "idle"
              \/ ~ b /\ pc[w][j] # "idle" /\ p = "idle"
  BY DEF Acquire, Release, Goto, PC, tables
<1>2. PICK p \in PC, b \in BOOLEAN :
           /\ {p, pc[w][j]} \subseteq {"idle", "select", "release"}
           /\ pc' = [pc EXCEPT ![w][j] = p] /\ lock' = [lock EXCEPT ![j] = b]
           /\ \/ ~ lock[j] /\ b /\ pc[w][j] = "idle" /\ p # "idle"
              \/ ~ b /\ pc[w][j] # "idle" /\ p = "idle"
  BY <1>1
<1>3. UNCHANGED <<faults, causes, redo>>
  BY <1>1
<1>4. \A k \in Jobs : Entitled(k) \in Nat /\ Entitled(k)' \in Nat /\ Entitled(k)' <= Entitled(k)
  BY <1>2, <1>3, EnterLeave
<1>5. \A k \in Jobs : Paid(k)
  BY <1>4 DEF Paid
<1>6. /\ pc'[w][j] = p
      /\ \A k \in Jobs \ {j} : pc'[w][k] = pc[w][k]
      /\ \A v \in Workers \ {w} : pc'[v] = pc[v]
  BY <1>0, <1>2, PcStep
<1>7. \A v \in Workers : \/ pc'[v]["dispatch"] = pc[v]["dispatch"]
                         \/ {pc'[v]["dispatch"], pc[v]["dispatch"]} \subseteq {"idle", "select", "release"}
  BY <1>2, <1>6 DEF Jobs
<1>8. RowsIdle /\ Paid("dispatch") /\ redo'["dispatch"] >= redo["dispatch"]
  BY <1>0, <1>1, <1>5, SameRowsIdle DEF Jobs
<1> QED
  BY <1>1, <1>5, <1>7, <1>8 DEF DispatchIdle

LEMMA ExpiryIdle ==
  ASSUME Core, NEW j \in Jobs, StaleLockExpires(j) \/ LockOverrun(j)
  PROVE  DispatchIdle
<1>0. "dispatch" \in Jobs /\ redo["dispatch"] \in Nat
  BY RedoType
<1>1. /\ UNCHANGED <<outbox, pc, todo, cur, accepted>> /\ causes \subseteq causes'
      /\ redo'["dispatch"] = redo["dispatch"] \/ redo'["dispatch"] = redo["dispatch"] + 1
  BY <1>0 DEF StaleLockExpires, LockOverrun, Fault, tables
<1>2. RowsIdle /\ Paid("dispatch") /\ redo'["dispatch"] >= redo["dispatch"]
  BY <1>0, <1>1, SameRowsIdle, EntitledExpiry
<1> QED
  BY <1>1, <1>2 DEF DispatchIdle

LEMMA WorldIdle ==
  ASSUME Core, UNCHANGED <<lock, pc, todo, cur, faults, causes, redo>>, RowsIdle
  PROVE  DispatchIdle
<1>1. "dispatch" \in Jobs /\ redo'["dispatch"] >= redo["dispatch"]
  BY RedoType
<1>2. Paid("dispatch")
  BY <1>1, EntitledSame, PaidSame
<1> QED
  BY <1>1, <1>2 DEF DispatchIdle

LEMMA OthersIdle ==
  ASSUME Core,
         \/ \E w \in Workers :
              \/ \E j \in Jobs : Acquire(w, j) \/ Release(w, j)
              \/ Scan(w) \/ JobFails(w, "scan")
         \/ \E j \in Jobs : StaleLockExpires(j) \/ LockOverrun(j)
         \/ \E r \in Regs : Registered(r) \/ WindowMoves(r)
         \/ \E i \in 1 .. MaxRows : BackoffElapses(i)
         \/ UNCHANGED vars
  PROVE  DispatchIdle
<1>0. "dispatch" \in Jobs /\ redo["dispatch"] \in Nat
  BY RedoType
<1>1. ASSUME NEW w \in Workers, NEW j \in Jobs, Acquire(w, j) \/ Release(w, j) PROVE DispatchIdle
  BY <1>1, LocksIdle
<1>2. ASSUME NEW w \in Workers, ScanSelect(w) PROVE DispatchIdle
  <2>1. /\ UNCHANGED <<outbox, lock, accepted, faults, causes, redo>>
        /\ \E p \in {"release", "remind"}, G \in SUBSET (Regs \ reminded) : ScanMoves(w, p, G, {})
    BY <1>2, ScanSelectMoves
  <2>2. RowsIdle /\ lock' = lock /\ redo'["dispatch"] >= redo["dispatch"] /\ causes \subseteq causes'
    BY <1>0, <2>1, SameRowsIdle
  <2> QED
    BY <2>1, <2>2, ScanIsIdle
<1>3. ASSUME NEW w \in Workers, Remind(w) PROVE DispatchIdle
  <2>1. UNCHANGED <<lock, faults, causes, redo>>
    BY <1>3, RemindMoves
  <2>2. PICK r \in todo[w].regs : ScanMoves(w, "mark", todo[w].regs, {r}) /\ enqueue(r, "reminder")
    BY <1>3, RemindMoves
  <2>3. r \in Regs
    BY DEF Core, TypeOK
  <2>4. RowsIdle /\ lock' = lock /\ redo'["dispatch"] >= redo["dispatch"] /\ causes \subseteq causes'
    BY <1>0, <2>1, <2>2, <2>3, enqueueIdle
  <2> QED
    BY <2>2, <2>4, ScanIsIdle
<1>4. ASSUME NEW w \in Workers, Mark(w) PROVE DispatchIdle
  <2>1. UNCHANGED <<outbox, lock, accepted, faults, causes, redo>>
    BY <1>4, MarkMoves
  <2>2. PICK p \in {"release", "remind"} : ScanMoves(w, p, todo[w].regs \ todo[w].mark, {})
    BY <1>4, MarkMoves
  <2>3. RowsIdle /\ lock' = lock /\ redo'["dispatch"] >= redo["dispatch"] /\ causes \subseteq causes'
    BY <1>0, <2>1, SameRowsIdle
  <2> QED
    BY <2>2, <2>3, ScanIsIdle
<1>5. ASSUME NEW w \in Workers, JobFails(w, "scan") PROVE DispatchIdle
  <2>1. "scan" \in Jobs
    BY DEF Jobs
  <2>2. UNCHANGED <<outbox, lock, accepted>> /\ FaultsGrow /\ ScanMoves(w, "release", {}, {})
    BY <1>5, <2>1, JobFailsMoves
  <2>3. RowsIdle /\ lock' = lock /\ redo'["dispatch"] >= redo["dispatch"] /\ causes \subseteq causes'
    BY <1>0, <2>2, SameRowsIdle DEF FaultsGrow, RedoGrows
  <2> QED
    BY <2>2, <2>3, ScanIsIdle
<1>6. ASSUME NEW j \in Jobs, StaleLockExpires(j) \/ LockOverrun(j) PROVE DispatchIdle
  BY <1>6, ExpiryIdle
<1>7. ASSUME NEW r \in Regs, Registered(r) PROVE DispatchIdle
  <2>1. enqueue(r, "complete") /\ UNCHANGED <<lock, pc, todo, cur, faults, causes, redo>>
    BY <1>7 DEF Registered
  <2> QED
    BY <2>1, enqueueIdle, WorldIdle
<1>8. ASSUME NEW r \in Regs, WindowMoves(r) PROVE DispatchIdle
  <2>1. UNCHANGED <<outbox, accepted, lock, pc, todo, cur, faults, causes, redo>>
    BY <1>8 DEF WindowMoves, tables
  <2> QED
    BY <2>1, SameRowsIdle, WorldIdle
<1>9. ASSUME NEW i \in 1 .. MaxRows, BackoffElapses(i) PROVE DispatchIdle
  <2>1. /\ DOMAIN outbox' = DOMAIN outbox
        /\ UNCHANGED <<lock, pc, todo, cur, accepted, faults, causes, redo>>
        /\ \A k \in DOMAIN outbox :
             /\ outbox'[k].status = outbox[k].status
             /\ outbox'[k].attempts = outbox[k].attempts
    BY <1>9, BackoffRows
  <2>2. RowsIdle
    BY <2>1 DEF RowsIdle
  <2> QED
    BY <2>1, <2>2, WorldIdle
<1>10. ASSUME UNCHANGED vars PROVE DispatchIdle
  <2>1. UNCHANGED <<outbox, accepted, lock, pc, todo, cur, faults, causes, redo>>
    BY <1>10 DEF vars
  <2> QED
    BY <2>1, SameRowsIdle, WorldIdle
<1> QED
  BY <1>1, <1>2, <1>3, <1>4, <1>5, <1>6, <1>7, <1>8, <1>9, <1>10 DEF Scan

\* A step of dispatch_outbox that loses what the worker knew.
LEMMA LossMoves ==
  ASSUME Core, NEW w \in Workers, JobFails(w, "dispatch") \/ Crash(w)
  PROVE  /\ Others(w) /\ todo'[w].rows = {} /\ pc'[w]["dispatch"] \in {"idle", "release"}
         /\ UNCHANGED <<outbox, accepted>> /\ FaultsGrow
         /\ redo'["dispatch"] >= redo["dispatch"] + One(pc[w]["dispatch"] = "commit_sent")
         /\ Entitled("dispatch")' <= Entitled("dispatch")
<1>0. "dispatch" \in Jobs /\ Entitled("dispatch") \in Nat /\ redo["dispatch"] \in Nat
  BY EntitledType, RedoType
<1>a. pc[w]["dispatch"] = "commit_sent" => "dispatch" \in Uncommitted(w)
  BY <1>0 DEF Uncommitted
<1>1. CASE JobFails(w, "dispatch")
  <2>1. /\ UNCHANGED <<outbox, lock, accepted>> /\ FaultsGrow /\ Forgets({"dispatch"} \cap Uncommitted(w))
        /\ pc[w]["dispatch"] # "idle" /\ DispatchMoves(w, "release", {}, Nothing)
    BY <1>0, <1>1, JobFailsMoves
  <2>2. Entitled("dispatch")' = Entitled("dispatch")
    BY <2>1, DispatchEntitled
  <2>3. redo'["dispatch"] >= redo["dispatch"] + One(pc[w]["dispatch"] = "commit_sent")
    BY <1>0, <1>a, <2>1 DEF Forgets, One
  <2> QED
    BY <1>0, <2>1, <2>2, <2>3 DEF DispatchMoves
<1>2. CASE Crash(w)
  <2>1. /\ Core' /\ Gone(w) /\ FaultsGrow /\ Forgets(Uncommitted(w))
        /\ UNCHANGED <<outbox, lock, accepted>>
    BY <1>2, CrashMoves
  <2>2. Entitled("dispatch")' = Entitled("dispatch") - One(pc[w]["dispatch"] # "idle")
    BY <1>0, <2>1, EntitledCrash
  <2>3. Entitled("dispatch")' <= Entitled("dispatch")
    BY <1>0, <2>2 DEF One
  <2>4. redo'["dispatch"] >= redo["dispatch"] + One(pc[w]["dispatch"] = "commit_sent")
    BY <1>0, <1>a, <2>1 DEF Forgets, One
  <2> QED
    BY <1>0, <2>1, <2>3, <2>4 DEF Gone, NoWork
<1> QED
  BY <1>1, <1>2

LEMMA StepCases ==
  ASSUME [Next]_vars
  PROVE  \/ \E w \in Workers : Dispatch(w) \/ JobFails(w, "dispatch") \/ Crash(w)
         \/ \E w \in Workers :
              \/ \E j \in Jobs : Acquire(w, j) \/ Release(w, j)
              \/ Scan(w) \/ JobFails(w, "scan")
         \/ \E j \in Jobs : StaleLockExpires(j) \/ LockOverrun(j)
         \/ \E r \in Regs : Registered(r) \/ WindowMoves(r)
         \/ \E i \in 1 .. MaxRows : BackoffElapses(i)
         \/ UNCHANGED vars
BY DEF Next, Job, Jobs

LEMMA DeliveriesStep ==
  ASSUME Core, Core', DeliveriesBalance, [Next]_vars
  PROVE  DeliveriesBalance'
<1>1. ASSUME NEW w \in Workers, Dispatch(w) PROVE DeliveriesBalance'
  BY <1>1, SelectDeliveries, LoadDeliveries, SendDeliveries, CommitDeliveries DEF Dispatch
<1>2. ASSUME NEW w \in Workers, JobFails(w, "dispatch") \/ Crash(w) PROVE DeliveriesBalance'
  <2>1. /\ Others(w) /\ todo'[w].rows = {} /\ pc'[w]["dispatch"] # "commit_sent"
        /\ UNCHANGED <<outbox, accepted>>
        /\ redo'["dispatch"] >= redo["dispatch"] + One(pc[w]["dispatch"] = "commit_sent")
        /\ Entitled("dispatch")' <= Entitled("dispatch")
    BY <1>2, LossMoves
  <2> QED
    BY <2>1, LossDeliveries
<1>3. ASSUME DispatchIdle PROVE DeliveriesBalance'
  BY <1>3, DeliveriesIdle
<1> QED
  BY <1>1, <1>2, <1>3, StepCases, OthersIdle

-----------------------------------------------------------------------------
(* Rows that are settled *)

\* What is said of one row once it is settled or given up.
RowSettled(i) ==
  /\ outbox[i].status = "sent" => accepted[i] >= 1
  /\ (outbox[i].status = "failed" /\ redo["dispatch"] = 0) => accepted[i] = 0
  /\ "dispatch" \notin causes =>
       /\ outbox[i].attempts <= MaxAttempts
       /\ outbox[i].status = "failed" => outbox[i].attempts = MaxAttempts
       /\ outbox[i].status = "pending" => outbox[i].attempts < MaxAttempts

RowsSettled == \A i \in DOMAIN outbox : RowSettled(i)

\* What a worker remembers is exact.
ExactFor(v) ==
  /\ \A i \in todo[v].rows : outbox[i].status = "pending"
  /\ pc[v]["dispatch"] \in Sending => cur[v] = Load(cur[v].id)

LEMMA ExactIs == Exact <=> ("dispatch" \notin causes => \A v \in Workers : ExactFor(v))
BY DEF Exact, ExactFor

LEMMA ExactIsNext ==
  (\A v \in Workers : ExactFor(v)') => Exact'
BY DEF Exact, ExactFor

LEMMA IdleSettled ==
  ASSUME Core, Core', Exact, RowsSettled, DispatchIdle
  PROVE  Exact' /\ RowsSettled'
<1>0. RowsIdle /\ causes \subseteq causes'
  BY DEF DispatchIdle
<1>a. redo["dispatch"] \in Nat /\ redo'["dispatch"] \in Nat /\ redo'["dispatch"] >= redo["dispatch"]
  BY RedoType, EntitledTypeNext DEF DispatchIdle
<1>1. Exact'
  <2> SUFFICES ASSUME "dispatch" \notin causes', NEW v \in Workers PROVE ExactFor(v)'
    BY DEF Exact, ExactFor
  <2>1. ExactFor(v) /\ Holds(v)
    BY <1>0, ExactIs DEF Core, WorkersHold
  <2>2. /\ cur'[v] = cur[v] /\ todo'[v].rows = todo[v].rows
        /\ pc'[v]["dispatch"] \in Sending => pc[v]["dispatch"] \in Sending
    BY DEF DispatchIdle, Sending
  <2>3. \A i \in todo[v].rows : outbox'[i].status = "pending"
    BY <1>0, <2>1 DEF ExactFor, Holds, RowsIdle
  <2>4. pc[v]["dispatch"] \in Sending => Load(cur[v].id)' = Load(cur[v].id)
    BY <1>0, <2>1, <2>2 DEF Holds, RowsIdle, Load
  <2> QED
    BY <2>1, <2>2, <2>3, <2>4 DEF ExactFor
<1>2. ASSUME NEW i \in DOMAIN outbox' PROVE RowSettled(i)'
  <2>1. CASE i \in DOMAIN outbox
    <3>1. RowSettled(i)
      BY <2>1 DEF RowsSettled
    <3>2. redo'["dispatch"] = 0 => redo["dispatch"] = 0
      BY <1>a
    <3> QED
      BY <1>0, <2>1, <3>1, <3>2 DEF RowSettled, RowsIdle
  <2>2. CASE i \notin DOMAIN outbox
    BY <1>0, <2>2, WorkerAssumption DEF RowSettled, RowsIdle
  <2> QED
    BY <2>1, <2>2
<1> QED
  BY <1>1, <1>2 DEF RowsSettled

\* A worker selects, loads, sends or forgets; no row is written.
LEMMA MoveExact ==
  ASSUME Core, Exact, NEW w \in Workers, Others(w), outbox' = outbox, causes \subseteq causes',
         "dispatch" \notin causes' => ExactFor(w)'
  PROVE  Exact'
<1> SUFFICES ASSUME "dispatch" \notin causes', NEW v \in Workers PROVE ExactFor(v)'
  BY DEF Exact, ExactFor
<1>1. ExactFor(v)
  BY ExactIs
<1>2. CASE v # w
  BY <1>1, <1>2 DEF ExactFor, Others, Same, Load
<1> QED
  BY <1>2

LEMMA SelectSettled ==
  ASSUME Core, Exact, RowsSettled, NEW w \in Workers, DispatchSelect(w)
  PROVE  Exact' /\ RowsSettled'
<1>1. /\ UNCHANGED <<outbox, accepted, faults, causes, redo>> /\ pc[w]["dispatch"] = "select"
      /\ \/ DispatchMoves(w, "release", todo[w].rows, cur[w])
         \/ \E R \in SUBSET (DOMAIN outbox) : \E i \in R :
              /\ DispatchMoves(w, "send", R, Load(i))
              /\ \A k \in R : outbox[k].status = "pending"
  BY DispatchSelectMoves
<1>2. RowsSettled'
  BY <1>1 DEF RowsSettled, RowSettled
<1>3. CASE DispatchMoves(w, "release", todo[w].rows, cur[w])
  <2>1. todo[w].rows = {}
    BY <1>1 DEF Core, WorkersHold, Holds
  <2>2. ExactFor(w)'
    BY <1>3, <2>1 DEF ExactFor, DispatchMoves, Sending
  <2>3. Others(w) /\ outbox' = outbox /\ causes \subseteq causes'
    BY <1>1, <1>3 DEF DispatchMoves
  <2> QED
    BY <1>2, <2>2, <2>3, MoveExact
<1>4. ASSUME NEW R \in SUBSET (DOMAIN outbox), NEW i \in R, DispatchMoves(w, "send", R, Load(i)),
             \A k \in R : outbox[k].status = "pending"
      PROVE  Exact'
  <2>1. ExactFor(w)'
    BY <1>1, <1>4 DEF ExactFor, DispatchMoves, Load
  <2>2. Others(w) /\ outbox' = outbox /\ causes \subseteq causes'
    BY <1>1, <1>4 DEF DispatchMoves
  <2> QED
    BY <2>1, <2>2, MoveExact
<1> QED
  BY <1>1, <1>2, <1>3, <1>4

LEMMA LoadSettled ==
  ASSUME Core, Exact, RowsSettled, NEW w \in Workers, DispatchLoad(w)
  PROVE  Exact' /\ RowsSettled'
<1>1. UNCHANGED <<outbox, accepted, faults, causes, redo>>
  BY DispatchLoadMoves
<1>2. PICK i \in todo[w].rows : DispatchMoves(w, "send", todo[w].rows, Load(i))
  BY DispatchLoadMoves
<1>3. RowsSettled'
  BY <1>1 DEF RowsSettled, RowSettled
<1>4. "dispatch" \notin causes' => ExactFor(w)'
  <2> SUFFICES ASSUME "dispatch" \notin causes' PROVE ExactFor(w)'
    OBVIOUS
  <2>1. ExactFor(w)
    BY <1>1, ExactIs
  <2> QED
    BY <1>1, <1>2, <2>1 DEF ExactFor, DispatchMoves, Load
<1>5. Others(w) /\ outbox' = outbox /\ causes \subseteq causes'
  BY <1>1, <1>2 DEF DispatchMoves
<1> QED
  BY <1>3, <1>4, <1>5, MoveExact

LEMMA SendSettled ==
  ASSUME Core, Exact, RowsSettled, NEW w \in Workers, SendOne(w)
  PROVE  Exact' /\ RowsSettled'
<1>0. Aligned /\ "dispatch" \in Jobs /\ redo["dispatch"] \in Nat /\ accepted \in Seq(Nat)
  BY RedoType DEF Core, TypeOK
<1>1. UNCHANGED outbox /\ pc[w]["dispatch"] = "send"
  BY SendOneMoves
<1>2. PICK p \in {"commit_sent", "commit_retry"} :
           /\ DispatchMoves(w, p, todo[w].rows, cur[w])
           /\ \/ UNCHANGED <<accepted, faults, causes, redo>> /\ p = "commit_retry"
              \/ /\ accepted' = [accepted EXCEPT ![cur[w].id] = @ + 1]
                 /\ \/ UNCHANGED <<faults, causes, redo>> /\ p = "commit_sent"
                    \/ FaultsGrow /\ redo'["dispatch"] = redo["dispatch"] + 1 /\ p = "commit_retry"
  BY SendOneMoves, RedoType DEF Forgets, One
<1>3. causes \subseteq causes' /\ (redo'["dispatch"] = 0 => redo["dispatch"] = 0)
  BY <1>0, <1>2 DEF FaultsGrow
<1>4. "dispatch" \notin causes => ExactFor(w)
  BY ExactIs
<1>5. "dispatch" \notin causes' => ExactFor(w)'
  <2> SUFFICES ASSUME "dispatch" \notin causes' PROVE ExactFor(w)'
    OBVIOUS
  <2>1. ExactFor(w)
    BY <1>3, <1>4
  <2> QED
    BY <1>1, <1>2, <2>1 DEF ExactFor, DispatchMoves, Load, Sending
<1>6. Exact'
  BY <1>1, <1>2, <1>3, <1>5, MoveExact DEF DispatchMoves
<1>7. cur[w].id \in todo[w].rows
  BY <1>1 DEF Core, WorkersHold, Holds, Sending
<1>8. ASSUME NEW i \in DOMAIN outbox PROVE RowSettled(i)'
  <2>1. RowSettled(i) /\ accepted[i] \in Nat /\ i \in DOMAIN accepted
    BY <1>0 DEF RowsSettled, Aligned
  <2>2. accepted'[i] = accepted[i] \/ (accepted'[i] = accepted[i] + 1 /\ i = cur[w].id)
    <3>1. \/ accepted' = accepted
          \/ accepted' = [accepted EXCEPT ![cur[w].id] = @ + 1]
      BY <1>2
    <3> QED
      BY <2>1, <3>1
  <2>3. redo["dispatch"] = 0 => outbox[cur[w].id].status = "pending"
    BY <1>0, <1>4, <1>7 DEF Aligned, ExactFor
  <2> QED
    BY <1>1, <1>3, <2>1, <2>2, <2>3 DEF RowSettled
<1> QED
  BY <1>1, <1>6, <1>8 DEF RowsSettled

LEMMA LossSettled ==
  ASSUME Core, Exact, RowsSettled, NEW w \in Workers, JobFails(w, "dispatch") \/ Crash(w)
  PROVE  Exact' /\ RowsSettled'
<1>0. "dispatch" \in Jobs /\ redo["dispatch"] \in Nat
  BY RedoType
<1>1. /\ Others(w) /\ todo'[w].rows = {} /\ pc'[w]["dispatch"] \in {"idle", "release"}
      /\ UNCHANGED <<outbox, accepted>> /\ FaultsGrow
  BY LossMoves
<1>2. ExactFor(w)'
  BY <1>1 DEF ExactFor, Sending
<1>3. Exact'
  BY <1>1, <1>2, MoveExact DEF FaultsGrow
<1>a. redo'["dispatch"] \in Nat /\ redo'["dispatch"] >= redo["dispatch"]
  BY <1>0, <1>1 DEF FaultsGrow, RedoGrows
<1>4. RowsSettled'
  BY <1>0, <1>1, <1>a DEF RowsSettled, RowSettled, FaultsGrow
<1> QED
  BY <1>3, <1>4

LEMMA CommitSettled ==
  ASSUME Core, Exact, DeliveriesBalance, RowsSettled, NEW w \in Workers, SendCommit(w)
  PROVE  Exact' /\ RowsSettled'
<1>0. /\ TypeOK /\ Aligned /\ Holds(w) /\ "dispatch" \in Jobs /\ MaxAttempts \in Nat \ {0}
      /\ redo["dispatch"] \in Nat
  BY WorkerAssumption DEF Core, WorkersHold, Jobs, TypeOK
<1>1. /\ pc[w]["dispatch"] \in {"commit_sent", "commit_retry"}
      /\ UNCHANGED <<accepted, faults, causes, redo>>
  BY SendCommitMoves
<1>2. PICK i : i = cur[w].id
  OBVIOUS
<1>3. PICK p \in {"release", "load"}, c \in Row :
           /\ DispatchMoves(w, p, todo[w].rows \ {i}, Nothing)
           /\ Committed(w, outbox[i], c)
           /\ DOMAIN outbox' = DOMAIN outbox
           /\ \A k \in DOMAIN outbox : outbox'[k] = IF k = i THEN c ELSE outbox[k]
  BY <1>2, SendCommitMoves
<1>4. /\ i \in todo[w].rows /\ i \in DOMAIN outbox
      /\ pc[w]["dispatch"] = "commit_sent" => accepted[i] >= 1
  BY <1>0, <1>1, <1>2 DEF Holds, Sending
<1>5. outbox'[i] = c /\ \A k \in DOMAIN outbox \ {i} : outbox'[k] = outbox[k]
  BY <1>3, <1>4
<1>6. "dispatch" \notin causes =>
        /\ ExactFor(w)
        /\ \A v \in Workers \ {w} : pc[v]["dispatch"] = "idle"
  <2> SUFFICES ASSUME "dispatch" \notin causes
               PROVE  /\ ExactFor(w)
                      /\ \A v \in Workers \ {w} : pc[v]["dispatch"] = "idle"
    OBVIOUS
  <2>1. ExactFor(w)
    BY ExactIs
  <2>2. /\ IsFiniteSet(Inside("dispatch")) /\ Cardinality(Inside("dispatch")) \in Nat
        /\ Entitled("dispatch") \in Nat /\ Cardinality(Inside("dispatch")) <= Entitled("dispatch")
    BY <1>0, EntitledType
  <2>3. Entitled("dispatch") <= 1
    BY <1>0 DEF Core, LocksCounted
  <2>4. Cardinality(Inside("dispatch")) <= 1
    BY <2>2, <2>3
  <2>5. w \in Inside("dispatch")
    BY <1>1 DEF Inside
  <2>6. \A v \in Inside("dispatch") : v = w
    BY <2>2, <2>4, <2>5, CardinalityOne
  <2> QED
    BY <2>1, <2>6 DEF Inside
<1>7. "dispatch" \notin causes =>
        /\ outbox[i].status = "pending" /\ cur[w].status = "pending"
        /\ cur[w].attempts = outbox[i].attempts
  <2> SUFFICES ASSUME "dispatch" \notin causes
               PROVE  /\ outbox[i].status = "pending" /\ cur[w].status = "pending"
                      /\ cur[w].attempts = outbox[i].attempts
    OBVIOUS
  <2>1. outbox[i].status = "pending" /\ cur[w] = Load(i)
    BY <1>1, <1>2, <1>4, <1>6 DEF ExactFor, Sending
  <2> QED
    BY <2>1 DEF Load
<1>8. Exact'
  <2> SUFFICES ASSUME "dispatch" \notin causes, NEW v \in Workers PROVE ExactFor(v)'
    BY <1>1 DEF Exact, ExactFor
  <2>1. CASE v = w
    <3>1. todo'[w].rows = todo[w].rows \ {i} /\ pc'[w]["dispatch"] \notin Sending
      BY <1>3 DEF DispatchMoves, Sending
    <3>2. \A k \in todo[w].rows \ {i} : outbox'[k].status = "pending"
      BY <1>0, <1>5, <1>6 DEF ExactFor, Holds
    <3> QED
      BY <2>1, <3>1, <3>2 DEF ExactFor
  <2>2. CASE v # w
    <3>1. pc'[v]["dispatch"] = "idle" /\ todo'[v].rows = todo[v].rows
      BY <1>3, <1>6, <2>2 DEF DispatchMoves, Others, Same
    <3>2. todo[v].rows = {}
      BY <1>6, <2>2 DEF Core, WorkersHold, Holds
    <3> QED
      BY <3>1, <3>2 DEF ExactFor, Sending
  <2> QED
    BY <2>1, <2>2
<1>9. c.status = "sent" => accepted[i] >= 1
  <2>1. RowSettled(i)
    BY <1>4 DEF RowsSettled
  <2>2. c.status = "sent" => (outbox[i].status = "sent" \/ pc[w]["dispatch"] = "commit_sent")
    BY <1>3 DEF Committed, Status
  <2> QED
    BY <1>4, <2>1, <2>2 DEF RowSettled
<1>10. (c.status = "failed" /\ redo["dispatch"] = 0) => accepted[i] = 0
  <2> SUFFICES ASSUME c.status = "failed", redo["dispatch"] = 0 PROVE accepted[i] = 0
    OBVIOUS
  <2>1. "dispatch" \notin causes
    BY <1>0 DEF Aligned
  <2>2. pc[w]["dispatch"] # "commit_sent" /\ outbox[i].status = "pending"
    BY <1>3, <1>7, <2>1 DEF Committed, Status
  <2>3. Taken(i) = {}
    BY <1>6, <2>1, <2>2 DEF Taken
  <2>4. Cardinality(Taken(i)) = 0 /\ accepted[i] \in Nat
    BY <1>4, <2>3, FS_EmptySet, DeliveryNumbers
  <2>5. DeliveryBalance(i)
    BY <1>4 DEF DeliveriesBalance
  <2> QED
    BY <2>2, <2>4, <2>5 DEF DeliveryBalance, Balance
<1>11. "dispatch" \notin causes =>
         /\ c.attempts <= MaxAttempts
         /\ c.status = "failed" => c.attempts = MaxAttempts
         /\ c.status = "pending" => c.attempts < MaxAttempts
  <2> SUFFICES ASSUME "dispatch" \notin causes
               PROVE  /\ c.attempts <= MaxAttempts
                      /\ c.status = "failed" => c.attempts = MaxAttempts
                      /\ c.status = "pending" => c.attempts < MaxAttempts
    OBVIOUS
  <2>1. RowSettled(i) /\ outbox[i] \in Row
    BY <1>0, <1>4 DEF RowsSettled, TypeOK
  <2>2. outbox[i].attempts < MaxAttempts /\ outbox[i].attempts \in Nat
    BY <1>7, <2>1 DEF RowSettled, Row
  <2>3. PICK n \in Nat : n = Tried(w) /\ n <= MaxAttempts /\ c.attempts = n
    BY <1>0, <1>3, <1>7, <2>2 DEF Tried, Committed
  <2>4. \/ c.status = "sent"
        \/ n >= MaxAttempts /\ c.status = "failed"
        \/ n < MaxAttempts /\ c.status = "pending"
    BY <1>3, <1>7, <2>3 DEF Committed, Status
  <2> QED
    BY <1>0, <2>3, <2>4
<1>12. ASSUME NEW k \in DOMAIN outbox PROVE RowSettled(k)'
  <2>1. RowSettled(k) /\ accepted'[k] = accepted[k]
    BY <1>1 DEF RowsSettled
  <2>2. CASE k = i
    BY <1>1, <1>5, <1>9, <1>10, <1>11, <2>2 DEF RowSettled
  <2>3. CASE k # i
    BY <1>1, <1>5, <2>1, <2>3 DEF RowSettled
  <2> QED
    BY <2>2, <2>3
<1> QED
  BY <1>3, <1>8, <1>12 DEF RowsSettled

LEMMA SettledStep ==
  ASSUME Core, Core', Exact, DeliveriesBalance, RowsSettled, [Next]_vars
  PROVE  Exact' /\ RowsSettled'
<1>1. ASSUME NEW w \in Workers, Dispatch(w) PROVE Exact' /\ RowsSettled'
  BY <1>1, SelectSettled, LoadSettled, SendSettled, CommitSettled DEF Dispatch
<1>2. ASSUME NEW w \in Workers, JobFails(w, "dispatch") \/ Crash(w) PROVE Exact' /\ RowsSettled'
  BY <1>2, LossSettled
<1>3. ASSUME DispatchIdle PROVE Exact' /\ RowsSettled'
  BY <1>3, IdleSettled
<1> QED
  BY <1>1, <1>2, <1>3, StepCases, OthersIdle

LEMMA DeliveriesAlways == Spec => [](DeliveriesBalance /\ Exact /\ RowsSettled)
<1>1. Init => DeliveriesBalance /\ Exact /\ RowsSettled
  <2> SUFFICES ASSUME Init PROVE DeliveriesBalance /\ Exact /\ RowsSettled
    OBVIOUS
  <2>1. DOMAIN outbox = {}
    BY DEF Init
  <2>2. Exact
    BY DEF Init, Exact, NoWork, Sending, Jobs
  <2> QED
    BY <2>1, <2>2 DEF DeliveriesBalance, RowsSettled
<1>2. Core /\ Core' /\ (DeliveriesBalance /\ Exact /\ RowsSettled) /\ [Next]_vars
        => (DeliveriesBalance /\ Exact /\ RowsSettled)'
  BY DeliveriesStep, SettledStep
<1> QED
  BY <1>1, <1>2, CoreAlways, PTL DEF Spec

\* A row of the outbox counts as sent only if the provider took it; nobody
\* receives a message twice, and no message that was given up was delivered,
\* unless a fault came between a send and its commit, lost an answer, or let a second
\* worker in: each of these costs at most one duplicate of a row, and a crash or a
\* failing commit anywhere else costs none.
THEOREM DeliveriesAreAccounted == Spec => []DeliveryAccounted
<1>1. Core /\ (DeliveriesBalance /\ Exact /\ RowsSettled) => DeliveryAccounted
  <2> SUFFICES ASSUME Core, DeliveriesBalance, RowsSettled, NEW i \in DOMAIN outbox
               PROVE  /\ outbox[i].status = "sent" => accepted[i] >= 1
                      /\ accepted[i] <= 1 + redo["dispatch"]
                      /\ (outbox[i].status = "failed" /\ redo["dispatch"] = 0) => accepted[i] = 0
    BY DEF DeliveryAccounted
  <2>1. RowSettled(i) /\ DeliveryBalance(i)
    BY DEF RowsSettled, DeliveriesBalance
  <2>2. /\ Cardinality(Taken(i)) \in Nat /\ Cardinality(Ahead(i)) \in Nat
        /\ Cardinality(Taken(i)) + Cardinality(Ahead(i)) <= Entitled("dispatch")
        /\ Entitled("dispatch") \in Nat /\ redo["dispatch"] \in Nat /\ accepted[i] \in Nat
    BY DeliveryNumbers
  <2>3. accepted[i] <= 1 + redo["dispatch"]
    BY <2>1, <2>2 DEF DeliveryBalance, Balance
  <2> QED
    BY <2>1, <2>3 DEF RowSettled
<1> QED
  BY <1>1, CoreAlways, DeliveriesAlways, PTL

\* A message is given up after exactly notification_max_attempts tries, unless
\* the lock expired under a running dispatch_outbox.
THEOREM AttemptsAreCounted == Spec => []AttemptsCounted
<1>1. (DeliveriesBalance /\ Exact /\ RowsSettled) => AttemptsCounted
  BY DEF RowsSettled, RowSettled, AttemptsCounted
<1> QED
  BY <1>1, DeliveriesAlways, PTL

-----------------------------------------------------------------------------
(* Reminders *)

LEMMA ReminderRowsFinite ==
  ASSUME TypeOK, NEW r
  PROVE  IsFiniteSet(ReminderRows(r)) /\ Cardinality(ReminderRows(r)) \in Nat
<1>1. DOMAIN outbox = 1 .. Len(outbox) /\ Len(outbox) \in Nat
  BY LenProperties DEF TypeOK
<1>2. IsFiniteSet(1 .. Len(outbox))
  BY <1>1, FS_Interval
<1>3. ReminderRows(r) \in SUBSET (1 .. Len(outbox))
  BY <1>1 DEF ReminderRows
<1>4. IsFiniteSet(ReminderRows(r))
  BY <1>2, <1>3, FS_Subset
<1> QED
  BY <1>4, FS_CardinalityType

LEMMA ReminderNumbers ==
  ASSUME Core, NEW r
  PROVE  /\ IsFiniteSet(Marking(r)) /\ IsFiniteSet(Planned(r))
         /\ Cardinality(Marking(r)) \in Nat /\ Cardinality(Planned(r)) \in Nat
         /\ Cardinality(Marking(r)) + Cardinality(Planned(r)) <= Entitled("scan")
         /\ Entitled("scan") \in Nat /\ redo["scan"] \in Nat
         /\ Cardinality(ReminderRows(r)) \in Nat
<1>1. "scan" \in Jobs
  BY DEF Jobs
<1>2. /\ IsFiniteSet(Inside("scan")) /\ Cardinality(Inside("scan")) \in Nat
      /\ Entitled("scan") \in Nat /\ redo["scan"] \in Nat
      /\ Cardinality(Inside("scan")) <= Entitled("scan")
  BY <1>1, EntitledType
<1>3. Marking(r) \cap Planned(r) = {}
  BY DEF Marking, Planned
<1>4. Marking(r) \subseteq Inside("scan") /\ Planned(r) \subseteq Inside("scan")
  BY DEF Marking, Planned, Inside, Core, WorkersHold, Holds
<1>5. /\ IsFiniteSet(Marking(r)) /\ IsFiniteSet(Planned(r))
      /\ Cardinality(Marking(r)) \in Nat /\ Cardinality(Planned(r)) \in Nat
      /\ Cardinality(Marking(r)) + Cardinality(Planned(r)) <= Cardinality(Inside("scan"))
  BY <1>2, <1>3, <1>4, CardinalityParts
<1>6. Cardinality(ReminderRows(r)) \in Nat
  BY ReminderRowsFinite DEF Core
<1> QED
  BY <1>2, <1>5, <1>6

\* A step that is none of scan_reminders.
ScanIdle ==
  /\ \A v \in Workers : todo'[v].regs = todo[v].regs /\ todo'[v].mark = todo[v].mark
  /\ reminded' = reminded
  /\ \A r \in Regs : ReminderRows(r)' = ReminderRows(r)
  /\ redo'["scan"] >= redo["scan"] /\ Paid("scan")

LEMMA RemindersIdle ==
  ASSUME Core, Core', RemindersBalance, ScanIdle
  PROVE  RemindersBalance'
<1> SUFFICES ASSUME NEW r \in Regs PROVE ReminderBalance(r)'
  BY DEF RemindersBalance
<1>1. Marking(r)' = Marking(r) /\ Planned(r)' = Planned(r) /\ ReminderRows(r)' = ReminderRows(r)
  BY DEF ScanIdle, Marking, Planned
<1>2. /\ Cardinality(Marking(r)) \in Nat /\ Cardinality(Planned(r)) \in Nat
      /\ Entitled("scan") \in Nat /\ redo["scan"] \in Nat /\ Cardinality(ReminderRows(r)) \in Nat
  BY ReminderNumbers
<1>3. Entitled("scan")' \in Nat /\ redo'["scan"] \in Nat
  BY EntitledTypeNext DEF Jobs
<1>4. ReminderBalance(r)
  BY DEF RemindersBalance
<1>5. reminded' = reminded /\ redo'["scan"] >= redo["scan"] /\ Paid("scan")
  BY DEF ScanIdle
<1> QED
  BY <1>1, <1>2, <1>3, <1>4, <1>5 DEF ReminderBalance, Balance, Paid

\* What a worker's step does to the workers that deal with a registration.
LEMMA ScanSets ==
  ASSUME Core, NEW w \in Workers, NEW p, NEW G, NEW M, ScanMoves(w, p, G, M), NEW r
  PROVE  /\ Cardinality(Marking(r)') \in Nat /\ Cardinality(Planned(r)') \in Nat
         /\ Cardinality(Marking(r)') = Cardinality(Marking(r))
              + One(r \in M) - One(r \in todo[w].mark)
         /\ Cardinality(Planned(r)') = Cardinality(Planned(r))
              + One(r \in G \ M) - One(r \in todo[w].regs \ todo[w].mark)
<1>1. IsFiniteSet(Marking(r)) /\ IsFiniteSet(Planned(r))
  BY ReminderNumbers
<1>2. Marking(r) \ {w} = Marking(r)' \ {w} /\ Planned(r) \ {w} = Planned(r)' \ {w}
  BY DEF Marking, Planned, ScanMoves, Others, Same
<1>3. /\ w \in Marking(r)' <=> r \in M
      /\ w \in Marking(r) <=> r \in todo[w].mark
      /\ w \in Planned(r)' <=> r \in G \ M
      /\ w \in Planned(r) <=> r \in todo[w].regs \ todo[w].mark
  BY DEF Marking, Planned, ScanMoves
<1>4. /\ Cardinality(Marking(r)') \in Nat
      /\ Cardinality(Marking(r)') = Cardinality(Marking(r)) + One(w \in Marking(r)') - One(w \in Marking(r))
  BY <1>1, <1>2, CardinalityChange
<1>5. /\ Cardinality(Planned(r)') \in Nat
      /\ Cardinality(Planned(r)') = Cardinality(Planned(r)) + One(w \in Planned(r)') - One(w \in Planned(r))
  BY <1>1, <1>2, CardinalityChange
<1> QED
  BY <1>3, <1>4, <1>5 DEF One

LEMMA ScanEntitled ==
  ASSUME NEW w \in Workers, NEW p, NEW G, NEW M, ScanMoves(w, p, G, M),
         p # "idle", pc[w]["scan"] # "idle", lock' = lock
  PROVE  Entitled("scan")' = Entitled("scan")
<1>1. "scan" \in Jobs
  BY DEF Jobs
<1>2. \A v \in Workers : pc'[v]["scan"] # "idle" <=> pc[v]["scan"] # "idle"
  BY DEF ScanMoves, Others, Same
<1> QED
  BY <1>1, <1>2, EntitledSame

LEMMA SelectReminders ==
  ASSUME Core, RemindersBalance, NEW w \in Workers, ScanSelect(w)
  PROVE  RemindersBalance'
<1>1. UNCHANGED <<outbox, reminded, lock, redo>> /\ pc[w]["scan"] = "select"
  BY ScanSelectMoves
<1>2. PICK p \in {"release", "remind"}, G \in SUBSET (Regs \ reminded) : ScanMoves(w, p, G, {})
  BY ScanSelectMoves
<1>3. Entitled("scan")' = Entitled("scan")
  BY <1>1, <1>2, ScanEntitled
<1>4. todo[w].mark = {} /\ todo[w].regs = {}
  BY <1>1 DEF Core, WorkersHold, Holds
<1> SUFFICES ASSUME NEW r \in Regs PROVE ReminderBalance(r)'
  BY DEF RemindersBalance
<1>5. /\ Cardinality(Marking(r)) \in Nat /\ Cardinality(Planned(r)) \in Nat
      /\ Entitled("scan") \in Nat /\ redo["scan"] \in Nat /\ Cardinality(ReminderRows(r)) \in Nat
  BY ReminderNumbers
<1>6. /\ Cardinality(Marking(r)') = Cardinality(Marking(r))
      /\ r \in reminded => Cardinality(Planned(r)') = Cardinality(Planned(r))
  <2>1. PICK M : M = {}
    OBVIOUS
  <2>2. /\ Cardinality(Marking(r)') = Cardinality(Marking(r))
              + One(r \in M) - One(r \in todo[w].mark)
        /\ Cardinality(Planned(r)') = Cardinality(Planned(r))
              + One(r \in G \ M) - One(r \in todo[w].regs \ todo[w].mark)
    BY <1>2, <2>1, ScanSets
  <2>3. r \notin M /\ r \notin todo[w].mark /\ r \notin todo[w].regs /\ (r \in reminded => r \notin G)
    BY <1>2, <1>4, <2>1
  <2> QED
    BY <1>5, <2>2, <2>3 DEF One
<1>7. ReminderRows(r)' = ReminderRows(r) /\ reminded' = reminded /\ redo'["scan"] = redo["scan"]
  BY <1>1 DEF ReminderRows
<1>8. ReminderBalance(r)
  BY DEF RemindersBalance
<1> QED
  BY <1>3, <1>5, <1>6, <1>7, <1>8 DEF ReminderBalance, Balance

LEMMA RemindReminders ==
  ASSUME Core, RemindersBalance, NEW w \in Workers, Remind(w)
  PROVE  RemindersBalance'
<1>1. UNCHANGED <<reminded, lock, redo>> /\ pc[w]["scan"] = "remind"
  BY RemindMoves
<1>2. PICK q \in todo[w].regs : ScanMoves(w, "mark", todo[w].regs, {q}) /\ enqueue(q, "reminder")
  BY RemindMoves
<1>3. Entitled("scan")' = Entitled("scan")
  BY <1>1, <1>2, ScanEntitled
<1>4. todo[w].mark = {} /\ q \in Regs
  BY <1>1 DEF Core, WorkersHold, Holds, TypeOK
<1>5. PICK n : n = Len(outbox) + 1
  OBVIOUS
<1>6. /\ n \notin DOMAIN outbox /\ DOMAIN outbox' = DOMAIN outbox \cup {n}
      /\ \A i \in DOMAIN outbox : outbox'[i] = outbox[i]
      /\ outbox'[n] = NewRow(q, "reminder")
  BY <1>2, <1>4, <1>5, enqueueRows
<1>7. outbox'[n].reg = q /\ outbox'[n].template = "reminder"
  BY <1>6 DEF NewRow
<1> SUFFICES ASSUME NEW r \in Regs PROVE ReminderBalance(r)'
  BY DEF RemindersBalance
<1>8. /\ Cardinality(Marking(r)) \in Nat /\ Cardinality(Planned(r)) \in Nat
      /\ Entitled("scan") \in Nat /\ redo["scan"] \in Nat /\ Cardinality(ReminderRows(r)) \in Nat
  BY ReminderNumbers
<1>9. /\ Cardinality(Marking(r)') = Cardinality(Marking(r)) + One(r = q)
      /\ Cardinality(Planned(r)') = Cardinality(Planned(r)) - One(r = q)
  <2>1. PICK M : M = {q}
    OBVIOUS
  <2>2. /\ Cardinality(Marking(r)') = Cardinality(Marking(r))
              + One(r \in M) - One(r \in todo[w].mark)
        /\ Cardinality(Planned(r)') = Cardinality(Planned(r))
              + One(r \in todo[w].regs \ M) - One(r \in todo[w].regs \ todo[w].mark)
    BY <1>2, <2>1, ScanSets
  <2>3. (r \in M <=> r = q) /\ r \notin todo[w].mark /\ (r = q => r \in todo[w].regs)
    BY <1>2, <1>4, <2>1
  <2> QED
    BY <1>8, <2>2, <2>3 DEF One
<1>10. Cardinality(ReminderRows(r)') = Cardinality(ReminderRows(r)) + One(r = q)
  <2>1. CASE r = q
    <3>1. ReminderRows(r)' = ReminderRows(r) \cup {n} /\ n \notin ReminderRows(r)
      BY <1>6, <1>7, <2>1 DEF ReminderRows
    <3>2. IsFiniteSet(ReminderRows(r))
      BY ReminderRowsFinite DEF Core
    <3> QED
      BY <2>1, <3>1, <3>2, FS_AddElement DEF One
  <2>2. CASE r # q
    <3>1. ReminderRows(r)' = ReminderRows(r)
      BY <1>6, <1>7, <2>2 DEF ReminderRows
    <3> QED
      BY <1>8, <2>2, <3>1 DEF One
  <2> QED
    BY <2>1, <2>2
<1>11. ReminderBalance(r)
  BY DEF RemindersBalance
<1>12. reminded' = reminded /\ redo'["scan"] = redo["scan"]
  BY <1>1
<1> QED
  BY <1>3, <1>8, <1>9, <1>10, <1>11, <1>12 DEF ReminderBalance, Balance, One

LEMMA MarkReminders ==
  ASSUME Core, RemindersBalance, NEW w \in Workers, Mark(w)
  PROVE  RemindersBalance'
<1>1. /\ UNCHANGED <<outbox, lock, redo>> /\ pc[w]["scan"] = "mark"
      /\ reminded' = reminded \cup todo[w].mark
  BY MarkMoves
<1>2. PICK p \in {"release", "remind"} : ScanMoves(w, p, todo[w].regs \ todo[w].mark, {})
  BY MarkMoves
<1>3. Entitled("scan")' = Entitled("scan")
  BY <1>1, <1>2, ScanEntitled
<1> SUFFICES ASSUME NEW r \in Regs PROVE ReminderBalance(r)'
  BY DEF RemindersBalance
<1>4. /\ Cardinality(Marking(r)) \in Nat /\ Cardinality(Planned(r)) \in Nat
      /\ Entitled("scan") \in Nat /\ redo["scan"] \in Nat /\ Cardinality(ReminderRows(r)) \in Nat
      /\ Cardinality(Marking(r)) + Cardinality(Planned(r)) <= Entitled("scan")
  BY ReminderNumbers
<1>5. /\ Cardinality(Marking(r)') = Cardinality(Marking(r)) - One(r \in todo[w].mark)
      /\ Cardinality(Planned(r)') = Cardinality(Planned(r))
  <2>1. PICK G, M : G = todo[w].regs \ todo[w].mark /\ M = {}
    OBVIOUS
  <2>2. /\ Cardinality(Marking(r)') = Cardinality(Marking(r))
              + One(r \in M) - One(r \in todo[w].mark)
        /\ Cardinality(Planned(r)') = Cardinality(Planned(r))
              + One(r \in G \ M) - One(r \in todo[w].regs \ todo[w].mark)
    BY <1>2, <2>1, ScanSets
  <2>3. r \notin M /\ (r \in G \ M <=> r \in todo[w].regs \ todo[w].mark)
    BY <2>1
  <2> QED
    BY <1>4, <2>2, <2>3 DEF One
<1>6. ReminderRows(r)' = ReminderRows(r) /\ redo'["scan"] = redo["scan"]
  BY <1>1 DEF ReminderRows
<1>7. ReminderBalance(r)
  BY DEF RemindersBalance
<1>8. CASE r \in todo[w].mark
  <2>1. r \in reminded'
    BY <1>1, <1>8
  <2> QED
    BY <1>3, <1>4, <1>5, <1>6, <1>7, <1>8, <2>1 DEF ReminderBalance, Balance, One
<1>9. CASE r \notin todo[w].mark
  <2>1. r \in reminded' <=> r \in reminded
    BY <1>1, <1>9
  <2> QED
    BY <1>3, <1>4, <1>5, <1>6, <1>7, <1>9, <2>1 DEF ReminderBalance, Balance, One
<1> QED
  BY <1>8, <1>9

\* An exception or a crash between the two commits of scan_reminders: the
\* reminder is queued once more.
LEMMA LossReminders ==
  ASSUME Core, Core', RemindersBalance, NEW w \in Workers, JobFails(w, "scan") \/ Crash(w)
  PROVE  RemindersBalance'
<1>0. "scan" \in Jobs /\ Entitled("scan") \in Nat /\ redo["scan"] \in Nat
  BY EntitledType, RedoType
<1>a. pc[w]["scan"] = "mark" => "scan" \in Uncommitted(w)
  BY <1>0 DEF Uncommitted
<1>1. /\ Others(w) /\ todo'[w].regs = {} /\ todo'[w].mark = {}
      /\ UNCHANGED <<outbox, reminded>>
      /\ redo'["scan"] >= redo["scan"] + One(pc[w]["scan"] = "mark")
      /\ Entitled("scan")' <= Entitled("scan")
  <2>1. CASE JobFails(w, "scan")
    <3>1. /\ UNCHANGED <<outbox, reminded, lock>> /\ Forgets({"scan"} \cap Uncommitted(w))
          /\ pc[w]["scan"] # "idle" /\ ScanMoves(w, "release", {}, {})
      BY <1>0, <2>1, JobFailsMoves
    <3>2. Entitled("scan")' = Entitled("scan")
      BY <3>1, ScanEntitled
    <3>3. redo'["scan"] >= redo["scan"] + One(pc[w]["scan"] = "mark")
      BY <1>0, <1>a, <3>1 DEF Forgets, One
    <3> QED
      BY <1>0, <3>1, <3>2, <3>3 DEF ScanMoves
  <2>2. CASE Crash(w)
    <3>1. Gone(w) /\ Forgets(Uncommitted(w)) /\ UNCHANGED <<outbox, reminded, lock>>
      BY <2>2, CrashMoves
    <3>2. Entitled("scan")' = Entitled("scan") - One(pc[w]["scan"] # "idle")
      BY <1>0, <3>1, EntitledCrash
    <3>3. Entitled("scan")' <= Entitled("scan")
      BY <1>0, <3>2 DEF One
    <3>4. redo'["scan"] >= redo["scan"] + One(pc[w]["scan"] = "mark")
      BY <1>0, <1>a, <3>1 DEF Forgets, One
    <3> QED
      BY <3>1, <3>3, <3>4 DEF Gone, NoWork
  <2> QED
    BY <2>1, <2>2
<1> SUFFICES ASSUME NEW r \in Regs PROVE ReminderBalance(r)'
  BY DEF RemindersBalance
<1>2. /\ Cardinality(Marking(r)) \in Nat /\ Cardinality(Planned(r)) \in Nat
      /\ IsFiniteSet(Marking(r)) /\ IsFiniteSet(Planned(r))
      /\ redo["scan"] \in Nat /\ Cardinality(ReminderRows(r)) \in Nat
  BY ReminderNumbers
<1>3. Entitled("scan")' \in Nat /\ redo'["scan"] \in Nat
  BY <1>0, EntitledTypeNext
<1>4. /\ Marking(r) \ {w} = Marking(r)' \ {w} /\ w \notin Marking(r)'
      /\ Planned(r) \ {w} = Planned(r)' \ {w} /\ w \notin Planned(r)'
  BY <1>1 DEF Marking, Planned, Others, Same
<1>5. /\ Cardinality(Marking(r)') \in Nat /\ Cardinality(Planned(r)') \in Nat
      /\ Cardinality(Marking(r)') = Cardinality(Marking(r)) + One(w \in Marking(r)') - One(w \in Marking(r))
      /\ Cardinality(Planned(r)') = Cardinality(Planned(r)) + One(w \in Planned(r)') - One(w \in Planned(r))
  BY <1>2, <1>4, CardinalityChange
<1>b. w \in Marking(r) => pc[w]["scan"] = "mark"
  BY DEF Marking, Core, WorkersHold, Holds
<1>6. /\ Cardinality(Marking(r)') >= Cardinality(Marking(r)) - (redo'["scan"] - redo["scan"])
      /\ Cardinality(Planned(r)') <= Cardinality(Planned(r))
      /\ redo'["scan"] >= redo["scan"]
  BY <1>1, <1>2, <1>3, <1>4, <1>5, <1>b DEF One
<1>7. ReminderRows(r)' = ReminderRows(r)
  BY <1>1 DEF ReminderRows
<1>8. ReminderBalance(r)
  BY DEF RemindersBalance
<1>9. reminded' = reminded /\ Entitled("scan")' <= Entitled("scan")
  BY <1>1
<1> QED
  BY <1>0, <1>2, <1>3, <1>5, <1>6, <1>7, <1>8, <1>9 DEF ReminderBalance, Balance

LEMMA SameReminderRows ==
  ASSUME DOMAIN outbox' = DOMAIN outbox,
         \A i \in DOMAIN outbox :
           outbox'[i].reg = outbox[i].reg /\ outbox'[i].template = outbox[i].template
  PROVE  \A r \in Regs : ReminderRows(r)' = ReminderRows(r)
BY DEF ReminderRows

LEMMA DispatchIsScanIdle ==
  ASSUME Core, NEW w \in Workers, Dispatch(w) \/ JobFails(w, "dispatch")
  PROVE  ScanIdle
<1>0. redo["scan"] \in Nat /\ "scan" \in Jobs /\ "dispatch" \in Jobs
  BY RedoType
<1>1. ASSUME NEW p, NEW R, NEW c, DispatchMoves(w, p, R, c), p # "idle",
             pc[w]["dispatch"] # "idle", UNCHANGED <<reminded, lock>>, redo'["scan"] >= redo["scan"],
             \A r \in Regs : ReminderRows(r)' = ReminderRows(r)
      PROVE  ScanIdle
  <2>1. \A v \in Workers : todo'[v].regs = todo[v].regs /\ todo'[v].mark = todo[v].mark
    BY <1>1 DEF DispatchMoves, Others, Same
  <2>2. Paid("scan")
    BY <1>0, <1>1, DispatchEntitled, PaidSame
  <2> QED
    BY <1>1, <2>1, <2>2 DEF ScanIdle
<1>2. outbox' = outbox => \A r \in Regs : ReminderRows(r)' = ReminderRows(r)
  BY DEF ReminderRows
<1>3. CASE DispatchSelect(w)
  <2>1. /\ pc[w]["dispatch"] # "idle" /\ UNCHANGED <<outbox, reminded, lock>> /\ redo'["scan"] >= redo["scan"]
        /\ \E p \in {"release", "send"} : \E R, c : DispatchMoves(w, p, R, c)
    BY <1>0, <1>3, DispatchSelectMoves
  <2> QED
    BY <1>1, <1>2, <2>1
<1>4. CASE DispatchLoad(w)
  <2>1. /\ pc[w]["dispatch"] # "idle" /\ UNCHANGED <<outbox, reminded, lock>> /\ redo'["scan"] >= redo["scan"]
        /\ \E R, c : DispatchMoves(w, "send", R, c)
    BY <1>0, <1>4, DispatchLoadMoves
  <2> QED
    BY <1>1, <1>2, <2>1
<1>5. CASE SendOne(w)
  <2>1. pc[w]["dispatch"] # "idle" /\ UNCHANGED <<outbox, reminded, lock>>
    BY <1>5, SendOneMoves
  <2>2. PICK p \in {"commit_sent", "commit_retry"} :
             /\ DispatchMoves(w, p, todo[w].rows, cur[w])
             /\ redo'["scan"] = redo["scan"] \/ FaultsGrow
    BY <1>5, SendOneMoves
  <2>3. redo'["scan"] >= redo["scan"]
    BY <1>0, <2>2 DEF FaultsGrow, RedoGrows
  <2> QED
    BY <1>1, <1>2, <2>1, <2>2, <2>3
<1>6. CASE SendCommit(w)
  <2>0. pc[w]["dispatch"] \in {"commit_sent", "commit_retry"} /\ UNCHANGED <<reminded, lock, redo>>
    BY <1>6, SendCommitMoves
  <2>1. pc[w]["dispatch"] # "idle" /\ UNCHANGED <<reminded, lock>> /\ redo'["scan"] >= redo["scan"]
    BY <1>0, <2>0
  <2>2. PICK p \in {"release", "load"}, c \in Row :
             /\ DispatchMoves(w, p, todo[w].rows \ {cur[w].id}, Nothing)
             /\ Committed(w, outbox[cur[w].id], c)
             /\ DOMAIN outbox' = DOMAIN outbox
             /\ \A k \in DOMAIN outbox : outbox'[k] = IF k = cur[w].id THEN c ELSE outbox[k]
    BY <1>6, SendCommitMoves
  <2>3. \A k \in DOMAIN outbox :
          outbox'[k].reg = outbox[k].reg /\ outbox'[k].template = outbox[k].template
    BY <2>2 DEF Committed
  <2>4. \A r \in Regs : ReminderRows(r)' = ReminderRows(r)
    BY <2>2, <2>3, SameReminderRows
  <2> QED
    BY <1>1, <2>1, <2>2, <2>4
<1>7. CASE JobFails(w, "dispatch")
  <2>1. /\ pc[w]["dispatch"] # "idle" /\ UNCHANGED <<outbox, reminded, lock>> /\ redo'["scan"] >= redo["scan"]
        /\ DispatchMoves(w, "release", {}, Nothing)
    BY <1>0, <1>7, JobFailsMoves DEF FaultsGrow, RedoGrows
  <2> QED
    BY <1>1, <1>2, <2>1
<1> QED
  BY <1>3, <1>4, <1>5, <1>6, <1>7 DEF Dispatch

LEMMA LocksScanIdle ==
  ASSUME Core,
         \/ \E w \in Workers, j \in Jobs : Acquire(w, j) \/ Release(w, j)
         \/ \E j \in Jobs : StaleLockExpires(j) \/ LockOverrun(j)
  PROVE  ScanIdle
<1>0. "scan" \in Jobs /\ redo["scan"] \in Nat
  BY RedoType
<1>1. /\ UNCHANGED <<outbox, reminded, todo>>
      /\ redo'["scan"] = redo["scan"] \/ redo'["scan"] = redo["scan"] + 1
  BY <1>0 DEF Acquire, Release, StaleLockExpires, LockOverrun, Fault, tables
<1>2. Paid("scan")
  BY LocksIdle, EntitledExpiry DEF Jobs
<1>3. redo'["scan"] >= redo["scan"]
  BY <1>0, <1>1
<1> QED
  BY <1>1, <1>2, <1>3 DEF ScanIdle, ReminderRows

LEMMA WorldScanIdle ==
  ASSUME Core, UNCHANGED <<reminded, lock, pc, todo, redo>>,
         \A r \in Regs : ReminderRows(r)' = ReminderRows(r)
  PROVE  ScanIdle
<1>1. "scan" \in Jobs /\ redo'["scan"] >= redo["scan"]
  BY RedoType
<1>2. Paid("scan")
  BY <1>1, EntitledSame, PaidSame
<1> QED
  BY <1>1, <1>2 DEF ScanIdle

LEMMA RemindersStep ==
  ASSUME Core, Core', RemindersBalance, [Next]_vars
  PROVE  RemindersBalance'
<1>1. ASSUME NEW w \in Workers, Dispatch(w) \/ JobFails(w, "dispatch") PROVE RemindersBalance'
  BY <1>1, DispatchIsScanIdle, RemindersIdle
<1>2. ASSUME NEW w \in Workers, Scan(w) PROVE RemindersBalance'
  BY <1>2, SelectReminders, RemindReminders, MarkReminders DEF Scan
<1>3. ASSUME NEW w \in Workers, JobFails(w, "scan") \/ Crash(w) PROVE RemindersBalance'
  BY <1>3, LossReminders
<1>4. ASSUME \/ \E w \in Workers, j \in Jobs : Acquire(w, j) \/ Release(w, j)
             \/ \E j \in Jobs : StaleLockExpires(j) \/ LockOverrun(j)
      PROVE  RemindersBalance'
  BY <1>4, LocksScanIdle, RemindersIdle
<1>5. ASSUME NEW q \in Regs, Registered(q) PROVE RemindersBalance'
  <2>1. enqueue(q, "complete") /\ UNCHANGED <<reminded, lock, pc, todo, redo>>
    BY <1>5 DEF Registered
  <2>2. PICK n : n = Len(outbox) + 1
    OBVIOUS
  <2>3. /\ DOMAIN outbox' = DOMAIN outbox \cup {n}
        /\ \A i \in DOMAIN outbox : outbox'[i] = outbox[i]
        /\ outbox'[n] = NewRow(q, "complete")
    BY <2>1, <2>2, enqueueRows
  <2>4. outbox'[n].template # "reminder"
    BY <2>3 DEF NewRow
  <2>5. \A r \in Regs : ReminderRows(r)' = ReminderRows(r)
    BY <2>3, <2>4 DEF ReminderRows
  <2> QED
    BY <2>1, <2>5, WorldScanIdle, RemindersIdle
<1>6. ASSUME NEW i \in 1 .. MaxRows, BackoffElapses(i) PROVE RemindersBalance'
  <2>1. UNCHANGED <<reminded, lock, pc, todo, redo>> /\ RowsKept /\ DOMAIN outbox' = DOMAIN outbox
    BY <1>6, BackoffRows
  <2>2. \A r \in Regs : ReminderRows(r)' = ReminderRows(r)
    BY <2>1, SameReminderRows DEF RowsKept
  <2> QED
    BY <2>1, <2>2, WorldScanIdle, RemindersIdle
<1>7. ASSUME (\E r \in Regs : WindowMoves(r)) \/ UNCHANGED vars PROVE RemindersBalance'
  <2>1. UNCHANGED <<outbox, reminded, lock, pc, todo, redo>>
    BY <1>7 DEF WindowMoves, vars, tables
  <2>2. \A r \in Regs : ReminderRows(r)' = ReminderRows(r)
    BY <2>1 DEF ReminderRows
  <2> QED
    BY <2>1, <2>2, WorldScanIdle, RemindersIdle
<1> QED
  BY <1>1, <1>2, <1>3, <1>4, <1>5, <1>6, <1>7, StepCases

LEMMA RemindersAlways == Spec => []RemindersBalance
<1>1. Init => RemindersBalance
  <2> SUFFICES ASSUME Init, NEW r \in Regs PROVE ReminderBalance(r)
    BY DEF RemindersBalance
  <2>1. Core
    BY InitCore
  <2>2. ReminderRows(r) = {} /\ Marking(r) = {} /\ r \notin reminded
    BY DEF Init, ReminderRows, Marking, NoWork
  <2>3. Cardinality({}) = 0
    BY FS_EmptySet
  <2>4. Entitled("scan") \in Nat /\ redo["scan"] \in Nat /\ Entitled("scan") <= 1 + redo["scan"]
    BY <2>1, EntitledType DEF Jobs
  <2> QED
    BY <2>2, <2>3, <2>4 DEF ReminderBalance, Balance
<1>2. Core /\ Core' /\ RemindersBalance /\ [Next]_vars => RemindersBalance'
  BY RemindersStep
<1> QED
  BY <1>1, <1>2, CoreAlways, PTL DEF Spec

\* An attendee is reminded of a session once, and once more at most for each crash or
\* failing commit that comes between the two commits of scan_reminders and each lock
\* that expired under the scan; no other fault repeats a reminder.
THEOREM RemindersAreCounted == Spec => []RemindersCounted
<1>1. Core /\ RemindersBalance => RemindersCounted
  <2> SUFFICES ASSUME Core, RemindersBalance, NEW r \in Regs
               PROVE  Cardinality(ReminderRows(r)) <= 1 + redo["scan"]
    BY DEF RemindersCounted
  <2>1. /\ Cardinality(Marking(r)) \in Nat /\ Cardinality(Planned(r)) \in Nat
        /\ Entitled("scan") \in Nat /\ redo["scan"] \in Nat /\ Cardinality(ReminderRows(r)) \in Nat
        /\ Cardinality(Marking(r)) + Cardinality(Planned(r)) <= Entitled("scan")
    BY ReminderNumbers
  <2>2. ReminderBalance(r)
    BY DEF RemindersBalance
  <2> QED
    BY <2>1, <2>2 DEF ReminderBalance, Balance
<1> QED
  BY <1>1, CoreAlways, RemindersAlways, PTL
=============================================================================
