-------------------------- MODULE OrderServiceProofs --------------------------
(***************************************************************************)
(* Proofs about OrderService for any number of handlers, events, ticket    *)
(* types, sessions, codes, orders and registrations.                       *)
(***************************************************************************)
EXTENDS OrderService, TLAPS, SequenceTheorems, FiniteSetTheorems

\* A handler that holds nothing is well typed.
LEMMA NoRequestType == NoRequest \in Request
BY SaleAssumption DEF NoRequest, Request

\* What Goto does to the control state of the handler that moves and of the others.
LEMMA GotoStep ==
  ASSUME TypeOK, NEW h \in Handlers, NEW from, NEW to \in PC, NEW l \in Request,
         Goto(h, from, to, l)
  PROVE  /\ pc' \in [Handlers -> PC]
         /\ loc' \in [Handlers -> Request]
         /\ pc[h] = from /\ pc'[h] = to /\ loc'[h] = l
         /\ \A g \in Handlers \ {h} : pc'[g] = pc[g] /\ loc'[g] = loc[g]
BY DEF TypeOK, Goto

-----------------------------------------------------------------------------
(***************************************************************************)
(* The inductive invariant.  SoldWithinQuantity is not inductive alone: a  *)
(* commit writes what its handler read earlier, so the invariant also says *)
(* what each handler may hold (HeldOK).                                    *)
(***************************************************************************)
Inv ==
  /\ TypeOK
  /\ OrdersResolve
  /\ HeldOK
  /\ SoldWithinQuantity
  /\ CompletedIffRegistered
  /\ UsesNeverOverstated
  /\ NotifiedAfterCommit

\* A handler with no request holds nothing that could be wrong.
LEMMA IdleHolds == HeldKeys("idle", NoRequest) /\ HeldSold("idle", NoRequest) /\ HeldUses("idle", NoRequest)
BY DEF HeldKeys, HeldSold, HeldUses

\* The empty database with idle handlers satisfies the invariant.
LEMMA InitInv == Init => Inv
<1> SUFFICES ASSUME Init PROVE Inv
  OBVIOUS
<1>1. TypeOK
  BY SaleAssumption, NoRequestType, EmptySeq DEF Init, TypeOK, EventStatus, PC
<1>2. DOMAIN orders = {} /\ DOMAIN regs = {}
  BY DEF Init
<1>3. OrdersResolve /\ CompletedIffRegistered
  BY <1>2 DEF OrdersResolve, CompletedIffRegistered
<1>4. HeldOK
  BY IdleHolds DEF Init, HeldOK
<1>5. SoldWithinQuantity
  BY SaleAssumption DEF Init, SoldWithinQuantity, Limits
<1>6. UsesNeverOverstated
  <2> SUFFICES ASSUME NEW c \in Codes PROVE uses[c] <= Cardinality(Redeemed(c))
    BY DEF UsesNeverOverstated
  <2>1. Redeemed(c) = {}
    BY <1>2 DEF Redeemed
  <2> QED
    BY <2>1, FS_EmptySet DEF Init
<1>7. NotifiedAfterCommit
  BY DEF Init, NotifiedAfterCommit
<1> QED
  BY <1>1, <1>3, <1>4, <1>5, <1>6, <1>7 DEF Inv

\* The registrations that redeemed a code are finitely many, and rows that only
\* move forward only add to them.
LEMMA RedeemedFinite ==
  ASSUME TypeOK, NEW c
  PROVE  IsFiniteSet(Redeemed(c)) /\ Cardinality(Redeemed(c)) \in Nat
<1>1. DOMAIN regs = 1 .. Len(regs) /\ Len(regs) \in Nat
  BY LenProperties DEF TypeOK
<1>2. IsFiniteSet(DOMAIN regs)
  BY <1>1, FS_Interval
<1>3. Redeemed(c) \in SUBSET DOMAIN regs
  BY DEF Redeemed
<1> QED
  BY <1>2, <1>3, FS_Subset, FS_CardinalityType

LEMMA RedeemedGrows ==
  ASSUME TypeOK, TypeOK', OrdersResolve, RowsMoveForward, NEW c
  PROVE  /\ Redeemed(c) \subseteq Redeemed(c)'
         /\ IsFiniteSet(Redeemed(c)')
         /\ Cardinality(Redeemed(c)) \in Nat
         /\ Cardinality(Redeemed(c)') \in Nat
         /\ Cardinality(Redeemed(c)) <= Cardinality(Redeemed(c)')
<1>1. Redeemed(c) \subseteq Redeemed(c)'
  BY DEF Redeemed, OrdersResolve, RowsMoveForward
<1>2. IsFiniteSet(Redeemed(c)') /\ Cardinality(Redeemed(c)') \in Nat
  <2>1. DOMAIN regs' = 1 .. Len(regs') /\ Len(regs') \in Nat
    BY LenProperties DEF TypeOK
  <2>2. IsFiniteSet(DOMAIN regs')
    BY <2>1, FS_Interval
  <2>3. Redeemed(c)' \in SUBSET DOMAIN regs'
    BY DEF Redeemed
  <2> QED
    BY <2>2, <2>3, FS_Subset, FS_CardinalityType
<1>3. Cardinality(Redeemed(c)) \in Nat
  BY RedeemedFinite
<1> QED
  BY <1>1, <1>2, <1>3, FS_Subset

\* What a handler that does not move holds stays right when rows only move forward.
LEMMA HeldCarries ==
  ASSUME TypeOK, TypeOK', OrdersResolve, RowsMoveForward,
         NEW g \in Handlers, pc'[g] = pc[g], loc'[g] = loc[g],
         HeldKeys(pc[g], loc[g]), HeldSold(pc[g], loc[g]), HeldUses(pc[g], loc[g])
  PROVE  /\ HeldKeys(pc[g], loc[g])'
         /\ HeldSold(pc[g], loc[g])'
         /\ HeldUses(pc[g], loc[g])'
<1> DEFINE l == loc[g]
<1>1. HeldKeys(pc[g], loc[g])'
  BY DEF HeldKeys, RowsMoveForward
<1>2. HeldSold(pc[g], loc[g])'
  <2>1. CASE pc[g] \in {"complete_code", "complete_commit"}
    <3>1. l.order \in DOMAIN orders /\ orders'[l.order].type = orders[l.order].type
      BY <2>1 DEF HeldKeys, RowsMoveForward
    <3> QED
      BY <2>1, <3>1 DEF HeldSold, HasRoom
  <2>2. CASE pc[g] = "cancel_commit"
    <3>1. /\ l.reg \in DOMAIN regs
          /\ regs'[l.reg].order = regs[l.reg].order
          /\ orders'[regs[l.reg].order].type = orders[regs[l.reg].order].type
      BY <2>2 DEF HeldKeys, RowsMoveForward, OrdersResolve
    <3> QED
      BY <2>2, <3>1 DEF HeldSold
  <2> QED
    BY <2>1, <2>2 DEF HeldSold
<1>3. HeldUses(pc[g], loc[g])'
  <2> SUFFICES ASSUME pc[g] = "complete_commit" PROVE HeldUses(pc[g], loc[g])'
    BY DEF HeldUses
  <2>1. l.order \in DOMAIN orders /\ orders'[l.order].code = orders[l.order].code
    BY DEF HeldKeys, RowsMoveForward
  <2>2. PICK c : c = orders[l.order].code
    OBVIOUS
  <2>3. c # None => l.uses <= Cardinality(Redeemed(c))
    BY <2>2 DEF HeldUses
  <2>4. l.uses \in Nat
    BY DEF TypeOK, Request
  <2>5. c # None => l.uses <= Cardinality(Redeemed(c)')
    BY <2>3, <2>4, RedeemedGrows
  <2>6. Redeemed(c)' = Redeemed(orders[loc[g].order].code)'
    BY <2>1, <2>2 DEF Redeemed
  <2> QED
    BY <2>1, <2>2, <2>5, <2>6 DEF HeldUses
<1> QED
  BY <1>1, <1>2, <1>3
-----------------------------------------------------------------------------
(* The steps *)

\* A step that only reads: the tables stay, one handler moves to a point at which
\* what it now holds is right.
LEMMA ReadStep ==
  ASSUME Inv, UNCHANGED <<tables, world>>,
         NEW h \in Handlers, NEW from, NEW to \in PC, NEW l \in Request,
         Goto(h, from, to, l),
         HeldKeys(to, l), HeldSold(to, l), HeldUses(to, l)
  PROVE  Inv' /\ RowsMoveForward
<1>1. /\ pc' \in [Handlers -> PC]
      /\ loc' \in [Handlers -> Request]
      /\ pc[h] = from /\ pc'[h] = to /\ loc'[h] = l
      /\ \A g \in Handlers \ {h} : pc'[g] = pc[g] /\ loc'[g] = loc[g]
  BY GotoStep DEF Inv
<1>2. TypeOK'
  BY <1>1 DEF Inv, TypeOK, tables, world
<1>3. RowsMoveForward
  BY DEF RowsMoveForward, tables
<1>4. HeldOK'
  <2> SUFFICES ASSUME NEW g \in Handlers
               PROVE  (HeldKeys(pc[g], loc[g]) /\ HeldSold(pc[g], loc[g]) /\ HeldUses(pc[g], loc[g]))'
    BY DEF HeldOK
  <2>1. CASE g = h
    BY <1>1, <2>1 DEF HeldKeys, HeldSold, HeldUses, Redeemed, tables
  <2>2. CASE g # h
    BY <1>1, <1>2, <1>3, <2>2, HeldCarries DEF Inv, HeldOK
  <2> QED
    BY <2>1, <2>2
<1>5. OrdersResolve' /\ SoldWithinQuantity' /\ CompletedIffRegistered' /\ NotifiedAfterCommit'
  BY DEF Inv, OrdersResolve, SoldWithinQuantity, CompletedIffRegistered, NotifiedAfterCommit, tables
<1>6. UsesNeverOverstated'
  BY DEF Inv, UsesNeverOverstated, Redeemed, tables
<1> QED
  BY <1>2, <1>3, <1>4, <1>5, <1>6 DEF Inv
\* create_order's commit.
LEMMA InsertStep ==
  ASSUME Inv, NEW h \in Handlers, CreateInsert(h)
  PROVE  Inv' /\ RowsMoveForward
<1> DEFINE row == [status  |-> "pending",
                   payment |-> IF loc[h].type \in FreeTypes THEN "not_required" ELSE "pending",
                   type    |-> loc[h].type,
                   session |-> loc[h].session,
                   code    |-> loc[h].code]
<1>1. /\ pc' \in [Handlers -> PC]
      /\ loc' \in [Handlers -> Request]
      /\ pc[h] = "create_insert" /\ pc'[h] = "idle" /\ loc'[h] = NoRequest
      /\ \A g \in Handlers \ {h} : pc'[g] = pc[g] /\ loc'[g] = loc[g]
  <2>1. Goto(h, "create_insert", "idle", NoRequest)
    BY DEF CreateInsert, Finish
  <2>2. "idle" \in PC
    BY DEF PC
  <2> QED
    BY <2>1, <2>2, GotoStep, NoRequestType DEF Inv
<1>2. row \in Order
  <2>1. loc[h].type \in TicketTypes /\ loc[h].session \in Sessions
    BY <1>1 DEF Inv, HeldOK, HeldKeys
  <2>2. loc[h].code \in Codes \cup {None}
    BY DEF Inv, TypeOK, Request
  <2> QED
    BY <2>1, <2>2 DEF Order, OrderStatus, PaymentStatus
<1>3. orders' = Append(orders, row) /\ UNCHANGED <<sold, uses, regs, outbox, world>>
  BY DEF CreateInsert
<1>4. /\ orders' \in Seq(Order)
      /\ Len(orders) + 1 \notin DOMAIN orders
      /\ DOMAIN orders' = DOMAIN orders \cup {Len(orders) + 1}
      /\ \A j \in DOMAIN orders : orders'[j] = orders[j]
      /\ orders'[Len(orders) + 1] = row
  BY <1>2, <1>3, AppendProperties, LenProperties DEF Inv, TypeOK
<1>5. TypeOK'
  BY <1>1, <1>3, <1>4 DEF Inv, TypeOK, world
<1>6. RowsMoveForward
  BY <1>3, <1>4 DEF RowsMoveForward
<1>7. HeldOK'
  <2> SUFFICES ASSUME NEW g \in Handlers
               PROVE  (HeldKeys(pc[g], loc[g]) /\ HeldSold(pc[g], loc[g]) /\ HeldUses(pc[g], loc[g]))'
    BY DEF HeldOK
  <2>1. CASE g = h
    BY <1>1, <2>1 DEF HeldKeys, HeldSold, HeldUses
  <2>2. CASE g # h
    BY <1>1, <1>5, <1>6, <2>2, HeldCarries DEF Inv, HeldOK
  <2> QED
    BY <2>1, <2>2
<1>8. OrdersResolve' /\ SoldWithinQuantity' /\ NotifiedAfterCommit'
  BY <1>3, <1>4 DEF Inv, OrdersResolve, SoldWithinQuantity, NotifiedAfterCommit
<1>9. CompletedIffRegistered'
  BY <1>3, <1>4 DEF Inv, OrdersResolve, CompletedIffRegistered
<1>10. UsesNeverOverstated'
  <2> SUFFICES ASSUME NEW c \in Codes PROVE uses[c] <= Cardinality(Redeemed(c)')
    BY <1>3 DEF UsesNeverOverstated
  <2> QED
    BY <1>5, <1>6, RedeemedGrows DEF Inv, UsesNeverOverstated, TypeOK
<1> QED
  BY <1>5, <1>6, <1>7, <1>8, <1>9, <1>10 DEF Inv

\* complete_order's first commit.
LEMMA CommitStep ==
  ASSUME Inv, NEW h \in Handlers, CompleteCommit(h)
  PROVE  Inv' /\ RowsMoveForward
<1> DEFINE o   == loc[h].order
           n   == Len(regs) + 1
           row == Completed(orders[o])
           held == [NoRequest EXCEPT !.reg = n]
           reg == [order |-> o, status |-> "confirmed"]
<1>0. sold \in [TicketTypes -> Nat] /\ uses \in [Codes -> Nat]
  BY DEF Inv, TypeOK
<1>1. n \in Nat
  BY LenProperties DEF Inv, TypeOK
<1>2. /\ pc' \in [Handlers -> PC]
      /\ loc' \in [Handlers -> Request]
      /\ pc[h] = "complete_commit" /\ pc'[h] = "complete_notify"
      /\ loc'[h] = held
      /\ \A g \in Handlers \ {h} : pc'[g] = pc[g] /\ loc'[g] = loc[g]
  <2>1. Goto(h, "complete_commit", "complete_notify", held)
    BY DEF CompleteCommit
  <2>2. "complete_notify" \in PC /\ held \in Request
    BY <1>1, NoRequestType DEF PC, Request
  <2> HIDE DEF held
  <2> QED
    BY <2>1, <2>2, GotoStep DEF Inv
<1>3. o \in DOMAIN orders /\ o \in Nat /\ orders[o] \in Order
  <2>1. o \in DOMAIN orders
    BY <1>2 DEF Inv, HeldOK, HeldKeys
  <2> QED
    BY <2>1, LenProperties, ElementOfSeq DEF Inv, TypeOK
<1>4. /\ row \in Order /\ row.status = "completed" /\ row.payment # "pending"
      /\ row.type = orders[o].type /\ row.session = orders[o].session
      /\ row.code = orders[o].code
      /\ orders[o].status = "completed" /\ orders[o].payment # "pending" => row = orders[o]
  BY <1>3 DEF Order, OrderStatus, PaymentStatus, Completed
<1>5. reg \in Registration
  BY <1>3 DEF Registration, RegistrationStatus
<1>6. /\ orders' \in Seq(Order)
      /\ DOMAIN orders' = DOMAIN orders
      /\ \A j \in DOMAIN orders : orders'[j] = IF j = o THEN row ELSE orders[j]
  <2>1. orders' = [orders EXCEPT ![o] = row]
    BY <1>3 DEF CompleteCommit
  <2> QED
    BY <1>3, <1>4, <2>1, LenProperties, ExceptSeq DEF Inv, TypeOK
<1>7. /\ regs' \in Seq(Registration)
      /\ n \notin DOMAIN regs
      /\ DOMAIN regs' = DOMAIN regs \cup {n}
      /\ \A j \in DOMAIN regs : regs'[j] = regs[j]
      /\ regs'[n] = reg
  <2>1. regs' = Append(regs, reg)
    BY DEF CompleteCommit
  <2> QED
    BY <1>5, <2>1, AppendProperties, LenProperties DEF Inv, TypeOK
<1>8. /\ sold' = [sold EXCEPT ![orders[o].type] = loc[h].sold + 1]
      /\ uses' = IF orders[o].code = None THEN uses
                 ELSE [uses EXCEPT ![orders[o].code] = loc[h].uses + 1]
      /\ UNCHANGED <<outbox, world>>
  BY DEF CompleteCommit
<1>9. /\ loc[h].sold \in Nat /\ loc[h].uses \in Nat
      /\ loc[h].sold + 1 \in Nat /\ loc[h].uses + 1 \in Nat
  BY DEF Inv, TypeOK, Request
<1>10. TypeOK'
  <2>1. sold' \in [TicketTypes -> Nat]
    BY <1>8, <1>9, <1>0
  <2>2. uses' \in [Codes -> Nat]
    BY <1>8, <1>9, <1>0
  <2> QED
    BY <1>2, <1>6, <1>7, <1>8, <2>1, <2>2 DEF Inv, TypeOK, world
<1>11. RowsMoveForward
  <2>1. orders[o].status = "completed" => row = orders[o]
    BY <1>3, <1>4 DEF Inv, CompletedIffRegistered
  <2> QED
    BY <1>4, <1>6, <1>7, <2>1 DEF RowsMoveForward
<1>12. HeldOK'
  <2> SUFFICES ASSUME NEW g \in Handlers
               PROVE  (HeldKeys(pc[g], loc[g]) /\ HeldSold(pc[g], loc[g]) /\ HeldUses(pc[g], loc[g]))'
    BY DEF HeldOK
  <2>1. CASE g = h
    BY <1>2, <1>7, <2>1 DEF HeldKeys, HeldSold, HeldUses, NoRequest
  <2>2. CASE g # h
    BY <1>2, <1>10, <1>11, <2>2, HeldCarries DEF Inv, HeldOK
  <2> QED
    BY <2>1, <2>2
<1>13. OrdersResolve'
  BY <1>3, <1>6, <1>7 DEF Inv, OrdersResolve
<1>14. SoldWithinQuantity'
  <2>1. HasRoom(loc[h].sold, QuantityTotal[orders[o].type])
    BY <1>2 DEF Inv, HeldOK, HeldSold
  <2>2. \A t \in TicketTypes : QuantityTotal[t] # NoLimit => QuantityTotal[t] \in Nat
    BY SaleAssumption DEF Limits
  <2> QED
    BY <1>0, <1>8, <1>9, <2>1, <2>2 DEF Inv, SoldWithinQuantity, HasRoom
<1>15. CompletedIffRegistered'
  BY <1>3, <1>4, <1>6, <1>7 DEF Inv, OrdersResolve, CompletedIffRegistered
<1>16. NotifiedAfterCommit'
  BY <1>4, <1>6, <1>7, <1>8 DEF Inv, OrdersResolve, NotifiedAfterCommit
<1>17. UsesNeverOverstated'
  <2> SUFFICES ASSUME NEW c \in Codes PROVE uses'[c] <= Cardinality(Redeemed(c)')
    BY DEF UsesNeverOverstated
  <2>1. /\ uses[c] \in Nat /\ uses[c] <= Cardinality(Redeemed(c))
        /\ Cardinality(Redeemed(c)) \in Nat
        /\ Cardinality(Redeemed(c)') \in Nat
        /\ Cardinality(Redeemed(c)) <= Cardinality(Redeemed(c)')
    BY <1>10, <1>11, RedeemedGrows DEF Inv, UsesNeverOverstated, TypeOK
  <2>2. CASE orders[o].code = c
    <3>1. c # None
      BY SaleAssumption
    <3>2. uses'[c] = loc[h].uses + 1
      BY <1>0, <1>8, <1>9, <2>2, <3>1
    <3>3. loc[h].uses <= Cardinality(Redeemed(c))
      BY <1>2, <2>2, <3>1 DEF Inv, HeldOK, HeldUses
    <3>4. n \in Redeemed(c)' /\ n \notin Redeemed(c) /\ Redeemed(c) \subseteq Redeemed(c)'
      <4>1. Redeemed(c) \subseteq Redeemed(c)'
        BY <1>10, <1>11, RedeemedGrows DEF Inv
      <4>2. n \notin Redeemed(c)
        BY <1>7 DEF Redeemed
      <4>3. regs'[n].order = o /\ orders'[o].code = c
        BY <1>3, <1>4, <1>6, <1>7, <2>2
      <4> QED
        BY <1>7, <4>1, <4>2, <4>3 DEF Redeemed
    <3>5. IsFiniteSet(Redeemed(c)) /\ IsFiniteSet(Redeemed(c) \cup {n})
          /\ Cardinality(Redeemed(c) \cup {n}) = Cardinality(Redeemed(c)) + 1
      BY <3>4, RedeemedFinite, FS_AddElement DEF Inv
    <3>6. Redeemed(c) \cup {n} \in SUBSET (Redeemed(c)')
      BY <3>4
    <3>7. IsFiniteSet(Redeemed(c)')
      BY <1>10, <1>11, RedeemedGrows DEF Inv
    <3>8. Cardinality(Redeemed(c) \cup {n}) <= Cardinality(Redeemed(c)')
      BY <3>6, <3>7, FS_Subset
    <3> QED
      BY <1>9, <2>1, <3>2, <3>3, <3>5, <3>8
  <2>3. CASE orders[o].code # c
    BY <1>0, <1>8, <1>9, <2>1, <2>3
  <2> QED
    BY <2>2, <2>3
<1> QED
  BY <1>10, <1>11, <1>12, <1>13, <1>14, <1>15, <1>16, <1>17 DEF Inv
\* complete_order's second commit, of the outbox rows.
LEMMA NotifyStep ==
  ASSUME Inv, NEW h \in Handlers, CompleteNotify(h)
  PROVE  Inv' /\ RowsMoveForward
<1>1. /\ pc' \in [Handlers -> PC]
      /\ loc' \in [Handlers -> Request]
      /\ pc[h] = "complete_notify" /\ pc'[h] = "idle" /\ loc'[h] = NoRequest
      /\ \A g \in Handlers \ {h} : pc'[g] = pc[g] /\ loc'[g] = loc[g]
  <2>1. Goto(h, "complete_notify", "idle", NoRequest)
    BY DEF CompleteNotify, Finish
  <2>2. "idle" \in PC
    BY DEF PC
  <2> QED
    BY <2>1, <2>2, GotoStep, NoRequestType DEF Inv
<1>2. outbox' = outbox \cup {loc[h].reg} /\ UNCHANGED <<sold, uses, orders, regs, world>>
  BY DEF CompleteNotify
<1>3. TypeOK'
  <2>1. loc[h].reg \in Nat
    BY DEF Inv, TypeOK, Request
  <2> QED
    BY <1>1, <1>2, <2>1 DEF Inv, TypeOK, world
<1>4. RowsMoveForward
  BY <1>2 DEF RowsMoveForward
<1>5. HeldOK'
  <2> SUFFICES ASSUME NEW g \in Handlers
               PROVE  (HeldKeys(pc[g], loc[g]) /\ HeldSold(pc[g], loc[g]) /\ HeldUses(pc[g], loc[g]))'
    BY DEF HeldOK
  <2>1. CASE g = h
    BY <1>1, <2>1 DEF HeldKeys, HeldSold, HeldUses
  <2>2. CASE g # h
    BY <1>1, <1>3, <1>4, <2>2, HeldCarries DEF Inv, HeldOK
  <2> QED
    BY <2>1, <2>2
<1>6. OrdersResolve' /\ SoldWithinQuantity' /\ CompletedIffRegistered'
  BY <1>2 DEF Inv, OrdersResolve, SoldWithinQuantity, CompletedIffRegistered
<1>7. UsesNeverOverstated'
  BY <1>2 DEF Inv, UsesNeverOverstated, Redeemed
<1>8. NotifiedAfterCommit'
  <2>1. loc[h].reg \in DOMAIN regs
    BY <1>1 DEF Inv, HeldOK, HeldKeys
  <2>2. orders[regs[loc[h].reg].order].payment # "pending"
    BY <2>1 DEF Inv, OrdersResolve, CompletedIffRegistered
  <2> QED
    BY <1>2, <2>1, <2>2 DEF Inv, NotifiedAfterCommit
<1> QED
  BY <1>3, <1>4, <1>5, <1>6, <1>7, <1>8 DEF Inv

\* A registration leaves CONFIRMED: the part of the commits of cancel_registration
\* and check_in_registration that they share.
LEMMA LeaveStep ==
  ASSUME Inv, NEW h \in Handlers, NEW from \in {"cancel_commit", "checkin_commit"},
         Finish(h, from),
         NEW st \in {"cancelled", "checked_in"},
         regs' = [regs EXCEPT ![loc[h].reg] = [@ EXCEPT !.status = st]],
         sold' \in [TicketTypes -> Nat], SoldWithinQuantity',
         UNCHANGED <<uses, orders, outbox, world>>
  PROVE  Inv' /\ RowsMoveForward
<1> DEFINE r == loc[h].reg
           row == [regs[r] EXCEPT !.status = st]
<1>1. /\ pc' \in [Handlers -> PC]
      /\ loc' \in [Handlers -> Request]
      /\ pc[h] = from /\ pc'[h] = "idle" /\ loc'[h] = NoRequest
      /\ \A g \in Handlers \ {h} : pc'[g] = pc[g] /\ loc'[g] = loc[g]
  <2>1. Goto(h, from, "idle", NoRequest)
    BY DEF Finish
  <2>2. "idle" \in PC
    BY DEF PC
  <2> QED
    BY <2>1, <2>2, GotoStep, NoRequestType DEF Inv
<1>2. r \in DOMAIN regs /\ regs[r] \in Registration
  <2>1. r \in DOMAIN regs
    BY <1>1 DEF Inv, HeldOK, HeldKeys
  <2> QED
    BY <2>1, LenProperties, ElementOfSeq DEF Inv, TypeOK
<1>3. row \in Registration /\ row.order = regs[r].order /\ row.status # "confirmed"
  BY <1>2 DEF Registration, RegistrationStatus
<1>4. /\ regs' \in Seq(Registration)
      /\ DOMAIN regs' = DOMAIN regs
      /\ \A j \in DOMAIN regs : regs'[j] = IF j = r THEN row ELSE regs[j]
  BY <1>2, <1>3, LenProperties, ExceptSeq DEF Inv, TypeOK
<1>5. TypeOK'
  BY <1>1, <1>4 DEF Inv, TypeOK, world
<1>6. RowsMoveForward
  BY <1>3, <1>4 DEF RowsMoveForward
<1>7. HeldOK'
  <2> SUFFICES ASSUME NEW g \in Handlers
               PROVE  (HeldKeys(pc[g], loc[g]) /\ HeldSold(pc[g], loc[g]) /\ HeldUses(pc[g], loc[g]))'
    BY DEF HeldOK
  <2>1. CASE g = h
    BY <1>1, <2>1 DEF HeldKeys, HeldSold, HeldUses
  <2>2. CASE g # h
    BY <1>1, <1>5, <1>6, <2>2, HeldCarries DEF Inv, HeldOK
  <2> QED
    BY <2>1, <2>2
<1>8. \A j \in DOMAIN regs : regs'[j].order = regs[j].order
  BY <1>3, <1>4
<1>9. OrdersResolve' /\ CompletedIffRegistered' /\ NotifiedAfterCommit'
  BY <1>4, <1>8 DEF Inv, OrdersResolve, CompletedIffRegistered, NotifiedAfterCommit
<1>10. UsesNeverOverstated'
  <2> SUFFICES ASSUME NEW c \in Codes PROVE uses[c] <= Cardinality(Redeemed(c)')
    BY DEF UsesNeverOverstated
  <2>1. Redeemed(c)' = Redeemed(c)
    BY <1>4, <1>8 DEF Redeemed
  <2> QED
    BY <2>1 DEF Inv, UsesNeverOverstated
<1> QED
  BY <1>5, <1>6, <1>7, <1>9, <1>10 DEF Inv

\* cancel_registration's commit: the counter held was at most the total, and one
\* less is written.
LEMMA CancelStep ==
  ASSUME Inv, NEW h \in Handlers, CancelCommit(h)
  PROVE  Inv' /\ RowsMoveForward
<1> DEFINE t == orders[regs[loc[h].reg].order].type
<1>1. loc[h].sold \in Nat /\ sold \in [TicketTypes -> Nat]
  BY DEF Inv, TypeOK, Request
<1>2. pc[h] = "cancel_commit"
  BY DEF CancelCommit, Finish, Goto
<1>3. QuantityTotal[t] # NoLimit => loc[h].sold <= QuantityTotal[t]
  BY <1>2 DEF Inv, HeldOK, HeldSold
<1>4. sold' = [sold EXCEPT ![t] = IF loc[h].sold = 0 THEN sold[t] ELSE loc[h].sold - 1]
  BY DEF CancelCommit
<1>5. t \in TicketTypes
  <2>1. loc[h].reg \in DOMAIN regs
    BY <1>2 DEF Inv, HeldOK, HeldKeys
  <2>2. regs[loc[h].reg].order \in DOMAIN orders
    BY <2>1 DEF Inv, OrdersResolve
  <2>3. orders[regs[loc[h].reg].order] \in Order
    BY <2>2, LenProperties, ElementOfSeq DEF Inv, TypeOK
  <2> QED
    BY <2>3 DEF Order
<1>6. sold' \in [TicketTypes -> Nat]
  <2>1. (IF loc[h].sold = 0 THEN sold[t] ELSE loc[h].sold - 1) \in Nat
    BY <1>1, <1>5
  <2> QED
    BY <1>1, <1>4, <2>1
<1>7. SoldWithinQuantity'
  <2>1. \A u \in TicketTypes : QuantityTotal[u] # NoLimit => QuantityTotal[u] \in Nat
    BY SaleAssumption DEF Limits
  <2>2. \A u \in TicketTypes : QuantityTotal[u] # NoLimit => sold[u] <= QuantityTotal[u]
    BY DEF Inv, SoldWithinQuantity
  <2>3. SUFFICES ASSUME NEW u \in TicketTypes, QuantityTotal[u] # NoLimit
                 PROVE  sold'[u] <= QuantityTotal[u]
    BY DEF SoldWithinQuantity
  <2>4. sold'[u] = IF u = t THEN (IF loc[h].sold = 0 THEN sold[t] ELSE loc[h].sold - 1) ELSE sold[u]
    BY <1>1, <1>4
  <2> QED
    BY <1>1, <1>3, <2>1, <2>2, <2>3, <2>4
<1> QED
  BY <1>6, <1>7, LeaveStep DEF CancelCommit

\* check_in_registration's commit.
LEMMA CheckInStep ==
  ASSUME Inv, NEW h \in Handlers, CheckInCommit(h)
  PROVE  Inv' /\ RowsMoveForward
<1>1. sold' \in [TicketTypes -> Nat]
  BY DEF Inv, TypeOK, CheckInCommit
<1>2. SoldWithinQuantity'
  BY DEF Inv, SoldWithinQuantity, CheckInCommit
<1> QED
  BY <1>1, <1>2, LeaveStep DEF CheckInCommit
\* Steps of create_order before its commit.
LEMMA CreateReadStep ==
  ASSUME Inv, NEW h \in Handlers,
         \/ \E t \in TicketTypes, s \in Sessions, str \in CodeStrings \cup {None} :
               CreateBegin(h, t, s, str)
         \/ CreateReadEvent(h)
         \/ CreateReadCapacity(h)
         \/ CreateReadDiscount(h)
  PROVE  Inv' /\ RowsMoveForward
<1>1. ASSUME NEW t \in TicketTypes, NEW s \in Sessions, NEW str \in CodeStrings \cup {None},
             CreateBegin(h, t, s, str)
      PROVE  Inv' /\ RowsMoveForward
  <2> DEFINE l == [NoRequest EXCEPT !.type = t, !.session = s, !.str = str]
  <2>1. l \in Request /\ l.type = t /\ l.session = s
    BY NoRequestType DEF Request, NoRequest
  <2>2. Goto(h, "idle", "create_event", l) /\ UNCHANGED <<tables, world>>
    BY <1>1 DEF CreateBegin
  <2> HIDE DEF l
  <2>3. HeldKeys("create_event", l) /\ HeldSold("create_event", l) /\ HeldUses("create_event", l)
    BY <2>1 DEF HeldKeys, HeldSold, HeldUses
  <2>4. "create_event" \in PC
    BY DEF PC
  <2> QED
    BY <2>1, <2>2, <2>3, <2>4, ReadStep
<1>2. loc[h] \in Request /\ HeldKeys(pc[h], loc[h])
  BY DEF Inv, HeldOK, TypeOK
<1>3. CASE CreateReadEvent(h)
  <2>1. pc[h] = "create_event" /\ Goto(h, "create_event", "create_capacity", loc[h])
        /\ UNCHANGED <<tables, world>>
    BY <1>3 DEF CreateReadEvent, Goto
  <2>2. /\ HeldKeys("create_capacity", loc[h]) /\ HeldSold("create_capacity", loc[h])
        /\ HeldUses("create_capacity", loc[h]) /\ "create_capacity" \in PC
    BY <1>2, <2>1 DEF HeldKeys, HeldSold, HeldUses, PC
  <2> QED
    BY <1>2, <2>1, <2>2, ReadStep
<1>4. CASE CreateReadCapacity(h)
  <2>1. pc[h] = "create_capacity" /\ Goto(h, "create_capacity", "create_discount", loc[h])
        /\ UNCHANGED <<tables, world>>
    BY <1>4 DEF CreateReadCapacity, Goto
  <2>2. /\ HeldKeys("create_discount", loc[h]) /\ HeldSold("create_discount", loc[h])
        /\ HeldUses("create_discount", loc[h]) /\ "create_discount" \in PC
    BY <1>2, <2>1 DEF HeldKeys, HeldSold, HeldUses, PC
  <2> QED
    BY <1>2, <2>1, <2>2, ReadStep
<1>5. CASE CreateReadDiscount(h)
  <2>1. PICK code \in Codes \cup {None} :
          /\ pc[h] = "create_discount"
          /\ Goto(h, "create_discount", "create_insert", [loc[h] EXCEPT !.code = code])
          /\ UNCHANGED <<tables, world>>
    <3>1. CASE loc[h].str = None
      <4>1. Goto(h, "create_discount", "create_insert", loc[h]) /\ UNCHANGED <<tables, world>>
        BY <1>5, <3>1 DEF CreateReadDiscount
      <4>2. loc[h] = [loc[h] EXCEPT !.code = loc[h].code] /\ loc[h].code \in Codes \cup {None}
        BY <1>2 DEF Request
      <4> QED
        BY <4>1, <4>2 DEF Goto
    <3>2. CASE loc[h].str # None
      <4> DEFINE e == EventOfType[loc[h].type]
                 code == find_valid_discount(e, loc[h].str)
      <4>1. /\ Goto(h, "create_discount", "create_insert", [loc[h] EXCEPT !.code = code])
            /\ UNCHANGED <<tables, world>>
        BY <1>5, <3>2 DEF CreateReadDiscount
      <4>2. pc[h] = "create_discount"
        BY <4>1 DEF Goto
      <4>3. loc[h].type \in TicketTypes /\ loc[h].str \in CodeStrings
        BY <1>2, <3>2, <4>2 DEF HeldKeys, Request
      <4>4. code \in Codes \cup {None}
        <5>1. /\ e \in Events
              /\ EventCode[e][loc[h].str] \in Codes \cup {None}
              /\ PlatformCode[loc[h].str] \in Codes \cup {None}
          BY <4>3, SaleAssumption
        <5> QED
          BY <5>1 DEF find_valid_discount
      <4> QED
        BY <4>1, <4>2, <4>4
    <3> QED
      BY <3>1, <3>2
  <2> DEFINE l == [loc[h] EXCEPT !.code = code]
  <2>2. l \in Request /\ l.type = loc[h].type /\ l.session = loc[h].session
    BY <1>2, <2>1 DEF Request
  <2>3. Goto(h, "create_discount", "create_insert", l)
    BY <2>1
  <2> HIDE DEF l
  <2>4. /\ HeldKeys("create_insert", l) /\ HeldSold("create_insert", l)
        /\ HeldUses("create_insert", l) /\ "create_insert" \in PC
    BY <1>2, <2>1, <2>2 DEF HeldKeys, HeldSold, HeldUses, PC
  <2> QED
    BY <2>1, <2>2, <2>3, <2>4, ReadStep
<1> QED
  BY <1>1, <1>3, <1>4, <1>5

\* Steps of complete_order before its commit.
LEMMA CompleteReadStep ==
  ASSUME Inv, NEW h \in Handlers,
         \/ \E o \in DOMAIN orders : CompleteBegin(h, o)
         \/ CompleteReadType(h)
         \/ CompleteReadCode(h)
  PROVE  Inv' /\ RowsMoveForward
<1>0. /\ loc[h] \in Request /\ HeldKeys(pc[h], loc[h]) /\ HeldSold(pc[h], loc[h])
      /\ sold \in [TicketTypes -> Nat] /\ uses \in [Codes -> Nat]
  BY DEF Inv, HeldOK, TypeOK
<1>1. \A o \in DOMAIN orders : orders[o] \in Order /\ o \in Nat
  BY LenProperties, ElementOfSeq DEF Inv, TypeOK
<1>2. ASSUME NEW o \in DOMAIN orders, CompleteBegin(h, o)
      PROVE  Inv' /\ RowsMoveForward
  <2> DEFINE l == [NoRequest EXCEPT !.order = o]
  <2>1. l \in Request /\ l.order = o
    BY <1>1, NoRequestType DEF Request, NoRequest
  <2>2. Goto(h, "idle", "complete_type", l) /\ UNCHANGED <<tables, world>>
    BY <1>2 DEF CompleteBegin
  <2> HIDE DEF l
  <2>3. /\ HeldKeys("complete_type", l) /\ HeldSold("complete_type", l)
        /\ HeldUses("complete_type", l) /\ "complete_type" \in PC
    BY <2>1 DEF HeldKeys, HeldSold, HeldUses, PC
  <2> QED
    BY <2>1, <2>2, <2>3, ReadStep
<1>3. CASE CompleteReadType(h)
  <2> DEFINE t == orders[loc[h].order].type
             l == [loc[h] EXCEPT !.sold = sold[t]]
  <2>1. /\ Goto(h, "complete_type", "complete_code", l) /\ UNCHANGED <<tables, world>>
        /\ HasRoom(sold[t], QuantityTotal[t])
    BY <1>3 DEF CompleteReadType
  <2>2. pc[h] = "complete_type"
    BY <2>1 DEF Goto
  <2>3. loc[h].order \in DOMAIN orders /\ t \in TicketTypes
    BY <1>0, <1>1, <2>2 DEF HeldKeys, Order
  <2>4. l \in Request /\ l.order = loc[h].order /\ l.sold = sold[t]
    BY <1>0, <2>3 DEF Request
  <2> HIDE DEF l
  <2>5. /\ HeldKeys("complete_code", l) /\ HeldSold("complete_code", l)
        /\ HeldUses("complete_code", l) /\ "complete_code" \in PC
    BY <2>1, <2>3, <2>4 DEF HeldKeys, HeldSold, HeldUses, PC
  <2> QED
    BY <2>1, <2>4, <2>5, ReadStep
<1>4. CASE CompleteReadCode(h)
  <2> DEFINE c == orders[loc[h].order].code
             l == [loc[h] EXCEPT !.uses = IF c = None THEN 0 ELSE uses[c]]
  <2>1. Goto(h, "complete_code", "complete_commit", l) /\ UNCHANGED <<tables, world>>
    BY <1>4 DEF CompleteReadCode
  <2>2. pc[h] = "complete_code"
    BY <2>1 DEF Goto
  <2>3. loc[h].order \in DOMAIN orders /\ c \in Codes \cup {None}
    BY <1>0, <1>1, <2>2 DEF HeldKeys, Order
  <2>4. /\ l \in Request /\ l.order = loc[h].order /\ l.sold = loc[h].sold
        /\ l.uses = IF c = None THEN 0 ELSE uses[c]
    BY <1>0, <2>3 DEF Request
  <2> HIDE DEF l
  <2>5. HeldKeys("complete_commit", l) /\ HeldSold("complete_commit", l)
    BY <1>0, <2>2, <2>3, <2>4 DEF HeldKeys, HeldSold
  <2>6. HeldUses("complete_commit", l)
    BY <2>3, <2>4 DEF HeldUses, Inv, UsesNeverOverstated
  <2>7. "complete_commit" \in PC
    BY DEF PC
  <2> QED
    BY <2>1, <2>4, <2>5, <2>6, <2>7, ReadStep
<1> QED
  BY <1>2, <1>3, <1>4

\* Steps of cancel_registration and check_in_registration before their commits.
LEMMA LeaveReadStep ==
  ASSUME Inv, NEW h \in Handlers,
         \/ \E r \in DOMAIN regs : CancelBegin(h, r)
         \/ CancelReadType(h)
         \/ \E r \in DOMAIN regs : CheckInBegin(h, r)
  PROVE  Inv' /\ RowsMoveForward
<1>0. /\ loc[h] \in Request /\ HeldKeys(pc[h], loc[h])
      /\ sold \in [TicketTypes -> Nat]
  BY DEF Inv, HeldOK, TypeOK
<1>1. \A r \in DOMAIN regs : r \in Nat
  BY LenProperties DEF Inv, TypeOK
<1>2. ASSUME NEW r \in DOMAIN regs, NEW to \in {"cancel_type", "checkin_commit"},
             Goto(h, "idle", to, [NoRequest EXCEPT !.reg = r]), UNCHANGED <<tables, world>>
      PROVE  Inv' /\ RowsMoveForward
  <2> DEFINE l == [NoRequest EXCEPT !.reg = r]
  <2>1. l \in Request /\ l.reg = r
    BY <1>1, NoRequestType DEF Request, NoRequest
  <2>2. Goto(h, "idle", to, l)
    BY <1>2
  <2> HIDE DEF l
  <2>3. HeldKeys(to, l) /\ HeldSold(to, l) /\ HeldUses(to, l) /\ to \in PC
    BY <2>1 DEF HeldKeys, HeldSold, HeldUses, PC
  <2> QED
    BY <1>2, <2>1, <2>2, <2>3, ReadStep
<1>3. CASE CancelReadType(h)
  <2> DEFINE t == orders[regs[loc[h].reg].order].type
             l == [loc[h] EXCEPT !.sold = sold[t]]
  <2>1. Goto(h, "cancel_type", "cancel_commit", l) /\ UNCHANGED <<tables, world>>
    BY <1>3 DEF CancelReadType
  <2>2. pc[h] = "cancel_type"
    BY <2>1 DEF Goto
  <2>3. loc[h].reg \in DOMAIN regs /\ t \in TicketTypes
    <3>1. loc[h].reg \in DOMAIN regs /\ regs[loc[h].reg].order \in DOMAIN orders
      BY <1>0, <2>2 DEF HeldKeys, Inv, OrdersResolve
    <3>2. orders[regs[loc[h].reg].order] \in Order
      BY <3>1, LenProperties, ElementOfSeq DEF Inv, TypeOK
    <3> QED
      BY <3>1, <3>2 DEF Order
  <2>4. l \in Request /\ l.reg = loc[h].reg /\ l.sold = sold[t]
    BY <1>0, <2>3 DEF Request
  <2> HIDE DEF l
  <2>5. /\ HeldKeys("cancel_commit", l) /\ HeldSold("cancel_commit", l)
        /\ HeldUses("cancel_commit", l) /\ "cancel_commit" \in PC
    BY <2>3, <2>4 DEF HeldKeys, HeldSold, HeldUses, PC, Inv, SoldWithinQuantity
  <2> QED
    BY <2>1, <2>4, <2>5, ReadStep
<1> QED
  BY <1>2, <1>3 DEF CancelBegin, CheckInBegin
\* A request that fails leaves the tables as they were.
LEMMA FailStep ==
  ASSUME Inv, NEW h \in Handlers, Fail(h)
  PROVE  Inv' /\ RowsMoveForward
<1>1. Goto(h, pc[h], "idle", NoRequest) /\ UNCHANGED <<tables, world>>
  BY DEF Fail, Finish
<1>2. "idle" \in PC
  BY DEF PC
<1> QED
  BY <1>1, <1>2, IdleHolds, NoRequestType, ReadStep

\* Changes of event status, time and stuttering leave tables and handlers as they were.
LEMMA WorldStep ==
  ASSUME Inv, (\E e \in Events : EventStatusChanges(e)) \/ Tick \/ UNCHANGED vars
  PROVE  Inv' /\ RowsMoveForward
<1>1. UNCHANGED <<sold, uses, orders, regs, outbox, pc, loc>>
  BY DEF EventStatusChanges, Tick, vars, tables
<1>2. eventStatus' \in [Events -> EventStatus] /\ clock' \in Nat
  <2>1. eventStatus \in [Events -> EventStatus] /\ clock \in Nat
    BY DEF Inv, TypeOK
  <2>2. CASE \E e \in Events : EventStatusChanges(e)
    BY <2>1, <2>2 DEF EventStatusChanges, EventStatus
  <2>3. CASE Tick
    BY <2>1, <2>3 DEF Tick
  <2>4. CASE UNCHANGED vars
    BY <2>1, <2>4 DEF vars
  <2> QED
    BY <2>2, <2>3, <2>4
<1>3. TypeOK'
  BY <1>1, <1>2 DEF Inv, TypeOK
<1>4. RowsMoveForward
  BY <1>1 DEF RowsMoveForward
<1>5. HeldOK'
  BY <1>1 DEF Inv, HeldOK, HeldKeys, HeldSold, HeldUses, Redeemed
<1>6. OrdersResolve' /\ SoldWithinQuantity' /\ CompletedIffRegistered' /\ NotifiedAfterCommit'
  BY <1>1 DEF Inv, OrdersResolve, SoldWithinQuantity, CompletedIffRegistered, NotifiedAfterCommit
<1>7. UsesNeverOverstated'
  BY <1>1 DEF Inv, UsesNeverOverstated, Redeemed
<1> QED
  BY <1>3, <1>4, <1>5, <1>6, <1>7 DEF Inv

\* Every step keeps the invariant and moves rows only forward.
LEMMA NextInv ==
  ASSUME Inv, [Next]_vars
  PROVE  Inv' /\ RowsMoveForward
<1>1. ASSUME NEW h \in Handlers, create_order(h) PROVE Inv' /\ RowsMoveForward
  BY <1>1, CreateReadStep, InsertStep DEF create_order
<1>2. ASSUME NEW h \in Handlers, complete_order(h) PROVE Inv' /\ RowsMoveForward
  BY <1>2, CompleteReadStep, CommitStep, NotifyStep DEF complete_order
<1>3. ASSUME NEW h \in Handlers, cancel_registration(h) PROVE Inv' /\ RowsMoveForward
  BY <1>3, LeaveReadStep, CancelStep DEF cancel_registration
<1>4. ASSUME NEW h \in Handlers, check_in_registration(h) PROVE Inv' /\ RowsMoveForward
  BY <1>4, LeaveReadStep, CheckInStep DEF check_in_registration
<1>5. ASSUME NEW h \in Handlers, Fail(h) PROVE Inv' /\ RowsMoveForward
  BY <1>5, FailStep
<1>6. CASE (\E e \in Events : EventStatusChanges(e)) \/ Tick \/ UNCHANGED vars
  BY <1>6, WorldStep
<1> QED
  BY <1>1, <1>2, <1>3, <1>4, <1>5, <1>6 DEF Next, HandlerStep

\* The invariant holds of every behaviour, for every number of handlers.
THEOREM Invariance == Spec => []Inv
<1>1. Init => Inv
  BY InitInv
<1>2. Inv /\ [Next]_vars => Inv'
  BY NextInv
<1> QED
  BY <1>1, <1>2, PTL DEF Spec

\* The tables and the handlers' memory keep their types.
THEOREM TypeCorrect == Spec => []TypeOK
<1>1. Inv => TypeOK
  BY DEF Inv
<1> QED
  BY <1>1, Invariance, PTL

\* However many completions and cancellations race, quantity_sold stays within
\* quantity_total.
THEOREM SoldStaysWithinQuantity == Spec => []SoldWithinQuantity
<1>1. Inv => SoldWithinQuantity
  BY DEF Inv
<1> QED
  BY <1>1, Invariance, PTL

\* An order is COMPLETED, with nothing left to pay, exactly when it has a registration.
THEOREM CompletionIsAtomic == Spec => []CompletedIffRegistered
<1>1. Inv => CompletedIffRegistered
  BY DEF Inv
<1> QED
  BY <1>1, Invariance, PTL

\* Lost updates can only make uses_count too small, never too large.
THEOREM UsesAreBacked == Spec => []UsesNeverOverstated
<1>1. Inv => UsesNeverOverstated
  BY DEF Inv
<1> QED
  BY <1>1, Invariance, PTL

\* Only committed registrations of settled orders are announced.
THEOREM AnnouncementsAreBacked == Spec => []NotifiedAfterCommit
<1>1. Inv => NotifiedAfterCommit
  BY DEF Inv
<1> QED
  BY <1>1, Invariance, PTL

\* No step of any handler moves an order or a registration back.
THEOREM ForwardOnly == Spec => RowsOnlyMoveForward
<1>1. Inv /\ [Next]_vars => [RowsMoveForward]_vars
  BY NextInv
<1> QED
  BY <1>1, Invariance, PTL DEF Spec, RowsOnlyMoveForward

-----------------------------------------------------------------------------
(***************************************************************************)
(* Requests that do not overlap: the counters are exact, and the service   *)
(* implements TicketSale.  The invariant says that what the one request    *)
(* under way has read still agrees with the tables (FreshOK).              *)
(***************************************************************************)

\* All that a handler at p that holds l may rely on.
Fresh(p, l) == FreshCreate(p, l) /\ FreshComplete(p, l) /\ FreshLeave(p, l)

\* Rows are typed, and their keys are numbers.
LEMMA Rows ==
  ASSUME TypeOK
  PROVE  /\ \A o \in DOMAIN orders : orders[o] \in Order /\ o \in Nat
         /\ \A r \in DOMAIN regs : regs[r] \in Registration /\ r \in Nat
<1>1. orders \in Seq(Order) /\ regs \in Seq(Registration)
  BY DEF TypeOK
<1>2. \A o \in DOMAIN orders : orders[o] \in Order /\ o \in Nat
  BY <1>1, LenProperties, ElementOfSeq
<1>3. \A r \in DOMAIN regs : regs[r] \in Registration /\ r \in Nat
  BY <1>1, LenProperties, ElementOfSeq
<1> QED
  BY <1>2, <1>3

\* A set of registrations is finite.
LEMMA RegsFinite ==
  ASSUME TypeOK, NEW S, S \subseteq DOMAIN regs
  PROVE  IsFiniteSet(S) /\ Cardinality(S) \in Nat
<1>1. DOMAIN regs = 1 .. Len(regs) /\ Len(regs) \in Nat
  BY LenProperties DEF TypeOK
<1>2. IsFiniteSet(DOMAIN regs)
  BY <1>1, FS_Interval
<1> QED
  BY <1>2, FS_Subset, FS_CardinalityType

\* A handler that is idle relies on nothing.
LEMMA IdleFresh == \A l : Fresh("idle", l)
BY DEF Fresh, FreshCreate, FreshComplete, FreshLeave

\* The empty database satisfies the invariant.
LEMMA InitSerialInv == Init => SerialInv
<1> SUFFICES ASSUME Init PROVE SerialInv
  OBVIOUS
<1>1. DOMAIN regs = {} /\ DOMAIN orders = {}
  BY DEF Init
<1>2. CountersExact
  <2>1. \A t : Live(t) = {}
    BY <1>1 DEF Live
  <2>2. \A c : Redeemed(c) = {}
    BY <1>1 DEF Redeemed
  <2> QED
    BY <2>1, <2>2, FS_EmptySet DEF Init, CountersExact
<1>3. FreshOK
  BY IdleFresh DEF Init, FreshOK, Fresh
<1>4. PaymentsDue
  BY <1>1 DEF PaymentsDue
<1> QED
  BY <1>2, <1>3, <1>4 DEF SerialInv

\* When the step of a handler leads to a state in which requests do not overlap
\* and the handler was not idle, only what it holds itself has to be looked at.
LEMMA OthersIdle ==
  ASSUME Inv, Serial, NEW h \in Handlers, pc[h] # "idle",
         NEW from, NEW to \in PC, NEW l \in Request, Goto(h, from, to, l),
         Fresh(pc[h], loc[h])'
  PROVE  FreshOK'
<1>1. /\ pc'[h] = to /\ loc'[h] = l
      /\ \A g \in Handlers \ {h} : pc'[g] = pc[g] /\ loc'[g] = loc[g]
  BY GotoStep DEF Inv
<1>2. \A g \in Handlers \ {h} : pc[g] = "idle"
  BY DEF Serial
<1>3. \A g \in Handlers \ {h} : Fresh(pc[g], loc[g])'
  BY <1>1, <1>2 DEF Fresh, FreshCreate, FreshComplete, FreshLeave
<1> QED
  BY <1>3 DEF FreshOK, Fresh

\* A step that only reads: the tables stay, one handler moves to a point at which
\* what it now holds agrees with them.
LEMMA SerialReadStep ==
  ASSUME Inv, SerialInv, UNCHANGED tables,
         NEW h \in Handlers, NEW from, NEW to \in PC, NEW l \in Request,
         Goto(h, from, to, l), Fresh(to, l)
  PROVE  SerialInv' /\ UNCHANGED <<orders, regs>>
<1>1. /\ pc'[h] = to /\ loc'[h] = l
      /\ \A g \in Handlers \ {h} : pc'[g] = pc[g] /\ loc'[g] = loc[g]
  BY GotoStep DEF Inv
<1>2. UNCHANGED <<sold, uses, orders, regs>>
  BY DEF tables
<1>3. CountersExact' /\ PaymentsDue'
  BY <1>2 DEF SerialInv, CountersExact, PaymentsDue, Live, Redeemed
<1>4. \A p, k : FreshCreate(p, k) <=> FreshCreate(p, k)'
  BY <1>2 DEF FreshCreate, _confirmed_registration_count, ConfirmedIn
<1>5. \A p, k : FreshComplete(p, k) <=> FreshComplete(p, k)'
  BY <1>2 DEF FreshComplete
<1>6. \A p, k : FreshLeave(p, k) <=> FreshLeave(p, k)'
  BY <1>2 DEF FreshLeave
<1>7. FreshOK'
  <2> SUFFICES ASSUME NEW g \in Handlers
               PROVE  (FreshCreate(pc[g], loc[g]) /\ FreshComplete(pc[g], loc[g]) /\ FreshLeave(pc[g], loc[g]))'
    BY DEF FreshOK
  <2>1. PICK p, k : p = pc'[g] /\ k = loc'[g]
    OBVIOUS
  <2>2. FreshCreate(p, k) /\ FreshComplete(p, k) /\ FreshLeave(p, k)
    BY <1>1, <2>1 DEF SerialInv, FreshOK, Fresh
  <2>3. FreshCreate(p, k)' /\ FreshComplete(p, k)' /\ FreshLeave(p, k)'
    BY <1>4, <1>5, <1>6, <2>2
  <2>4. FreshCreate(pc[g], loc[g])'
    BY <2>1, <2>3 DEF FreshCreate, _confirmed_registration_count, ConfirmedIn
  <2>5. FreshComplete(pc[g], loc[g])'
    BY <2>1, <2>3 DEF FreshComplete
  <2>6. FreshLeave(pc[g], loc[g])'
    BY <2>1, <2>3 DEF FreshLeave
  <2> QED
    BY <2>4, <2>5, <2>6
<1> QED
  BY <1>2, <1>3, <1>7 DEF SerialInv

\* create_order before its commit.
LEMMA SerialCreateRead ==
  ASSUME Inv, SerialInv, NEW h \in Handlers,
         \/ \E t \in TicketTypes, s \in Sessions, str \in CodeStrings \cup {None} :
               CreateBegin(h, t, s, str)
         \/ CreateReadEvent(h)
         \/ CreateReadCapacity(h)
         \/ CreateReadDiscount(h)
  PROVE  SerialInv' /\ UNCHANGED <<orders, regs>>
<1>1. loc[h] \in Request /\ HeldKeys(pc[h], loc[h]) /\ Fresh(pc[h], loc[h])
  BY DEF Inv, HeldOK, TypeOK, SerialInv, FreshOK, Fresh
<1>2. ASSUME NEW t \in TicketTypes, NEW s \in Sessions, NEW str \in CodeStrings \cup {None},
             CreateBegin(h, t, s, str)
      PROVE  SerialInv' /\ UNCHANGED <<orders, regs>>
  <2>1. PICK l : l = [NoRequest EXCEPT !.type = t, !.session = s, !.str = str]
    OBVIOUS
  <2>2. l \in Request /\ l.type = t /\ l.session = s /\ l.code = None
    BY <2>1, NoRequestType DEF Request, NoRequest
  <2>3. /\ Goto(h, "idle", "create_event", l) /\ UNCHANGED tables
        /\ EventOfSession[s] = EventOfType[t] /\ HasRoom(sold[t], QuantityTotal[t])
    BY <1>2, <2>1 DEF CreateBegin
  <2>4. Fresh("create_event", l) /\ "create_event" \in PC
    BY <2>2, <2>3 DEF Fresh, FreshCreate, FreshComplete, FreshLeave, PC
  <2> QED
    BY <2>2, <2>3, <2>4, SerialReadStep
<1>3. CASE CreateReadEvent(h)
  <2>1. pc[h] = "create_event" /\ Goto(h, "create_event", "create_capacity", loc[h])
        /\ UNCHANGED tables
    BY <1>3 DEF CreateReadEvent, Goto
  <2>2. Fresh("create_capacity", loc[h]) /\ "create_capacity" \in PC
    BY <1>1, <2>1 DEF Fresh, FreshCreate, FreshComplete, FreshLeave, PC
  <2> QED
    BY <1>1, <2>1, <2>2, SerialReadStep
<1>4. CASE CreateReadCapacity(h)
  <2>1. /\ pc[h] = "create_capacity" /\ Goto(h, "create_capacity", "create_discount", loc[h])
        /\ UNCHANGED tables
        /\ HasRoom(_confirmed_registration_count(loc[h].session), Capacity[loc[h].session])
    BY <1>4 DEF CreateReadCapacity, Goto, HasRoom
  <2>2. Fresh("create_discount", loc[h]) /\ "create_discount" \in PC
    BY <1>1, <2>1 DEF Fresh, FreshCreate, FreshComplete, FreshLeave, PC
  <2> QED
    BY <1>1, <2>1, <2>2, SerialReadStep
<1>5. CASE CreateReadDiscount(h)
  <2>1. pc[h] = "create_discount" /\ UNCHANGED tables
    BY <1>5 DEF CreateReadDiscount, Goto
  <2>2. loc[h].code = None
    BY <1>1, <2>1 DEF Fresh, FreshCreate
  <2>3. CASE loc[h].str = None
    <3>1. Goto(h, "create_discount", "create_insert", loc[h])
      BY <1>5, <2>3 DEF CreateReadDiscount
    <3>2. Fresh("create_insert", loc[h]) /\ "create_insert" \in PC
      BY <1>1, <2>1, <2>2 DEF Fresh, FreshCreate, FreshComplete, FreshLeave, PC
    <3> QED
      BY <1>1, <2>1, <3>1, <3>2, SerialReadStep
  <2>4. CASE loc[h].str # None
    <3>1. PICK e, c : e = EventOfType[loc[h].type] /\ c = find_valid_discount(e, loc[h].str)
      OBVIOUS
    <3>2. PICK l : l = [loc[h] EXCEPT !.code = c]
      OBVIOUS
    <3>3. Goto(h, "create_discount", "create_insert", l) /\ c # None
      BY <1>5, <2>4, <3>1, <3>2 DEF CreateReadDiscount
    <3>4. /\ e \in Events
          /\ EventCode[e][loc[h].str] \in Codes \cup {None}
          /\ PlatformCode[loc[h].str] \in Codes \cup {None}
      <4>1. loc[h].type \in TicketTypes /\ loc[h].str \in CodeStrings
        BY <1>1, <2>1, <2>4 DEF HeldKeys, Request
      <4> QED
        BY <3>1, <4>1, SaleAssumption
    <3>5. c \in Codes /\ HasRoom(uses[c], MaxUses[c])
      BY <3>1, <3>3, <3>4 DEF find_valid_discount, _is_usable
    <3>6. /\ l \in Request /\ l.type = loc[h].type /\ l.session = loc[h].session
          /\ l.code = c
      BY <1>1, <3>2, <3>5 DEF Request
    <3>7. Fresh("create_insert", l) /\ "create_insert" \in PC
      BY <1>1, <2>1, <3>5, <3>6 DEF Fresh, FreshCreate, FreshComplete, FreshLeave, PC
    <3> QED
      BY <2>1, <3>3, <3>6, <3>7, SerialReadStep
  <2> QED
    BY <2>3, <2>4
<1> QED
  BY <1>2, <1>3, <1>4, <1>5

\* complete_order before its commit.
LEMMA SerialCompleteRead ==
  ASSUME Inv, SerialInv, NEW h \in Handlers,
         \/ \E o \in DOMAIN orders : CompleteBegin(h, o)
         \/ CompleteReadType(h)
         \/ CompleteReadCode(h)
  PROVE  SerialInv' /\ UNCHANGED <<orders, regs>>
<1>1. /\ loc[h] \in Request /\ HeldKeys(pc[h], loc[h]) /\ Fresh(pc[h], loc[h])
      /\ sold \in [TicketTypes -> Nat] /\ uses \in [Codes -> Nat]
  BY DEF Inv, HeldOK, TypeOK, SerialInv, FreshOK, Fresh
<1>2. \A o \in DOMAIN orders : orders[o] \in Order /\ o \in Nat
  BY Rows DEF Inv
<1>3. ASSUME NEW o \in DOMAIN orders, CompleteBegin(h, o)
      PROVE  SerialInv' /\ UNCHANGED <<orders, regs>>
  <2>1. PICK l : l = [NoRequest EXCEPT !.order = o]
    OBVIOUS
  <2>2. l \in Request /\ l.order = o
    BY <1>2, <2>1, NoRequestType DEF Request, NoRequest
  <2>3. /\ Goto(h, "idle", "complete_type", l) /\ UNCHANGED tables
        /\ orders[o].status = "pending"
    BY <1>3, <2>1 DEF CompleteBegin
  <2>4. Fresh("complete_type", l) /\ "complete_type" \in PC
    BY <2>2, <2>3 DEF Fresh, FreshCreate, FreshComplete, FreshLeave, PC
  <2> QED
    BY <2>2, <2>3, <2>4, SerialReadStep
<1>4. CASE CompleteReadType(h)
  <2>1. PICK t, l : t = orders[loc[h].order].type /\ l = [loc[h] EXCEPT !.sold = sold[t]]
    OBVIOUS
  <2>2. Goto(h, "complete_type", "complete_code", l) /\ UNCHANGED tables
    BY <1>4, <2>1 DEF CompleteReadType
  <2>3. pc[h] = "complete_type"
    BY <2>2 DEF Goto
  <2>4. loc[h].order \in DOMAIN orders /\ t \in TicketTypes
    BY <1>1, <1>2, <2>1, <2>3 DEF HeldKeys, Order
  <2>5. l \in Request /\ l.order = loc[h].order /\ l.sold = sold[t]
    BY <1>1, <2>1, <2>4 DEF Request
  <2>6. orders[l.order].status = "pending"
    BY <1>1, <2>3, <2>5 DEF Fresh, FreshComplete
  <2>7. Fresh("complete_code", l) /\ "complete_code" \in PC
    BY <2>1, <2>5, <2>6 DEF Fresh, FreshCreate, FreshComplete, FreshLeave, PC
  <2> QED
    BY <2>2, <2>5, <2>7, SerialReadStep
<1>5. CASE CompleteReadCode(h)
  <2>1. PICK c, n : c = orders[loc[h].order].code /\ n = IF c = None THEN 0 ELSE uses[c]
    OBVIOUS
  <2>2. PICK l : l = [loc[h] EXCEPT !.uses = n]
    OBVIOUS
  <2>3. Goto(h, "complete_code", "complete_commit", l) /\ UNCHANGED tables
    BY <1>5, <2>1, <2>2 DEF CompleteReadCode
  <2>4. pc[h] = "complete_code"
    BY <2>3 DEF Goto
  <2>5. loc[h].order \in DOMAIN orders /\ c \in Codes \cup {None}
    BY <1>1, <1>2, <2>1, <2>4 DEF HeldKeys, Order
  <2>6. l \in Request /\ l.order = loc[h].order /\ l.sold = loc[h].sold /\ l.uses = n
    BY <1>1, <2>1, <2>2, <2>5 DEF Request
  <2>7. /\ orders[l.order].status = "pending" /\ l.sold = sold[orders[l.order].type]
        /\ orders[l.order].code # None => l.uses = uses[orders[l.order].code]
    BY <1>1, <2>1, <2>4, <2>6 DEF Fresh, FreshComplete
  <2>8. Fresh("complete_commit", l) /\ "complete_commit" \in PC
    BY <2>7 DEF Fresh, FreshCreate, FreshComplete, FreshLeave, PC
  <2> QED
    BY <2>3, <2>6, <2>8, SerialReadStep
<1> QED
  BY <1>3, <1>4, <1>5

\* cancel_registration and check_in_registration before their commits.
LEMMA SerialLeaveRead ==
  ASSUME Inv, SerialInv, NEW h \in Handlers,
         \/ \E r \in DOMAIN regs : CancelBegin(h, r)
         \/ CancelReadType(h)
         \/ \E r \in DOMAIN regs : CheckInBegin(h, r)
  PROVE  SerialInv' /\ UNCHANGED <<orders, regs>>
<1>1. /\ loc[h] \in Request /\ HeldKeys(pc[h], loc[h]) /\ Fresh(pc[h], loc[h])
      /\ sold \in [TicketTypes -> Nat]
  BY DEF Inv, HeldOK, TypeOK, SerialInv, FreshOK, Fresh
<1>2. ASSUME NEW r \in DOMAIN regs, NEW to \in {"cancel_type", "checkin_commit"},
             Goto(h, "idle", to, [NoRequest EXCEPT !.reg = r]), UNCHANGED tables,
             regs[r].status = "confirmed"
      PROVE  SerialInv' /\ UNCHANGED <<orders, regs>>
  <2>1. PICK l : l = [NoRequest EXCEPT !.reg = r]
    OBVIOUS
  <2>2. r \in Nat
    BY Rows DEF Inv
  <2>3. l \in Request /\ l.reg = r
    BY <2>1, <2>2, NoRequestType DEF Request, NoRequest
  <2>4. Goto(h, "idle", to, l)
    BY <1>2, <2>1
  <2>5. Fresh(to, l) /\ to \in PC
    BY <1>2, <2>3 DEF Fresh, FreshCreate, FreshComplete, FreshLeave, PC
  <2> QED
    BY <1>2, <2>3, <2>4, <2>5, SerialReadStep
<1>3. CASE CancelReadType(h)
  <2>1. PICK t, l : t = orders[regs[loc[h].reg].order].type /\ l = [loc[h] EXCEPT !.sold = sold[t]]
    OBVIOUS
  <2>2. Goto(h, "cancel_type", "cancel_commit", l) /\ UNCHANGED tables
    BY <1>3, <2>1 DEF CancelReadType
  <2>3. pc[h] = "cancel_type"
    BY <2>2 DEF Goto
  <2>4. loc[h].reg \in DOMAIN regs /\ regs[loc[h].reg].order \in DOMAIN orders
    BY <1>1, <2>3 DEF HeldKeys, Inv, OrdersResolve
  <2>5. t \in TicketTypes
    BY <2>1, <2>4, Rows DEF Inv, Order
  <2>6. l \in Request /\ l.reg = loc[h].reg /\ l.sold = sold[t]
    BY <1>1, <2>1, <2>5 DEF Request
  <2>7. regs[l.reg].status = "confirmed" /\ l.sold = sold[orders[regs[l.reg].order].type]
    BY <1>1, <2>1, <2>3, <2>6 DEF Fresh, FreshLeave
  <2>8. Fresh("cancel_commit", l) /\ "cancel_commit" \in PC
    BY <2>7 DEF Fresh, FreshCreate, FreshComplete, FreshLeave, PC
  <2> QED
    BY <2>2, <2>6, <2>8, SerialReadStep
<1> QED
  BY <1>2, <1>3 DEF CancelBegin, CheckInBegin

-----------------------------------------------------------------------------
(* The commits, each a step of TicketSale *)

\* The sets that TicketSale counts are those that the counters of the database
\* stand for.
LEMMA SameSets ==
  ASSUME TypeOK
  PROVE  /\ \A t : Sale!Occupying(t) = Live(t)
         /\ \A s : Sale!Expected(s) = ConfirmedIn(s)
         /\ \A c : Sale!UsedBy(c) = Redeemed(c)
<1>1. \A r \in DOMAIN regs : regs[r].status \in RegistrationStatus
  BY Rows DEF Registration
<1>2. \A t : Sale!Occupying(t) = Live(t)
  BY <1>1 DEF Sale!Occupying, Live, RegistrationStatus
<1>3. \A s : Sale!Expected(s) = ConfirmedIn(s)
  BY DEF Sale!Expected, ConfirmedIn
<1>4. \A c : Sale!UsedBy(c) = Redeemed(c)
  BY DEF Sale!UsedBy, Redeemed
<1> QED
  BY <1>2, <1>3, <1>4

\* TicketSale counts with the operator of the library.
LEMMA SameCount == \A S : Sale!Cardinality(S) = Cardinality(S)
BY DEF Cardinality, Sale!Cardinality

\* Exact counters below their limits are what TicketSale asks for.
LEMMA RoomIsBelow ==
  ASSUME TypeOK, CountersExact
  PROVE  /\ \A t \in TicketTypes : HasRoom(sold[t], QuantityTotal[t])
                                   => Sale!Below(Sale!Occupying(t), QuantityTotal[t])
         /\ \A s : HasRoom(_confirmed_registration_count(s), Capacity[s])
                   => Sale!Below(Sale!Expected(s), Capacity[s])
         /\ \A c \in Codes : HasRoom(uses[c], MaxUses[c])
                             => Sale!Below(Sale!UsedBy(c), MaxUses[c])
BY SameSets, SameCount DEF CountersExact, HasRoom, Sale!Below, _confirmed_registration_count

\* create_order's commit places the order.
LEMMA SerialInsert ==
  ASSUME Inv, Inv', SerialInv, Serial, NEW h \in Handlers, CreateInsert(h)
  PROVE  SerialInv' /\ Sale!Next
<1>1. PICK t, s, c : t = loc[h].type /\ s = loc[h].session /\ c = loc[h].code
  OBVIOUS
<1>2. PICK row : row = [status  |-> "pending",
                        payment |-> IF t \in FreeTypes THEN "not_required" ELSE "pending",
                        type    |-> t,
                        session |-> s,
                        code    |-> c]
  OBVIOUS
<1>3. /\ Goto(h, "create_insert", "idle", NoRequest)
      /\ orders' = Append(orders, row)
      /\ UNCHANGED <<sold, uses, regs>>
  BY <1>1, <1>2 DEF CreateInsert, Finish
<1>4. pc[h] = "create_insert"
  BY <1>3 DEF Goto
<1>5. t \in TicketTypes /\ s \in Sessions /\ c \in Codes \cup {None}
  BY <1>1, <1>4 DEF Inv, HeldOK, HeldKeys, TypeOK, Request
<1>6. Fresh("create_insert", loc[h])
  BY <1>4 DEF SerialInv, FreshOK, Fresh
<1>7. /\ EventOfSession[s] = EventOfType[t] /\ HasRoom(sold[t], QuantityTotal[t])
      /\ HasRoom(_confirmed_registration_count(s), Capacity[s])
      /\ c # None => HasRoom(uses[c], MaxUses[c])
  BY <1>1, <1>6 DEF Fresh, FreshCreate
<1>8. Sale!Place(t, s, c)
  <2>1. /\ Sale!Below(Sale!Occupying(t), QuantityTotal[t])
        /\ Sale!Below(Sale!Expected(s), Capacity[s])
        /\ c # None => Sale!Below(Sale!UsedBy(c), MaxUses[c])
    BY <1>5, <1>7, RoomIsBelow DEF Inv, SerialInv
  <2> QED
    BY <1>2, <1>3, <1>7, <2>1 DEF Sale!Place
<1>9. row \in Order
  BY <1>2, <1>5 DEF Order, OrderStatus, PaymentStatus
<1>10. /\ DOMAIN orders' = DOMAIN orders \cup {Len(orders) + 1}
       /\ \A j \in DOMAIN orders : orders'[j] = orders[j]
       /\ orders'[Len(orders) + 1] = row
  BY <1>3, <1>9, AppendProperties, LenProperties DEF Inv, TypeOK
<1>11. CountersExact'
  <2>1. \A r \in DOMAIN regs : orders'[regs[r].order] = orders[regs[r].order]
    BY <1>10 DEF Inv, OrdersResolve
  <2>2. \A u : Live(u)' = Live(u)
    BY <1>3, <2>1 DEF Live
  <2>3. \A d : Redeemed(d)' = Redeemed(d)
    BY <1>3, <2>1 DEF Redeemed
  <2> QED
    BY <1>3, <2>2, <2>3 DEF SerialInv, CountersExact
<1>12. PaymentsDue'
  BY <1>2, <1>10 DEF SerialInv, PaymentsDue
<1>13. FreshOK'
  <2>1. "idle" \in PC
    BY DEF PC
  <2>2. pc'[h] = "idle"
    BY <1>3, <2>1, NoRequestType, GotoStep DEF Inv
  <2>3. Fresh(pc[h], loc[h])'
    BY <2>2 DEF Fresh, FreshCreate, FreshComplete, FreshLeave
  <2> QED
    BY <1>3, <1>4, <2>1, <2>3, NoRequestType, OthersIdle
<1> QED
  BY <1>5, <1>8, <1>11, <1>12, <1>13 DEF SerialInv, Sale!Next

\* complete_order's first commit completes the order.
LEMMA SerialCommit ==
  ASSUME Inv, Inv', SerialInv, Serial, NEW h \in Handlers, CompleteCommit(h)
  PROVE  SerialInv' /\ Sale!Next
<1>1. PICK o, n, held : /\ o = loc[h].order /\ n = Len(regs) + 1
                        /\ held = [NoRequest EXCEPT !.reg = n]
  OBVIOUS
<1>2. PICK t, c : t = orders[o].type /\ c = orders[o].code
  OBVIOUS
<1>3. PICK row, reg : row = Completed(orders[o]) /\ reg = [order |-> o, status |-> "confirmed"]
  OBVIOUS
<1>4. Goto(h, "complete_commit", "complete_notify", held)
  BY <1>1 DEF CompleteCommit
<1>5. pc[h] = "complete_commit"
  BY <1>4 DEF Goto
<1>6. o \in DOMAIN orders /\ o \in Nat /\ orders[o] \in Order
  <2>1. o \in DOMAIN orders
    BY <1>1, <1>5 DEF Inv, HeldOK, HeldKeys
  <2> QED
    BY <2>1, Rows DEF Inv
<1>7. t \in TicketTypes /\ c \in Codes \cup {None}
  BY <1>2, <1>6 DEF Order
<1>8. /\ sold' = [sold EXCEPT ![t] = loc[h].sold + 1]
      /\ uses' = IF c = None THEN uses ELSE [uses EXCEPT ![c] = loc[h].uses + 1]
      /\ orders' = [orders EXCEPT ![o] = row]
      /\ regs' = Append(regs, reg)
  BY <1>1, <1>2, <1>3, <1>6 DEF CompleteCommit
<1>9. Fresh("complete_commit", loc[h])
  BY <1>5 DEF SerialInv, FreshOK, Fresh
<1>10. /\ orders[o].status = "pending" /\ loc[h].sold = sold[t]
       /\ c # None => loc[h].uses = uses[c]
  BY <1>1, <1>2, <1>9 DEF Fresh, FreshComplete
<1>11. HasRoom(sold[t], QuantityTotal[t])
  <2>1. HasRoom(loc[h].sold, QuantityTotal[orders[loc[h].order].type])
    BY <1>5 DEF Inv, HeldOK, HeldSold
  <2> QED
    BY <1>1, <1>2, <1>10, <2>1
<1>12. orders[o].payment = IF t \in FreeTypes THEN "not_required" ELSE "pending"
  BY <1>2, <1>6, <1>10 DEF SerialInv, PaymentsDue
<1>13. row = [orders[o] EXCEPT !.status = "completed",
                               !.payment = IF t \in FreeTypes THEN "not_required" ELSE "simulated_paid"]
  BY <1>3, <1>6, <1>12 DEF Completed, Order
<1>14. /\ row \in Order /\ row.status = "completed"
       /\ row.type = t /\ row.code = c
  BY <1>2, <1>6, <1>13 DEF Order, OrderStatus, PaymentStatus
<1>15. reg \in Registration /\ reg.order = o /\ reg.status = "confirmed"
  BY <1>3, <1>6 DEF Registration, RegistrationStatus
<1>16. Sale!Complete(o)
  <2>1. Sale!Below(Sale!Occupying(t), QuantityTotal[t])
    BY <1>7, <1>11, RoomIsBelow DEF Inv, SerialInv
  <2>2. orders' = [orders EXCEPT
          ![o].status = "completed",
          ![o].payment = IF t \in FreeTypes THEN "not_required" ELSE "simulated_paid"]
    BY <1>8, <1>13
  <2> QED
    BY <1>2, <1>3, <1>8, <1>10, <2>1, <2>2 DEF Sale!Complete
<1>17. /\ DOMAIN orders' = DOMAIN orders
       /\ \A j \in DOMAIN orders : orders'[j] = IF j = o THEN row ELSE orders[j]
  BY <1>6, <1>8, <1>14, LenProperties, ExceptSeq DEF Inv, TypeOK
<1>18. /\ DOMAIN regs' = DOMAIN regs \cup {n} /\ n \notin DOMAIN regs /\ n \in Nat
       /\ \A j \in DOMAIN regs : regs'[j] = regs[j]
       /\ regs'[n] = reg
  BY <1>1, <1>8, <1>15, AppendProperties, LenProperties DEF Inv, TypeOK
<1>19. /\ \A r \in DOMAIN regs : orders'[regs'[r].order].type = orders[regs[r].order].type
       /\ \A r \in DOMAIN regs : orders'[regs'[r].order].code = orders[regs[r].order].code
       /\ orders'[regs'[n].order].type = t /\ orders'[regs'[n].order].code = c
  BY <1>2, <1>6, <1>14, <1>15, <1>17, <1>18 DEF Inv, OrdersResolve
<1>20. ASSUME NEW u \in TicketTypes PROVE sold'[u] = Cardinality(Live(u)')
  <2>1. IsFiniteSet(Live(u)) /\ Cardinality(Live(u)) \in Nat
    BY RegsFinite DEF Live, Inv
  <2>2. sold[u] = Cardinality(Live(u)) /\ sold \in [TicketTypes -> Nat]
    BY DEF SerialInv, CountersExact, Inv, TypeOK
  <2>3. CASE u = t
    <3>1. Live(u)' = Live(u) \cup {n} /\ n \notin Live(u)
      BY <1>15, <1>18, <1>19, <2>3 DEF Live
    <3>2. Cardinality(Live(u)') = Cardinality(Live(u)) + 1
      BY <2>1, <3>1, FS_AddElement
    <3> QED
      BY <1>8, <1>10, <2>2, <2>3, <3>2
  <2>4. CASE u # t
    <3>1. Live(u)' = Live(u)
      BY <1>18, <1>19, <2>4 DEF Live
    <3> QED
      BY <1>8, <2>2, <2>4, <3>1
  <2> QED
    BY <2>3, <2>4
<1>21. ASSUME NEW d \in Codes PROVE uses'[d] = Cardinality(Redeemed(d)')
  <2>1. IsFiniteSet(Redeemed(d)) /\ Cardinality(Redeemed(d)) \in Nat
    BY RedeemedFinite DEF Inv
  <2>2. uses[d] = Cardinality(Redeemed(d)) /\ uses \in [Codes -> Nat] /\ d # None
    BY SaleAssumption DEF SerialInv, CountersExact, Inv, TypeOK
  <2>3. CASE d = c
    <3>1. Redeemed(d)' = Redeemed(d) \cup {n} /\ n \notin Redeemed(d)
      BY <1>18, <1>19, <2>3 DEF Redeemed
    <3>2. Cardinality(Redeemed(d)') = Cardinality(Redeemed(d)) + 1
      BY <2>1, <3>1, FS_AddElement
    <3> QED
      BY <1>8, <1>10, <2>2, <2>3, <3>2
  <2>4. CASE d # c
    <3>1. Redeemed(d)' = Redeemed(d)
      BY <1>18, <1>19, <2>4 DEF Redeemed
    <3> QED
      BY <1>8, <2>2, <2>4, <3>1
  <2> QED
    BY <2>3, <2>4
<1>22. PaymentsDue'
  BY <1>14, <1>17 DEF SerialInv, PaymentsDue
<1>23. FreshOK'
  <2>1. held \in Request /\ "complete_notify" \in PC
    BY <1>1, <1>18, NoRequestType DEF PC, Request
  <2>2. pc'[h] = "complete_notify"
    BY <1>4, <2>1, GotoStep DEF Inv
  <2>3. Fresh(pc[h], loc[h])'
    BY <2>2 DEF Fresh, FreshCreate, FreshComplete, FreshLeave
  <2> QED
    BY <1>4, <1>5, <2>1, <2>3, OthersIdle
<1> QED
  BY <1>6, <1>16, <1>20, <1>21, <1>22, <1>23 DEF SerialInv, CountersExact, Sale!Next

\* A registration leaves CONFIRMED: what the commits of cancel_registration and
\* check_in_registration share.
LEMMA SerialLeave ==
  ASSUME Inv, SerialInv, Serial, NEW h \in Handlers,
         NEW from \in {"cancel_commit", "checkin_commit"}, Finish(h, from),
         NEW st \in {"cancelled", "checked_in"},
         regs' = [regs EXCEPT ![loc[h].reg] = [@ EXCEPT !.status = st]],
         UNCHANGED <<uses, orders>>,
         \A u \in TicketTypes : sold'[u] = Cardinality(Live(u)')
  PROVE  SerialInv' /\ Sale!Next
<1>1. PICK r : r = loc[h].reg
  OBVIOUS
<1>2. pc[h] = from /\ Goto(h, from, "idle", NoRequest) /\ pc[h] # "idle"
  BY DEF Finish, Goto
<1>3. r \in DOMAIN regs /\ regs[r] \in Registration
  <2>1. r \in DOMAIN regs
    BY <1>1, <1>2 DEF Inv, HeldOK, HeldKeys
  <2> QED
    BY <2>1, Rows DEF Inv
<1>4. regs[r].status = "confirmed"
  BY <1>1, <1>2 DEF SerialInv, FreshOK, FreshLeave
<1>5. Sale!Leave(r, st)
  BY <1>1, <1>3, <1>4 DEF Sale!Leave
<1>6. \A j \in DOMAIN regs : regs'[j].order = regs[j].order
  BY <1>1, <1>3 DEF Registration
<1>7. DOMAIN regs' = DOMAIN regs
  OBVIOUS
<1>8. \A d : Redeemed(d)' = Redeemed(d)
  BY <1>6, <1>7 DEF Redeemed
<1>9. CountersExact'
  BY <1>8 DEF SerialInv, CountersExact
<1>10. PaymentsDue'
  BY DEF SerialInv, PaymentsDue
<1>11. FreshOK'
  <2>1. "idle" \in PC
    BY DEF PC
  <2>2. pc'[h] = "idle"
    BY <1>2, <2>1, NoRequestType, GotoStep DEF Inv
  <2>3. Fresh(pc[h], loc[h])'
    BY <2>2 DEF Fresh, FreshCreate, FreshComplete, FreshLeave
  <2> QED
    BY <1>2, <2>1, <2>3, NoRequestType, OthersIdle
<1> QED
  BY <1>3, <1>5, <1>9, <1>10, <1>11 DEF SerialInv, Sale!Next

\* cancel_registration's commit cancels the registration and frees its place.
LEMMA SerialCancel ==
  ASSUME Inv, SerialInv, Serial, NEW h \in Handlers, CancelCommit(h)
  PROVE  SerialInv' /\ Sale!Next
<1>1. PICK r, t : r = loc[h].reg /\ t = orders[regs[r].order].type
  OBVIOUS
<1>2. pc[h] = "cancel_commit"
  BY DEF CancelCommit, Finish, Goto
<1>3. r \in DOMAIN regs /\ regs[r] \in Registration /\ t \in TicketTypes
  <2>1. r \in DOMAIN regs /\ regs[r].order \in DOMAIN orders
    BY <1>1, <1>2 DEF Inv, HeldOK, HeldKeys, OrdersResolve
  <2>2. regs[r] \in Registration /\ orders[regs[r].order] \in Order
    BY <2>1, Rows DEF Inv
  <2> QED
    BY <1>1, <2>1, <2>2 DEF Order
<1>4. regs[r].status = "confirmed" /\ loc[h].sold = sold[t]
  BY <1>1, <1>2 DEF SerialInv, FreshOK, FreshLeave
<1>5. /\ sold' = [sold EXCEPT ![t] = IF loc[h].sold = 0 THEN sold[t] ELSE loc[h].sold - 1]
      /\ regs' = [regs EXCEPT ![r] = [regs[r] EXCEPT !.status = "cancelled"]]
      /\ UNCHANGED <<uses, orders>>
  BY <1>1, <1>3 DEF CancelCommit
<1>6. /\ DOMAIN regs' = DOMAIN regs
      /\ regs'[r].order = regs[r].order /\ regs'[r].status = "cancelled"
      /\ \A j \in DOMAIN regs \ {r} : regs'[j] = regs[j]
  BY <1>3, <1>5 DEF Registration
<1>7. ASSUME NEW u \in TicketTypes PROVE sold'[u] = Cardinality(Live(u)')
  <2>1. IsFiniteSet(Live(u)) /\ Cardinality(Live(u)) \in Nat
    BY RegsFinite DEF Live, Inv
  <2>2. sold[u] = Cardinality(Live(u)) /\ sold \in [TicketTypes -> Nat]
    BY DEF SerialInv, CountersExact, Inv, TypeOK
  <2>3. CASE u = t
    <3>1. Live(u)' = Live(u) \ {r} /\ r \in Live(u)
      BY <1>1, <1>3, <1>4, <1>5, <1>6, <2>3 DEF Live
    <3>2. Cardinality(Live(u)') = Cardinality(Live(u)) - 1
      BY <2>1, <3>1, FS_RemoveElement
    <3>3. Cardinality(Live(u)') \in Nat
      <4>1. IsFiniteSet(Live(u) \ {r})
        BY <2>1, FS_RemoveElement
      <4> QED
        BY <3>1, <4>1, FS_CardinalityType
    <3> QED
      BY <1>4, <1>5, <2>1, <2>2, <2>3, <3>2, <3>3
  <2>4. CASE u # t
    <3>1. Live(u)' = Live(u)
      BY <1>1, <1>3, <1>5, <1>6, <2>4 DEF Live
    <3> QED
      BY <1>5, <2>2, <2>4, <3>1
  <2> QED
    BY <2>3, <2>4
<1> QED
  BY <1>7, SerialLeave DEF CancelCommit

\* check_in_registration's commit lets the guest in, who keeps the place.
LEMMA SerialCheckIn ==
  ASSUME Inv, SerialInv, Serial, NEW h \in Handlers, CheckInCommit(h)
  PROVE  SerialInv' /\ Sale!Next
<1>1. PICK r : r = loc[h].reg
  OBVIOUS
<1>2. pc[h] = "checkin_commit"
  BY DEF CheckInCommit, Finish, Goto
<1>3. r \in DOMAIN regs /\ regs[r] \in Registration
  <2>1. r \in DOMAIN regs
    BY <1>1, <1>2 DEF Inv, HeldOK, HeldKeys
  <2> QED
    BY <2>1, Rows DEF Inv
<1>4. regs[r].status = "confirmed"
  BY <1>1, <1>2 DEF SerialInv, FreshOK, FreshLeave
<1>5. /\ regs' = [regs EXCEPT ![r] = [regs[r] EXCEPT !.status = "checked_in"]]
      /\ UNCHANGED <<sold, uses, orders>>
  BY <1>1, <1>3 DEF CheckInCommit
<1>6. /\ DOMAIN regs' = DOMAIN regs
      /\ regs'[r].order = regs[r].order /\ regs'[r].status = "checked_in"
      /\ \A j \in DOMAIN regs \ {r} : regs'[j] = regs[j]
  BY <1>3, <1>5 DEF Registration
<1>7. \A u : Live(u)' = Live(u)
  BY <1>3, <1>4, <1>5, <1>6 DEF Live
<1>8. \A u \in TicketTypes : sold'[u] = Cardinality(Live(u)')
  BY <1>5, <1>7 DEF SerialInv, CountersExact
<1> QED
  BY <1>8, SerialLeave DEF CheckInCommit

\* The outbox rows, failures, time and event status leave orders and registrations
\* as they were.
LEMMA SerialQuiet ==
  ASSUME Inv, SerialInv,
         \/ \E h \in Handlers : CompleteNotify(h) \/ Fail(h)
         \/ \E e \in Events : EventStatusChanges(e)
         \/ Tick
         \/ UNCHANGED vars
  PROVE  SerialInv' /\ UNCHANGED <<orders, regs>>
<1>1. UNCHANGED <<sold, uses, orders, regs>>
  BY DEF CompleteNotify, Fail, EventStatusChanges, Tick, vars, tables
<1>2. CountersExact' /\ PaymentsDue'
  BY <1>1 DEF SerialInv, CountersExact, PaymentsDue, Live, Redeemed
<1>3. ASSUME NEW g \in Handlers
      PROVE  pc'[g] = "idle" \/ (pc'[g] = pc[g] /\ loc'[g] = loc[g])
  <2>1. pc \in [Handlers -> PC] /\ loc \in [Handlers -> Request]
    BY DEF Inv, TypeOK
  <2> QED
    BY <2>1 DEF CompleteNotify, Fail, Finish, Goto, EventStatusChanges, Tick, vars
<1>4. FreshOK'
  <2> SUFFICES ASSUME NEW g \in Handlers
               PROVE  (FreshCreate(pc[g], loc[g]) /\ FreshComplete(pc[g], loc[g]) /\ FreshLeave(pc[g], loc[g]))'
    BY DEF FreshOK
  <2>1. CASE pc'[g] = "idle"
    BY <2>1 DEF FreshCreate, FreshComplete, FreshLeave
  <2>2. CASE pc'[g] = pc[g] /\ loc'[g] = loc[g]
    <3>1. FreshCreate(pc[g], loc[g])'
      BY <1>1, <2>2 DEF SerialInv, FreshOK, FreshCreate, _confirmed_registration_count, ConfirmedIn
    <3>2. FreshComplete(pc[g], loc[g])'
      BY <1>1, <2>2 DEF SerialInv, FreshOK, FreshComplete
    <3>3. FreshLeave(pc[g], loc[g])'
      BY <1>1, <2>2 DEF SerialInv, FreshOK, FreshLeave
    <3> QED
      BY <3>1, <3>2, <3>3
  <2> QED
    BY <1>3, <2>1, <2>2
<1> QED
  BY <1>1, <1>2, <1>4 DEF SerialInv

\* Every step keeps the invariant and is a step of TicketSale or leaves its
\* variables alone, as long as requests do not overlap.
LEMMA SerialNext ==
  ASSUME Inv, SerialInv, Serial, [Next]_vars
  PROVE  SerialInv' /\ [Sale!Next]_(Sale!sale)
<1>1. Inv'
  BY NextInv
<1>2. UNCHANGED <<orders, regs>> => UNCHANGED Sale!sale
  BY DEF Sale!sale
<1>3. ASSUME NEW h \in Handlers, create_order(h) PROVE SerialInv' /\ [Sale!Next]_(Sale!sale)
  BY <1>1, <1>2, <1>3, SerialCreateRead, SerialInsert DEF create_order
<1>4. ASSUME NEW h \in Handlers, complete_order(h) PROVE SerialInv' /\ [Sale!Next]_(Sale!sale)
  BY <1>1, <1>2, <1>4, SerialCompleteRead, SerialCommit, SerialQuiet DEF complete_order
<1>5. ASSUME NEW h \in Handlers, cancel_registration(h) PROVE SerialInv' /\ [Sale!Next]_(Sale!sale)
  BY <1>2, <1>5, SerialLeaveRead, SerialCancel DEF cancel_registration
<1>6. ASSUME NEW h \in Handlers, check_in_registration(h) PROVE SerialInv' /\ [Sale!Next]_(Sale!sale)
  BY <1>2, <1>6, SerialLeaveRead, SerialCheckIn DEF check_in_registration
<1>7. ASSUME NEW h \in Handlers, Fail(h) PROVE SerialInv' /\ [Sale!Next]_(Sale!sale)
  BY <1>2, <1>7, SerialQuiet
<1>8. CASE (\E e \in Events : EventStatusChanges(e)) \/ Tick \/ UNCHANGED vars
  BY <1>2, <1>8, SerialQuiet
<1> QED
  BY <1>3, <1>4, <1>5, <1>6, <1>7, <1>8 DEF Next, HandlerStep

-----------------------------------------------------------------------------
(* The theorems *)

\* While requests do not overlap, quantity_sold counts the live registrations of
\* its ticket type and uses_count the registrations that redeemed its code, through
\* every completion, cancellation, check-in and failure.
THEOREM SerialCountersExact == Spec /\ []Serial => []CountersExact
<1>1. Init => SerialInv
  BY InitSerialInv
<1>2. Inv /\ SerialInv /\ Serial /\ [Next]_vars => SerialInv'
  BY SerialNext
<1>3. SerialInv => CountersExact
  BY DEF SerialInv
<1> QED
  BY <1>1, <1>2, <1>3, Invariance, PTL DEF Spec

\* While requests do not overlap, no ticket type has more live registrations than
\* its quantity_total.
THEOREM NothingOversold ==
  Spec /\ []Serial =>
    [](\A t \in TicketTypes :
         QuantityTotal[t] # NoLimit => Cardinality(Live(t)) <= QuantityTotal[t])
<1>1. SoldWithinQuantity /\ CountersExact =>
        \A t \in TicketTypes :
          QuantityTotal[t] # NoLimit => Cardinality(Live(t)) <= QuantityTotal[t]
  BY DEF SoldWithinQuantity, CountersExact
<1> QED
  BY <1>1, SoldStaysWithinQuantity, SerialCountersExact, PTL

\* While requests do not overlap, the service implements TicketSale: each commit
\* does what its operation promises, and no other step changes anything.
THEOREM SerialImplements == Spec /\ []Serial => ImplementsTicketSale
<1>1. Init => Sale!Init
  BY DEF Init, Sale!Init
<1>2. Init => SerialInv
  BY InitSerialInv
<1>3. Inv /\ SerialInv /\ Serial /\ [Next]_vars => SerialInv' /\ [Sale!Next]_(Sale!sale)
  BY SerialNext
<1> QED
  BY <1>1, <1>2, <1>3, Invariance, PTL DEF Spec, ImplementsTicketSale, Sale!Spec

\* A single handler never overlaps itself, so with one handler the service
\* implements TicketSale and its counters are exact.
THEOREM OneHandlerImplements ==
  ASSUME \A g, h \in Handlers : g = h
  PROVE  Spec => ImplementsTicketSale /\ []CountersExact
<1>1. Serial
  BY DEF Serial
<1> QED
  BY <1>1, SerialImplements, SerialCountersExact, PTL
=============================================================================
