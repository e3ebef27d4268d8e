----------------------------- MODULE OrderService -----------------------------
(***************************************************************************)
(* Ticket orders and registrations: order_service.py, the endpoints that   *)
(* call it, the discount lookup and the tables they share.                 *)
(*                                                                         *)
(* Every HTTP request runs in a handler of its own (four gunicorn workers, *)
(* each with a thread pool) with its own SQLAlchemy session over SQLite.   *)
(* A SELECT sees the last committed rows and takes no lock; the ORM keeps  *)
(* what it read in memory and writes the changed columns, as absolute      *)
(* values and by primary key only, in one transaction at db.commit().  A   *)
(* request is therefore a series of read steps followed by one atomic      *)
(* commit, and what it read may be stale when it commits.  A request that  *)
(* fails a check, raises or loses its process before the commit writes     *)
(* nothing (Fail).                                                         *)
(*                                                                         *)
(* Rows get ascending primary keys, so a table is a sequence and a key is  *)
(* an index.  ticket_code is unique by a database constraint, so it is     *)
(* represented by the key of its registration.  Amounts, users and         *)
(* ownership checks are left out: an order is only ever completed, and a   *)
(* registration only ever cancelled, by a request allowed to do so.        *)
(***************************************************************************)
EXTENDS Integers, Sequences, FiniteSets

CONSTANTS
  Handlers,        \* request handlers that may run at the same time
  Events,          \* events.id
  TicketTypes,     \* ticket_types.id
  Sessions,        \* event_sessions.id
  Codes,           \* rows of discount_codes and platform_discount_codes
  CodeStrings,     \* what a buyer may type as a discount code
  NoLimit,         \* a NULL quantity_total, capacity or max_uses
  None,            \* SQL NULL or Python None: no code, no ticket type, no session
  EventOfType,     \* ticket_types.event_id
  EventOfSession,  \* event_sessions.event_id
  QuantityTotal,   \* ticket_types.quantity_total
  Capacity,        \* event_sessions.capacity
  MaxUses,         \* max_uses of either code table
  UsableAt,        \* the instants at which a code is active and within its dates
  EventCode,       \* discount_codes by event and code string
  PlatformCode,    \* platform_discount_codes by code string
  FreeTypes,       \* ticket types whose pricing_model is FREE
  EarlyBirdTypes,  \* ticket types with is_early_bird
  EarlyBirdEnds,   \* per event, the instant is_early_bird_active turns false
  MaxOrders,       \* bound: orders ever created
  MaxRegs,         \* bound: registrations ever created
  MaxClock         \* bound: the last instant considered

Limits == Nat \cup {NoLimit}

ASSUME SaleAssumption ==
  /\ NoLimit \notin Nat
  /\ None \notin Codes \cup CodeStrings \cup TicketTypes \cup Sessions
  /\ EventOfType \in [TicketTypes -> Events]
  /\ EventOfSession \in [Sessions -> Events]
  /\ QuantityTotal \in [TicketTypes -> Limits]
  /\ Capacity \in [Sessions -> Limits]
  /\ MaxUses \in [Codes -> Limits]
  /\ UsableAt \in [Codes -> SUBSET Nat]
  /\ EventCode \in [Events -> [CodeStrings -> Codes \cup {None}]]
  /\ PlatformCode \in [CodeStrings -> Codes \cup {None}]
  /\ FreeTypes \subseteq TicketTypes
  /\ EarlyBirdTypes \subseteq TicketTypes
  /\ EarlyBirdEnds \in [Events -> Nat]
  /\ MaxOrders \in Nat
  /\ MaxRegs \in Nat
  /\ MaxClock \in Nat

VARIABLES
  sold,         \* ticket_types.quantity_sold
  uses,         \* uses_count of either code table
  orders,       \* orders joined with their only order_item
  regs,         \* registrations
  outbox,       \* registrations whose notification was enqueued
  eventStatus,  \* events.status
  clock,        \* utcnow()
  pc,           \* where each handler is in its request
  loc           \* what each handler holds in memory

tables == <<sold, uses, orders, regs, outbox>>
world  == <<eventStatus, clock>>
vars   == <<sold, uses, orders, regs, outbox, eventStatus, clock, pc, loc>>

OrderStatus == {"pending", "completed"}
PaymentStatus == {"not_required", "pending", "simulated_paid"}
RegistrationStatus == {"confirmed", "cancelled", "checked_in"}
EventStatus == {"draft", "published", "cancelled"}

Order == [status : OrderStatus, payment : PaymentStatus,
          type : TicketTypes, session : Sessions, code : Codes \cup {None}]
Registration == [order : Nat, status : RegistrationStatus]

PC == {"idle",
       "create_event", "create_capacity", "create_discount", "create_insert",
       "complete_type", "complete_code", "complete_commit", "complete_notify",
       "cancel_type", "cancel_commit", "checkin_commit"}

\* Handlers that are not handling a request hold nothing.
NoRequest == [type |-> None, session |-> None, str |-> None, code |-> None,
              order |-> 0, reg |-> 0, sold |-> 0, uses |-> 0]

Request == [type : TicketTypes \cup {None}, session : Sessions \cup {None},
            str : CodeStrings \cup {None}, code : Codes \cup {None},
            order : Nat, reg : Nat, sold : Nat, uses : Nat]

TypeOK ==
  /\ sold \in [TicketTypes -> Nat]
  /\ uses \in [Codes -> Nat]
  /\ orders \in Seq(Order)
  /\ regs \in Seq(Registration)
  /\ outbox \subseteq Nat
  /\ eventStatus \in [Events -> EventStatus]
  /\ clock \in Nat
  /\ pc \in [Handlers -> PC]
  /\ loc \in [Handlers -> Request]

Init ==
  /\ sold = [t \in TicketTypes |-> 0]
  /\ uses = [c \in Codes |-> 0]
  /\ orders = << >>
  /\ regs = << >>
  /\ outbox = {}
  /\ eventStatus = [e \in Events |-> "draft"]
  /\ clock = 0
  /\ pc = [h \in Handlers |-> "idle"]
  /\ loc = [h \in Handlers |-> NoRequest]

-----------------------------------------------------------------------------
(* Helpers *)

\* n is still below a limit that may be NULL
HasRoom(n, limit) == limit # NoLimit => n < limit

\* _confirmed_registration_count: CONFIRMED only, a checked-in guest is not counted
ConfirmedIn(s) ==
  {r \in DOMAIN regs : orders[regs[r].order].session = s /\ regs[r].status = "confirmed"}

_confirmed_registration_count(s) == Cardinality(ConfirmedIn(s))

_is_usable(c) == clock \in UsableAt[c] /\ HasRoom(uses[c], MaxUses[c])

\* find_valid_discount: the event's own code first, then the platform's
find_valid_discount(e, str) ==
  LET eventCode  == EventCode[e][str]
      siteCode == PlatformCode[str]
  IN  IF eventCode # None /\ _is_usable(eventCode) THEN eventCode
      ELSE IF siteCode # None /\ _is_usable(siteCode) THEN siteCode
      ELSE None

is_early_bird_active(e) == clock < EarlyBirdEnds[e]

\* Handler h goes from one point of its request to the next, remembering l.
Goto(h, from, to, l) ==
  /\ pc[h] = from
  /\ pc' = [pc EXCEPT ![h] = to]
  /\ loc' = [loc EXCEPT ![h] = l]

Finish(h, from) == Goto(h, from, "idle", NoRequest)

-----------------------------------------------------------------------------
(* POST /orders: create_order *)

\* The ticket type and the session are read; quantity_sold is compared on this read.
CreateBegin(h, t, s, str) ==
  /\ Len(orders) < MaxOrders
  /\ EventOfSession[s] = EventOfType[t]
  /\ HasRoom(sold[t], QuantityTotal[t])
  /\ Goto(h, "idle", "create_event",
          [NoRequest EXCEPT !.type = t, !.session = s, !.str = str])
  /\ UNCHANGED <<tables, world>>

\* The event is read (its deleted_at is not looked at) and, for an early bird
\* ticket, the sales window.
CreateReadEvent(h) ==
  LET t == loc[h].type
  IN  /\ Goto(h, "create_event", "create_capacity", loc[h])
      /\ eventStatus[EventOfType[t]] = "published"
      /\ t \in EarlyBirdTypes => is_early_bird_active(EventOfType[t])
      /\ UNCHANGED <<tables, world>>

CreateReadCapacity(h) ==
  LET s == loc[h].session
  IN  /\ Goto(h, "create_capacity", "create_discount", loc[h])
      /\ Capacity[s] # NoLimit => _confirmed_registration_count(s) < Capacity[s]
      /\ UNCHANGED <<tables, world>>

CreateReadDiscount(h) ==
  LET str  == loc[h].str
      code == find_valid_discount(EventOfType[loc[h].type], str)
  IN  /\ \/ str = None /\ Goto(h, "create_discount", "create_insert", loc[h])
         \/ /\ str # None
            /\ code # None
            /\ Goto(h, "create_discount", "create_insert", [loc[h] EXCEPT !.code = code])
      /\ UNCHANGED <<tables, world>>

\* The PENDING order and its item are inserted in one transaction.
CreateInsert(h) ==
  LET t == loc[h].type
  IN  /\ Len(orders) < MaxOrders
      /\ Finish(h, "create_insert")
      /\ orders' = Append(orders,
           [status  |-> "pending",
            payment |-> IF t \in FreeTypes THEN "not_required" ELSE "pending",
            type    |-> t,
            session |-> loc[h].session,
            code    |-> loc[h].code])
      /\ UNCHANGED <<sold, uses, regs, outbox, world>>

create_order(h) ==
  \/ \E t \in TicketTypes, s \in Sessions, str \in CodeStrings \cup {None} :
        CreateBegin(h, t, s, str)
  \/ CreateReadEvent(h)
  \/ CreateReadCapacity(h)
  \/ CreateReadDiscount(h)
  \/ CreateInsert(h)

-----------------------------------------------------------------------------
(* POST /orders/{id}/complete: complete_order *)

CompleteBegin(h, o) ==
  /\ orders[o].status = "pending"
  /\ Goto(h, "idle", "complete_type", [NoRequest EXCEPT !.order = o])
  /\ UNCHANGED <<tables, world>>

\* Mutant: quantity_sold is read but not compared again.
CompleteReadType_NoCheck(h) ==
  /\ Goto(h, "complete_type", "complete_code",
          [loc[h] EXCEPT !.sold = sold[orders[loc[h].order].type]])
  /\ UNCHANGED <<tables, world>>

\* quantity_sold is read, compared and kept; session capacity, event status and
\* discount validity are not looked at again.
CompleteReadType(h) ==
  LET t == orders[loc[h].order].type
  IN  /\ Goto(h, "complete_type", "complete_code", [loc[h] EXCEPT !.sold = sold[t]])
      /\ HasRoom(sold[t], QuantityTotal[t])
      /\ UNCHANGED <<tables, world>>

CompleteReadCode(h) ==
  LET c == orders[loc[h].order].code
  IN  /\ Goto(h, "complete_code", "complete_commit",
              [loc[h] EXCEPT !.uses = IF c = None THEN 0 ELSE uses[c]])
      /\ UNCHANGED <<tables, world>>

\* Mutant: the payment of the order is left outstanding.
Completed_Unpaid(order) == [order EXCEPT !.status = "completed"]

\* The order's columns after completion: COMPLETED and, if a payment was due, paid.
Completed(order) ==
  [order EXCEPT !.status = "completed",
                !.payment = IF order.payment = "pending" THEN "simulated_paid"
                                                         ELSE order.payment]

\* Mutant: a registration of the order that exists already is confirmed again
\* instead of a second one being inserted.
CompleteCommit_Upsert(h) ==
  LET o == loc[h].order
      old == {r \in DOMAIN regs : regs[r].order = o}
  IN  /\ Len(regs) < MaxRegs
      /\ Finish(h, "complete_commit")
      /\ sold' = [sold EXCEPT ![orders[o].type] = loc[h].sold + 1]
      /\ orders' = [orders EXCEPT ![o] = Completed(@)]
      /\ regs' = IF old = {} THEN Append(regs, [order |-> o, status |-> "confirmed"])
                 ELSE [r \in DOMAIN regs |->
                         IF r \in old THEN [order |-> o, status |-> "confirmed"] ELSE regs[r]]
      /\ UNCHANGED <<uses, outbox, world>>

\* One transaction: the counters get the values read earlier plus one, the order
\* becomes COMPLETED and the registration is inserted.
CompleteCommit(h) ==
  LET o == loc[h].order
      t == orders[o].type
      c == orders[o].code
  IN  /\ Len(regs) < MaxRegs
      /\ Goto(h, "complete_commit", "complete_notify",
              [NoRequest EXCEPT !.reg = Len(regs) + 1])
      /\ sold' = [sold EXCEPT ![t] = loc[h].sold + 1]
      /\ uses' = IF c = None THEN uses ELSE [uses EXCEPT ![c] = loc[h].uses + 1]
      /\ orders' = [orders EXCEPT ![o] = Completed(@)]
      /\ regs' = Append(regs, [order |-> o, status |-> "confirmed"])
      /\ UNCHANGED <<outbox, world>>

\* notify_registration_complete commits the outbox rows in a transaction of its
\* own; an exception there is swallowed (Fail).
CompleteNotify(h) ==
  /\ Finish(h, "complete_notify")
  /\ outbox' = outbox \cup {loc[h].reg}
  /\ UNCHANGED <<sold, uses, orders, regs, world>>

complete_order(h) ==
  \/ \E o \in DOMAIN orders : CompleteBegin(h, o)
  \/ CompleteReadType(h)
  \/ CompleteReadCode(h)
  \/ CompleteCommit(h)
  \/ CompleteNotify(h)

-----------------------------------------------------------------------------
(* POST /registrations/{id}/cancel and DELETE .../attendees/{id}:          *)
(* cancel_registration                                                     *)

CancelBegin(h, r) ==
  /\ regs[r].status = "confirmed"
  /\ Goto(h, "idle", "cancel_type", [NoRequest EXCEPT !.reg = r])
  /\ UNCHANGED <<tables, world>>

CancelReadType(h) ==
  /\ Goto(h, "cancel_type", "cancel_commit",
          [loc[h] EXCEPT !.sold = sold[orders[regs[loc[h].reg].order].type]])
  /\ UNCHANGED <<tables, world>>

\* Mutant: quantity_sold is not given back.
CancelCommit_KeepsSeat(h) ==
  /\ Finish(h, "cancel_commit")
  /\ regs' = [regs EXCEPT ![loc[h].reg] = [@ EXCEPT !.status = "cancelled"]]
  /\ UNCHANGED <<sold, uses, orders, outbox, world>>

\* max(0, quantity_sold - 1): a counter read as 0 is unchanged and not written.
\* The order stays COMPLETED and the discount use is not given back.
CancelCommit(h) ==
  LET r == loc[h].reg
      t == orders[regs[r].order].type
  IN  /\ Finish(h, "cancel_commit")
      /\ regs' = [regs EXCEPT ![r] = [@ EXCEPT !.status = "cancelled"]]
      /\ sold' = [sold EXCEPT ![t] = IF loc[h].sold = 0 THEN @ ELSE loc[h].sold - 1]
      /\ UNCHANGED <<uses, orders, outbox, world>>

cancel_registration(h) ==
  \/ \E r \in DOMAIN regs : CancelBegin(h, r)
  \/ CancelReadType(h)
  \/ CancelCommit(h)

-----------------------------------------------------------------------------
(* POST /organizer/events/{id}/checkin: check_in_registration *)

\* Mutant: the ticket of a cancelled registration is accepted.
CheckInBegin_Cancelled(h, r) ==
  /\ regs[r].status # "checked_in"
  /\ Goto(h, "idle", "checkin_commit", [NoRequest EXCEPT !.reg = r])
  /\ UNCHANGED <<tables, world>>

CheckInBegin(h, r) ==
  /\ regs[r].status = "confirmed"
  /\ Goto(h, "idle", "checkin_commit", [NoRequest EXCEPT !.reg = r])
  /\ UNCHANGED <<tables, world>>

CheckInCommit(h) ==
  /\ Finish(h, "checkin_commit")
  /\ regs' = [regs EXCEPT ![loc[h].reg] = [@ EXCEPT !.status = "checked_in"]]
  /\ UNCHANGED <<sold, uses, orders, outbox, world>>

check_in_registration(h) ==
  \/ \E r \in DOMAIN regs : CheckInBegin(h, r)
  \/ CheckInCommit(h)

-----------------------------------------------------------------------------

\* A later check fails, the database is locked, ticket_code collides, an
\* exception is raised or the process dies: what is not committed is lost.
Fail(h) ==
  /\ pc[h] # "idle"
  /\ Finish(h, pc[h])
  /\ UNCHANGED <<tables, world>>

\* publish_event and cancel_event, as far as orders see them.  Their own guards
\* are read before their commit, so any status may follow any other.
EventStatusChanges(e) ==
  /\ \E s \in {"published", "cancelled"} :
        eventStatus[e] # s /\ eventStatus' = [eventStatus EXCEPT ![e] = s]
  /\ UNCHANGED <<tables, clock, pc, loc>>

\* Time passes: early bird windows close, codes enter or leave their dates.
Tick ==
  /\ clock < MaxClock
  /\ clock' = clock + 1
  /\ UNCHANGED <<tables, eventStatus, pc, loc>>

HandlerStep(h) ==
  \/ create_order(h)
  \/ complete_order(h)
  \/ cancel_registration(h)
  \/ check_in_registration(h)
  \/ Fail(h)

Next ==
  \/ \E h \in Handlers : HandlerStep(h)
  \/ \E e \in Events : EventStatusChanges(e)
  \/ Tick

Spec == Init /\ [][Next]_vars

-----------------------------------------------------------------------------
(* Properties of any number of concurrent handlers *)

\* Registrations that still occupy a ticket of type t.
Live(t) ==
  {r \in DOMAIN regs : /\ orders[regs[r].order].type = t
                       /\ regs[r].status \in {"confirmed", "checked_in"}}

\* Registrations issued on orders that redeemed code c.
Redeemed(c) == {r \in DOMAIN regs : orders[regs[r].order].code = c}

\* Completions and cancellations overwrite quantity_sold with values computed from
\* stale reads (complete_order, cancel_registration), yet the stored counter never
\* exceeds quantity_total.
SoldWithinQuantity ==
  \A t \in TicketTypes : QuantityTotal[t] # NoLimit => sold[t] <= QuantityTotal[t]

\* complete_order commits the order, its payment and its registration together: an
\* order is COMPLETED exactly when it has a registration, and a COMPLETED order has
\* no payment outstanding, whatever fails or interleaves.
CompletedIffRegistered ==
  \A o \in DOMAIN orders :
    /\ orders[o].status = "completed" <=> \E r \in DOMAIN regs : regs[r].order = o
    /\ orders[o].status = "completed" => orders[o].payment # "pending"

\* uses_count of a discount code may lose increments to a race of two completions
\* but never counts a use that no registration stands for.
UsesNeverOverstated == \A c \in Codes : uses[c] <= Cardinality(Redeemed(c))

\* The ticket is announced only after the transaction that issues it: every outbox
\* entry is for a committed registration of an order with no payment outstanding.
NotifiedAfterCommit ==
  \A r \in outbox :
    r \in DOMAIN regs /\ orders[regs[r].order].payment # "pending"

\* What one step may do to the rows that exist before it.
RowsMoveForward ==
  /\ \A o \in DOMAIN orders :
       /\ o \in DOMAIN orders'
       /\ \A f \in {"type", "session", "code"} : orders'[o][f] = orders[o][f]
       /\ orders[o].status = "completed" => orders'[o] = orders[o]
  /\ \A r \in DOMAIN regs :
       /\ r \in DOMAIN regs'
       /\ regs'[r].order = regs[r].order
       /\ regs[r].status # "confirmed" => regs'[r].status # "confirmed"

\* No request of any kind moves a row back: a COMPLETED order stays as it is, a
\* registration that was cancelled or checked in is never CONFIRMED again, and
\* neither table ever loses or re-targets a row.
RowsOnlyMoveForward == [][RowsMoveForward]_vars

-----------------------------------------------------------------------------
(* What makes the properties above inductive: what a handler holds in memory *)
(* was true of the tables when it was read, and still bounds them.           *)

\* A handler at p that holds l holds only keys of rows that exist.
HeldKeys(p, l) ==
  /\ p \in {"create_event", "create_capacity", "create_discount", "create_insert"}
       => l.type \in TicketTypes /\ l.session \in Sessions
  /\ p \in {"complete_type", "complete_code", "complete_commit"}
       => l.order \in DOMAIN orders
  /\ p \in {"complete_notify", "cancel_type", "cancel_commit", "checkin_commit"}
       => l.reg \in DOMAIN regs

\* A quantity_sold held for a completion is below the total, one held for a
\* cancellation is at most the total.
HeldSold(p, l) ==
  /\ p \in {"complete_code", "complete_commit"}
       => HasRoom(l.sold, QuantityTotal[orders[l.order].type])
  /\ p = "cancel_commit"
       => LET t == orders[regs[l.reg].order].type
          IN  QuantityTotal[t] # NoLimit => l.sold <= QuantityTotal[t]

\* A uses_count held for a completion counts registrations that exist.
HeldUses(p, l) ==
  p = "complete_commit" =>
    LET c == orders[l.order].code IN c # None => l.uses <= Cardinality(Redeemed(c))

OrdersResolve == \A r \in DOMAIN regs : regs[r].order \in DOMAIN orders

HeldOK == \A h \in Handlers : /\ HeldKeys(pc[h], loc[h])
                              /\ HeldSold(pc[h], loc[h])
                              /\ HeldUses(pc[h], loc[h])

-----------------------------------------------------------------------------
(* Properties of one handler at a time *)

\* quantity_sold is the number of live registrations of the ticket type, and
\* uses_count the number of registrations that redeemed the code.
CountersExact ==
  /\ \A t \in TicketTypes : sold[t] = Cardinality(Live(t))
  /\ \A c \in Codes : uses[c] = Cardinality(Redeemed(c))

\* The rows map to themselves; the counters sold and uses, the clock, the event's
\* status and the handlers' memory are what the abstract specification hides.
Sale == INSTANCE TicketSale WITH orders <- orders, regs <- regs

\* With one handler, every create, complete, cancel and check-in takes effect at
\* its commit as if it had checked and written at that one instant, although it
\* reads earlier and may fail at any point: OrderService implements TicketSale.
ImplementsTicketSale == Sale!Spec

\* A session with a capacity never has more CONFIRMED registrations than that.
SessionCapacityRespected ==
  \A s \in Sessions :
    Capacity[s] # NoLimit => _confirmed_registration_count(s) <= Capacity[s]

-----------------------------------------------------------------------------
(* What makes CountersExact and the refinement inductive: while requests do  *)
(* not overlap, what a handler read is still so when it commits.             *)

\* At most one request is being handled.
Serial == \A g, h \in Handlers : (pc[g] # "idle" /\ pc[h] # "idle") => g = h

FreshCreate(p, l) ==
  /\ p \in {"create_event", "create_capacity", "create_discount", "create_insert"} =>
       /\ EventOfSession[l.session] = EventOfType[l.type]
       /\ HasRoom(sold[l.type], QuantityTotal[l.type])
       /\ p # "create_insert" => l.code = None
  /\ p \in {"create_discount", "create_insert"} =>
       HasRoom(_confirmed_registration_count(l.session), Capacity[l.session])
  /\ p = "create_insert" => (l.code # None => HasRoom(uses[l.code], MaxUses[l.code]))

FreshComplete(p, l) ==
  /\ p \in {"complete_type", "complete_code", "complete_commit"} =>
       orders[l.order].status = "pending"
  /\ p \in {"complete_code", "complete_commit"} => l.sold = sold[orders[l.order].type]
  /\ p = "complete_commit" =>
       LET c == orders[l.order].code IN c # None => l.uses = uses[c]

FreshLeave(p, l) ==
  /\ p \in {"cancel_type", "cancel_commit", "checkin_commit"} =>
       regs[l.reg].status = "confirmed"
  /\ p = "cancel_commit" => l.sold = sold[orders[regs[l.reg].order].type]

FreshOK == \A h \in Handlers : /\ FreshCreate(pc[h], loc[h])
                               /\ FreshComplete(pc[h], loc[h])
                               /\ FreshLeave(pc[h], loc[h])

\* What a pending order still has to pay depends on its ticket type only.
PaymentsDue ==
  \A o \in DOMAIN orders :
    orders[o].status = "pending" =>
      orders[o].payment = IF orders[o].type \in FreeTypes THEN "not_required" ELSE "pending"

SerialInv == CountersExact /\ FreshOK /\ PaymentsDue
=============================================================================
