------------------------------ MODULE TicketSale ------------------------------
(***************************************************************************)
(* What ticket sales promise when each operation happens at once: orders   *)
(* and registrations only, with the counters of the database replaced by   *)
(* what they are meant to count.  OrderService with one handler implements *)
(* it.  The event's status and the clock are not part of the promise: a    *)
(* request may act on a status that has just changed.                      *)
(***************************************************************************)
EXTENDS Integers, Sequences, FiniteSets

CONSTANTS TicketTypes, Sessions, Codes, NoLimit, None, FreeTypes,
          EventOfType, EventOfSession, QuantityTotal, Capacity, MaxUses

VARIABLES orders, regs

sale == <<orders, regs>>

Below(S, limit) == limit # NoLimit => Cardinality(S) < limit

Occupying(t) ==
  {r \in DOMAIN regs : /\ orders[regs[r].order].type = t
                       /\ regs[r].status # "cancelled"}
Expected(s) ==
  {r \in DOMAIN regs : orders[regs[r].order].session = s /\ regs[r].status = "confirmed"}
UsedBy(c) == {r \in DOMAIN regs : orders[regs[r].order].code = c}

Init == orders = << >> /\ regs = << >>

\* An order is accepted while tickets, seats and uses of its code are left.
Place(t, s, c) ==
  /\ EventOfSession[s] = EventOfType[t]
  /\ Below(Occupying(t), QuantityTotal[t])
  /\ Below(Expected(s), Capacity[s])
  /\ c # None => Below(UsedBy(c), MaxUses[c])
  /\ orders' = Append(orders,
       [status |-> "pending", payment |-> IF t \in FreeTypes THEN "not_required" ELSE "pending",
        type |-> t, session |-> s, code |-> c])
  /\ UNCHANGED regs

\* A pending order turns into one registration while tickets are left.
Complete(o) ==
  /\ orders[o].status = "pending"
  /\ Below(Occupying(orders[o].type), QuantityTotal[orders[o].type])
  /\ orders' = [orders EXCEPT
       ![o].status = "completed",
       ![o].payment = IF orders[o].type \in FreeTypes THEN "not_required" ELSE "simulated_paid"]
  /\ regs' = Append(regs, [order |-> o, status |-> "confirmed"])

Leave(r, status) ==
  /\ regs[r].status = "confirmed"
  /\ regs' = [regs EXCEPT ![r].status = status]
  /\ UNCHANGED orders

Next ==
  \/ \E t \in TicketTypes, s \in Sessions, c \in Codes \cup {None} : Place(t, s, c)
  \/ \E o \in DOMAIN orders : Complete(o)
  \/ \E r \in DOMAIN regs : Leave(r, "cancelled")
  \/ \E r \in DOMAIN regs : Leave(r, "checked_in")

Spec == Init /\ [][Next]_sale
=============================================================================
