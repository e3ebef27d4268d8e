---------------------------- MODULE MCOrderService ----------------------------
(***************************************************************************)
(* Instances of OrderService for TLC: one published event with two ticket  *)
(* types that share a session, and a second event whose session must never *)
(* be mixed with them.                                                     *)
(***************************************************************************)
EXTENDS OrderService, TLC

CONSTANTS paid, free,      \* ticket types of the event
          room, elsewhere, \* a session of the event, a session of another one
          e1, e2,
          own, site,       \* the event's code and the platform's code
          TEN              \* the string both codes are spelled with

MCEventOfType == [t \in TicketTypes |-> e1]
MCEventOfSession == [s \in Sessions |-> IF s = room THEN e1 ELSE e2]
MCQuantityTotal == [t \in TicketTypes |-> IF t = paid THEN 1 ELSE NoLimit]
MCCapacity == [s \in Sessions |-> IF s = room THEN 1 ELSE NoLimit]
MCMaxUses == [c \in Codes |-> IF c = own THEN 1 ELSE NoLimit]
MCUsableAt == [c \in Codes |-> IF c = own THEN {0} ELSE {1}]
MCEventCode == [e \in Events |-> [s \in CodeStrings |-> IF e = e1 THEN own ELSE None]]
MCPlatformCode == [s \in CodeStrings |-> site]
MCFreeTypes == {free} \cap TicketTypes
MCEarlyBirdTypes == {free} \cap TicketTypes
MCEarlyBirdEnds == [e \in Events |-> 1]

\* Handlers are interchangeable: no property tells them apart and none is a
\* liveness property.
Interchangeable == Permutations(Handlers)
=============================================================================
