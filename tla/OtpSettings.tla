----------------------------- MODULE OtpSettings ------------------------------
(***************************************************************************)
(* What a request for a one-time code names, and the limits it meets: the  *)
(* constants that OtpService and OtpRateLimit share.                       *)
(***************************************************************************)
EXTENDS Naturals

CONSTANTS
  Handlers,  \* request handlers
  Dests,     \* phone numbers and e-mail addresses, normalised
  Ips,       \* client addresses
  None,      \* no destination, no address
  Limit      \* requests per window of the rules "hour", "day" and "ip"

Rules == {"hour", "day", "ip"}

ASSUME LimitAssumption ==
  /\ Limit \in [Rules -> Nat]
  /\ None \notin Dests \cup Ips
=============================================================================
