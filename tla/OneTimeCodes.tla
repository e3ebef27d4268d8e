----------------------------- MODULE OneTimeCodes -----------------------------
(***************************************************************************)
(* Codes and their rate limit as one specification, for model checking.    *)
(* Throttle of OtpService admits or refuses a request as it likes, which   *)
(* covers every verdict of OtpRateLimit, and neither part touches the      *)
(* state of the other: a behaviour moves one of them and the other rests.  *)
(***************************************************************************)
EXTENDS OtpService, OtpRateLimit

VARIABLE part  \* the part that moves

otpVars == <<part, vars, limitVars>>

OtpInit == part \in {"codes", "limit"} /\ Init /\ LimitInit

OtpNext ==
  /\ \/ part = "codes" /\ Next /\ UNCHANGED limitVars
     \/ part = "limit" /\ LimitNext /\ UNCHANGED vars
  /\ UNCHANGED part

OtpSpec == OtpInit /\ [][OtpNext]_otpVars /\ LimitFairness

\* The hourly window of a destination admits one request, the other windows two.
LimitValues == [r \in Rules |-> IF r = "hour" THEN 1 ELSE 2]
=============================================================================
