--------------------------- MODULE CommandService ---------------------------
(***************************************************************************)
(* What the HTTP client promises its callers, without sockets, locks or    *)
(* retries.  A call ends in success or failure, or its caller goes away.   *)
(* A write takes effect at most once: before its call succeeds, or, when   *)
(* the call failed or was abandoned, possibly later still or not at all.   *)
(***************************************************************************)
EXTENDS Naturals

CONSTANTS Callers, Writes    \* the callers, and those that call a write

VARIABLES status, effects

serviceVars == <<status, effects>>

ServiceInit ==
    /\ status = [c \in Callers |-> "idle"]
    /\ effects = [c \in Callers |-> 0]

BeginCall(c) ==
    /\ status[c] = "idle"
    /\ status' = [status EXCEPT ![c] = "pending"]
    /\ UNCHANGED effects

TakeEffect(c) ==
    /\ c \in Writes
    /\ status[c] # "idle"
    /\ effects[c] = 0
    /\ effects' = [effects EXCEPT ![c] = 1]
    /\ UNCHANGED status

Succeed(c) ==
    /\ status[c] = "pending"
    /\ c \in Writes => effects[c] = 1
    /\ status' = [status EXCEPT ![c] = "ok"]
    /\ UNCHANGED effects

GiveUp(c) ==
    /\ status[c] = "pending"
    /\ \E outcome \in {"failed", "cancelled"} :
         status' = [status EXCEPT ![c] = outcome]
    /\ UNCHANGED effects

ServiceNext ==
    \E c \in Callers : BeginCall(c) \/ TakeEffect(c) \/ Succeed(c) \/ GiveUp(c)

ServiceSpec == ServiceInit /\ [][ServiceNext]_serviceVars
=============================================================================
