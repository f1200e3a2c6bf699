--------------------------- MODULE ConnLifecycle ---------------------------
(***************************************************************************)
(* What the server promises of its connections, without sockets, buffers   *)
(* or handlers.  Each slot is a place a session object may live in.  While *)
(* the server runs, one object always waits for the next connection; a     *)
(* connection is served until the server drops it; a dropped one may       *)
(* linger, never comes back to service, and is freed in the end.           *)
(***************************************************************************)
EXTENDS FiniteSets

CONSTANT Slot

VARIABLES
    slot,     \* [Slot -> SlotState]
    running   \* the server has not stopped

lvars == <<slot, running>>

SlotState == {"free", "accepting", "serving", "closing"}

LifecycleTypeOK == slot \in [Slot -> SlotState] /\ running \in BOOLEAN

LifecycleInit ==
    /\ running = TRUE
    /\ \E s \in Slot : slot = [t \in Slot |-> IF t = s THEN "accepting" ELSE "free"]

(* The waiting object takes a connection, or gives up, and another object  *)
(* starts waiting in the same step.                                        *)
Accept(s, t) ==
    /\ running = TRUE
    /\ slot[s] = "accepting" /\ slot[t] = "free"
    /\ \E taken \in {"serving", "free"} :
         slot' = [slot EXCEPT ![s] = taken, ![t] = "accepting"]
    /\ UNCHANGED running

Drop(s) ==
    /\ running = TRUE
    /\ slot[s] = "serving"
    /\ \E left \in {"closing", "free"} : slot' = [slot EXCEPT ![s] = left]
    /\ UNCHANGED running

Free(s) ==
    /\ running = TRUE
    /\ slot[s] = "closing"
    /\ slot' = [slot EXCEPT ![s] = "free"]
    /\ UNCHANGED running

Stop == running = TRUE /\ running' = FALSE /\ UNCHANGED slot

LifecycleNext ==
    \/ \E s \in Slot : Drop(s) \/ Free(s) \/ \E t \in Slot : Accept(s, t)
    \/ Stop

LifecycleSpec == LifecycleInit /\ [][LifecycleNext]_lvars
=============================================================================
