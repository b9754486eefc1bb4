---------------------------- MODULE CapacityLoop ----------------------------
(***************************************************************************)
(* How a capacity change reaches FunPay: the dirty flag, the task that     *)
(* drains it, and the transport both depend on (app_lifecycle.py).  The    *)
(* loop sleeps and yields only between passes, so its control is one of    *)
(* three places.                                                           *)
(***************************************************************************)
EXTENDS LotAutoManager

VARIABLES
    gateway,  \* a started transport is installed
    dirty,    \* _capacity_reconcile_dirty
    loop      \* "none", "top" of the while, "pass": waiting for or in one

loopVars == <<gateway, dirty, loop>>

LoopInit == gateway = FALSE /\ dirty = FALSE /\ loop = "none"

(* The task is created only while a transport is installed.                *)
Spawned(connected) == IF connected /\ loop = "none" THEN "top" ELSE loop

(* request_capacity_reconcile.                                             *)
Request ==
    /\ dirty' = TRUE
    /\ loop' = Spawned(gateway)
    /\ UNCHANGED gateway

(* The head of the loop: the flag is cleared before the pass it asks for;  *)
(* without a transport the loop ends and the flag stays.                   *)
LoopTop ==
    /\ loop = "top"
    /\ IF dirty /\ gateway
       THEN dirty' = FALSE /\ loop' = "pass"
       ELSE loop' = "none" /\ UNCHANGED dirty
    /\ UNCHANGED gateway

PassEndsClearing(ok) ==
    /\ dirty' = ~ok
    /\ loop' = IF gateway THEN "top" ELSE "none"
    /\ UNCHANGED gateway

(* What the loop makes of its pass: a failed one sets the flag again.      *)
PassEnds(ok) ==
    /\ dirty' = (dirty \/ ~ok)
    /\ loop' = IF gateway THEN "top" ELSE "none"
    /\ UNCHANGED gateway

ConnectedOnly ==
    /\ gateway' = TRUE
    /\ UNCHANGED <<dirty, loop>>

(* reconfigure_funpay installs the transport, then serves the change that  *)
(* could not be served without one.                                        *)
Connected ==
    /\ gateway' = TRUE
    /\ loop' = IF dirty THEN Spawned(TRUE) ELSE loop
    /\ UNCHANGED dirty

(* An empty key.                                                           *)
Disconnected ==
    /\ gateway' = FALSE
    /\ UNCHANGED <<dirty, loop>>

(* stop() and a new process: the flag lives in memory only.                *)
LoopForgets == gateway' = FALSE /\ dirty' = FALSE /\ loop' = "none"
=============================================================================
