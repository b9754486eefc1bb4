------------------------- MODULE OrderNotifications -------------------------
(***************************************************************************)
(* The confirmation message of a sale: services/order_notifications.py and *)
(* the sweep that retries it.  One sale of the bot, with its Order and its *)
(* FunPaySale; what both prove about each other is order_provenance.py.    *)
(*                                                                         *)
(* A call that holds the Order row across its send is in "sending"; it     *)
(* gives the lock up before it records a failure.                          *)
(***************************************************************************)
EXTENDS Naturals

CONSTANTS Calls,         \* calls of notify_confirmed: sweep, callbacks, processes
          Nodes,         \* chat nodes of the buyer
          Nothing,
          MaxAttempts,   \* ORDER_NOTIFICATION_MAX_ATTEMPTS, _RECOVERY_MAX_ATTEMPTS
          MaxFaults      \* bound: failures outside the code, events that come again,
                         \* chats that rotate, sales that leave the head page

ASSUME SalesAssumption == MaxAttempts \in Nat \ {0} /\ MaxFaults \in Nat /\ Nodes # {}

VARIABLES
  order,      \* Order, with its two audit markers
  sale,       \* FunPaySale
  call,       \* where each call of notify_confirmed is
  told,       \* confirmations that reached the chat, at most 2 counted
  unknown,    \* sends that reached the chat and were not recorded
  faults

noticeVars == <<call, told, unknown>>

Refunding == {"refund_pending", "refunded"}
OrderRow == [status : {"pending", "completed"} \cup Refunding,
             chat : Nodes,
             due : BOOLEAN, sent : BOOLEAN,       \* audit markers
             conf : {"idle", "pending", "failed", "manual", "sent"},
             attempts : 0..MaxAttempts, wait : BOOLEAN]
SaleStatus == {"paid", "completed", "refunded"}
SaleRow == [status : SaleStatus, chat : Nodes]

ASSUME NothingAssumption == Nothing \notin OrderRow \cup SaleRow

NewOrder(status, chat) ==
    [status |-> status, chat |-> chat, due |-> FALSE, sent |-> FALSE,
     conf |-> "idle", attempts |-> 0, wait |-> FALSE]

\* managed_sale_order_exists and is_verified_bot_sale_order: the pair agrees on
\* the buyer's chat (order and lot match by construction of the Order)
Verified(o, s) == o # Nothing /\ s # Nothing /\ o.chat = s.chat

\* Faulty variants: the sent marker is not looked at; the row is not locked.
ForgetsSent(o) == TRUE
AssumesFree == TRUE

Settled(o) == [o EXCEPT !.conf = "sent", !.wait = FALSE]

\* mark_confirmed_due on a completed Order, for a session that remembers whether
\* conf was idle.  With both markers present the query returns either of them.
MarkedDue(o, s, idle) ==
    IF ~Verified(o, s) THEN {o}
    ELSE (IF o.sent THEN {Settled(o)} ELSE {})
         \cup (IF o.due THEN {IF idle THEN [o EXCEPT !.conf = "pending"] ELSE o}
               ELSE {[o EXCEPT !.due = TRUE, !.conf = "pending",
                               !.attempts = 0, !.wait = FALSE]})

\* the Order row is not held across a send
OrderFree == \A c \in Calls : call[c] # "sending"

\* what notify_confirmed finds under the lock
Open(o) == o # Nothing /\ o.status = "completed" /\ Verified(o, sale)
Unsent(o) == ~o.sent
Due(o) == o.due /\ Unsent(o) /\ o.conf \notin {"manual", "sent"} /\ ~o.wait

\* intent first, in a transaction of its own
NotifyIntends(c) ==
    /\ call[c] = "idle" /\ OrderFree /\ Open(order) /\ Unsent(order) /\ ~order.due
    /\ order' \in MarkedDue(order, sale, order.conf = "idle")
    /\ UNCHANGED <<sale, faults>> /\ UNCHANGED noticeVars

NotifySettles(c) ==
    /\ call[c] = "idle" /\ OrderFree /\ Open(order) /\ ~Unsent(order)
    /\ order # Settled(order) /\ order' = Settled(order)
    /\ UNCHANGED <<sale, faults>> /\ UNCHANGED noticeVars

NotifyLocks(c) ==
    /\ call[c] = "idle" /\ OrderFree /\ Open(order) /\ Due(order)
    /\ call' = [call EXCEPT ![c] = "sending"]
    /\ UNCHANGED <<order, sale, told, unknown, faults>>

Reaches == told' = IF told = 2 THEN 2 ELSE told + 1

NotifySends(c) ==
    /\ call[c] = "sending"
    /\ Reaches
    /\ order' = [Settled(order) EXCEPT !.sent = TRUE]
    /\ call' = [call EXCEPT ![c] = "idle"]
    /\ UNCHANGED <<sale, unknown, faults>>

\* the send fails or its answer is lost; the process may die with it
NotifyFails(c, reached, outcome) ==
    /\ call[c] = "sending" /\ faults < MaxFaults
    /\ faults' = faults + 1
    /\ IF reached THEN Reaches /\ unknown' = unknown + 1
       ELSE UNCHANGED <<told, unknown>>
    /\ call' = [call EXCEPT ![c] = outcome]
    /\ UNCHANGED <<order, sale>>

\* _record_failure, on the row as it is by now
Failed(o, global) ==
    IF o.attempts + 1 >= MaxAttempts /\ ~global
    THEN [o EXCEPT !.attempts = MaxAttempts, !.conf = "manual", !.wait = FALSE]
    ELSE [o EXCEPT !.attempts = IF @ = MaxAttempts THEN @ ELSE @ + 1,
                   !.conf = "failed", !.wait = TRUE]
NotifyRecords(c) ==
    /\ call[c] \in {"failed", "failed_globally"} /\ OrderFree
    /\ order' = IF ~Open(order) THEN order
                ELSE IF ~Unsent(order) THEN Settled(order)
                ELSE Failed(order, call[c] = "failed_globally")
    /\ call' = [call EXCEPT ![c] = "idle"]
    /\ UNCHANGED <<sale, told, unknown, faults>>

\* confirmation_delivery_next_attempt_at is reached
NoticeDue ==
    /\ order # Nothing /\ order.wait
    /\ order' = [order EXCEPT !.wait = FALSE]
    /\ UNCHANGED <<sale, faults>> /\ UNCHANGED noticeVars

\* _task_order_confirmed_notify takes the rows marked due, and ends what it began
SweepGoesOn(c) ==
    \/ NotifyLocks(c) /\ order.conf \in {"pending", "failed"}
    \/ NotifySends(c) \/ NotifyRecords(c)
\* the callbacks take any row
NotifyStep(c) ==
    NotifyIntends(c) \/ NotifySettles(c) \/ NotifyLocks(c) \/ NotifySends(c) \/ NotifyRecords(c)
NotificationsNext ==
    \/ \E c \in Calls : NotifyStep(c)
    \/ \E c \in Calls, reached \in BOOLEAN,
          outcome \in {"failed", "failed_globally", "idle"} : NotifyFails(c, reached, outcome)
    \/ NoticeDue
=============================================================================
