----------------------------- MODULE SalesSystem -----------------------------
(***************************************************************************)
(* A sale on FunPay, the event callbacks of services/funpay_lifecycle.py,  *)
(* the registry and the confirmation message together.  FunPay pays out,   *)
(* refunds, rotates the chat and sends events that come late, twice, in    *)
(* another order or not at all.  What a paid Order gives the buyer, and    *)
(* the logout a refund needs, are the subject of RentalSystem.             *)
(***************************************************************************)
EXTENDS SaleRegistry

VARIABLES
  inbox,      \* events of the sale that the listener has not handled
  handler     \* the callback in flight for each kind of event

eventVars == <<inbox, handler>>
vars == <<order, sale, faults, noticeVars, registryVars, eventVars>>

Kinds == {"new", "closed", "refunded", "message"}
\* the callbacks that read before they write: the order page before on_new_sale's
\* transaction, the sales before the orders of a buyer's new chat
Slow == {"new", "message"}
Handling == [known : BOOLEAN, status : SaleStatus, chat : Nodes]

RegistryRest == <<funpayVars, backfill, backoff, booted, candidate, sync>>

-----------------------------------------------------------------------------
(* FunPay *)

Becomes(status) ==
    /\ Rank(status) > Rank(remote)
    /\ remote' = status
    /\ inbox' = inbox \cup {IF status = "completed" THEN "closed" ELSE "refunded"}
    /\ UNCHANGED <<order, sale, faults, node, ours, buried, backfill, backoff, booted, candidate,
                   sync, handler>> /\ UNCHANGED noticeVars

\* the buyer's chat gets another node, and a message arrives there
Rotates(n) ==
    /\ n # node /\ "message" \notin inbox /\ faults < MaxFaults
    /\ faults' = faults + 1
    /\ node' = n /\ inbox' = inbox \cup {"message"}
    /\ UNCHANGED <<order, sale, remote, ours, buried, backfill, backoff, booted, candidate,
                   sync, handler>> /\ UNCHANGED noticeVars

\* other sales push this one off the head page
Buries ==
    /\ ~buried /\ faults < MaxFaults /\ faults' = faults + 1
    /\ buried' = TRUE
    /\ UNCHANGED <<order, sale, remote, node, ours, backfill, backoff, booted, candidate,
                   sync, inbox, handler>> /\ UNCHANGED noticeVars

-----------------------------------------------------------------------------
(* The callbacks.  Nothing makes them happen: an event that is never taken, or a  *)
(* callback that never ends, is one that was lost, rolled back or cut off.        *)

\* again: the event will come once more (a second listener, a reconnect)
Taken(k, again) ==
    /\ k \in inbox
    /\ again => faults < MaxFaults
    /\ faults' = IF again THEN faults + 1 ELSE faults
    /\ inbox' = IF again THEN inbox ELSE inbox \ {k}

Begins(k, again) ==
    /\ handler[k] = Nothing /\ Taken(k, again)
    /\ handler' = [handler EXCEPT ![k] =
         IF k = "new" THEN [known |-> TRUE, status |-> remote, chat |-> node]
         ELSE [known |-> Known, status |-> "paid", chat |-> node]]
    /\ UNCHANGED <<order, sale, RegistryRest>> /\ UNCHANGED noticeVars

Done(k) == handler' = [handler EXCEPT ![k] = Nothing]
Ends(k) == Done(k) /\ UNCHANGED <<RegistryRest, faults, inbox>> /\ UNCHANGED noticeVars

\* Faulty variant: a late close reopens a refunded sale.
ClosedAnyway(o) == "completed"
\* process_sale_closed_transition
Closed(o) == IF o.status \in Refunding THEN o.status ELSE "completed"
WithClose(o, s) ==
    LET closed == [o EXCEPT !.status = Closed(o)]
    IN IF closed.status = "completed" THEN MarkedDue(closed, s, o.conf = "idle") ELSE {closed}
\* process_sale_refunded, up to the logout of a rental that still runs
WithRefund(o) ==
    IF o.status = "refunded" THEN {o}
    ELSE {[o EXCEPT !.status = st] : st \in Refunding}
Ended(o, s, status) ==
    CASE status = "refunded" -> WithRefund(o)
      [] status = "completed" -> WithClose(o, s)
      [] OTHER -> {o}

\* on_new_sale.  A sync that has inserted the Order wins: the insert waits for
\* it and fails, or the Order is found.
NewSale ==
    LET h == handler["new"]
    IN /\ h # Nothing /\ ~Inserting /\ OrderFree
       /\ ours /\ (order # Nothing => Known /\ order.chat = h.chat)
       /\ LET o == IF order = Nothing THEN NewOrder(Initial(h.status), h.chat) ELSE order
              s == [status |-> IF sale = Nothing THEN h.status ELSE Merged(sale.status, h.status),
                    chat |-> h.chat]
          IN sale' = s /\ order' \in Ended(o, s, h.status)
       /\ Ends("new")
\* LotNotFoundError, InvalidSaleProvenanceError
NewSaleRefused ==
    /\ handler["new"] # Nothing
    /\ ~ours \/ (order # Nothing /\ ~(Known /\ order.chat = handler["new"].chat))
    /\ Ends("new") /\ UNCHANGED <<order, sale>>

\* on_sale_closed, on_sale_refunded: update_status finds the sale or the event is
\* ignored; the Order is locked and read again
OnEvent(k, again) ==
    /\ Taken(k, again) /\ UNCHANGED handler
    /\ UNCHANGED RegistryRest /\ UNCHANGED noticeVars
SaleIgnored(k, again) == OnEvent(k, again) /\ ~Known /\ UNCHANGED <<order, sale>>
SaleEnds(k, status, again) ==
    /\ OnEvent(k, again) /\ Known /\ OrderFree
    /\ sale' = [sale EXCEPT !.status = Merged(@, status)]
    /\ order' \in Ended(order, sale, status)

\* _rebind_buyer_chat, entitled by an older sale of the buyer: it moves the sales
\* it saw, and the orders it sees afterwards
Rebinds ==
    LET h == handler["message"]
    IN /\ h # Nothing /\ OrderFree
       /\ sale' = IF h.known /\ sale # Nothing THEN [sale EXCEPT !.chat = h.chat] ELSE sale
       /\ order' = IF order = Nothing THEN Nothing ELSE [order EXCEPT !.chat = h.chat]
       /\ Ends("message")

\* _task_refund_revoke and what it hands to RentalSystem
RefundSweeps ==
    /\ order # Nothing /\ order.status = "refund_pending" /\ Known /\ OrderFree
    /\ order' = [order EXCEPT !.status = "refunded"]
    /\ UNCHANGED <<sale, faults, RegistryRest>> /\ UNCHANGED noticeVars /\ UNCHANGED eventVars

\* A new process: what was in flight is gone.
Restart ==
    /\ faults < MaxFaults /\ faults' = faults + 1
    /\ booted' = FALSE /\ sync' = NoSync
    /\ call' = [c \in Calls |-> "idle"] /\ handler' = [k \in Slow |-> Nothing]
    /\ UNCHANGED <<order, sale, told, unknown, funpayVars, backfill, backoff, candidate, inbox>>

-----------------------------------------------------------------------------
Init ==
    /\ order = Nothing /\ sale = Nothing /\ call = [c \in Calls |-> "idle"]
    /\ told = 0 /\ unknown = 0 /\ faults = 0
    /\ remote = "paid" /\ node = CHOOSE n \in Nodes : TRUE
    /\ ours \in BOOLEAN /\ buried = FALSE
    /\ backfill = "open" /\ backoff = FALSE /\ booted \in BOOLEAN
    /\ candidate = Nothing /\ sync = NoSync
    /\ inbox = {"new"} /\ handler = [k \in Slow |-> Nothing]

RegistryStep ==
    \/ SyncGoesOn \/ SyncAborts \/ BackoffEnds \/ CandidateDue
    \/ SyncCommits(TRUE)
    \/ \E exact, history \in BOOLEAN : SyncFetches(exact, history)
    \/ \E global \in BOOLEAN : PageFails(global)

CallbackEnds == NewSale \/ NewSaleRefused \/ Rebinds
Next ==
    \/ NotificationsNext /\ UNCHANGED registryVars /\ UNCHANGED eventVars
    \/ RegistryStep /\ UNCHANGED eventVars
    \/ Becomes("completed") \/ Becomes("refunded") \/ Buries
    \/ \E n \in Nodes : Rotates(n)
    \/ Begins("new", FALSE) \/ Begins("new", TRUE) \/ Begins("message", FALSE)
    \/ \E again \in BOOLEAN :
         \/ \E k \in {"closed", "refunded"} : SaleIgnored(k, again)
         \/ SaleEnds("closed", "completed", again) \/ SaleEnds("refunded", "refunded", again)
    \/ CallbackEnds \/ RefundSweeps \/ Restart

Spec == Init /\ [][Next]_vars

\* The scheduler runs the periodic sync, the sweep of due confirmations and the
\* refund sweep again and again, and back-offs end.  Nothing is assumed of
\* FunPay's events or of the callbacks: all of them may be lost.  (Strong fairness:
\* that time passes between two syncs only is a simplification of the model.)
TimePasses ==
    \/ NoticeDue /\ UNCHANGED registryVars
    \/ BackoffEnds \/ CandidateDue
Fairness ==
    /\ WF_vars((SyncFetches(FALSE, TRUE) \/ SyncGoesOn) /\ UNCHANGED eventVars)
    /\ WF_vars((\E c \in Calls : SweepGoesOn(c)) /\ UNCHANGED registryVars /\ UNCHANGED eventVars)
    /\ WF_vars(RefundSweeps)
    /\ SF_vars(TimePasses /\ UNCHANGED eventVars)

FairSpec == Spec /\ Fairness

-----------------------------------------------------------------------------
(* Types: rows, calls, candidate and sync keep their shape, attempts stay in *)
(* their budgets, and an Order and its sale are written together.            *)
SalesTypeOK ==
    /\ order \in OrderRow \cup {Nothing} /\ sale \in SaleRow \cup {Nothing}
    /\ call \in [Calls -> {"idle", "sending", "failed", "failed_globally"}]
    /\ told \in 0..2 /\ unknown \in 0..MaxFaults /\ faults \in 0..MaxFaults
    /\ remote \in SaleStatus /\ node \in Nodes /\ ours \in BOOLEAN /\ buried \in BOOLEAN
    /\ backfill \in {"open", "done"} /\ {backoff, booted} \subseteq BOOLEAN
    /\ candidate \in Candidate \cup {Nothing} /\ sync \in Sync
    /\ inbox \subseteq Kinds /\ handler \in [Slow -> Handling \cup {Nothing}]
    /\ order = Nothing <=> sale = Nothing

\* notify_confirmed: duplicate callbacks, the sweep and a second process send the
\* confirmation once; more only where an answer was lost after the message.
ToldOnce == told <= 1 + unknown

\* A confirmation goes out only while the order is completed: a refund recorded
\* before the send prevents it, and none is recorded during the send.
ToldWhileCompleted == [][told' # told => order.status = "completed"]_vars

\* No callback, in whatever order and however late, takes a refund back; only a
\* sync does that read the row while it was still pending.
RefundSticks ==
    [][order # Nothing /\ order'.status # order.status /\ order.status \in Refunding
         => \/ order'.status \in Refunding
            \/ sync.order # Nothing /\ sync.order.status = "pending"]_vars

\* A sync does not see the sale again: it is past the head page of a seller whose
\* history was read.
OutOfSight == buried /\ backfill = "done"
\* The sale has lost its Order to a rotated chat and the process was started since:
\* no sync gets past its bootstrap.
Stuck == ~Bootstraps
GaveUp == IF candidate = Nothing THEN FALSE ELSE candidate.state # "pending"
Status == IF order = Nothing THEN "none" ELSE order.status

\* A sale whose event was lost becomes an Order all the same: from the head page,
\* from the history or from the candidate kept of it.
MissedIsRecovered ==
    ours ~> order # Nothing \/ GaveUp \/ (OutOfSight /\ candidate = Nothing)

\* A refund is acted upon even if its event is lost, comes while the sale is not
\* found, or is overwritten by a sync that had read the row before.
RefundIsHeard ==
    ours /\ remote = "refunded" ~> Status = "refunded" \/ GaveUp \/ OutOfSight \/ Stuck

\* The buyer of a completed order is told, or the operator takes over; unless it
\* is refunded, or the sale and the order disagree and no sync sees or reaches them.
Answered == IF order = Nothing THEN FALSE ELSE order.sent \/ order.conf = "manual"
ConfirmationSettles ==
    Status = "completed" ~> Answered \/ Status # "completed" \/ OutOfSight \/ Stuck
=============================================================================
