--------------------------- MODULE RentalService ---------------------------
(***************************************************************************)
(* services/rental_service.py: fulfilment of a paid order and the durable, *)
(* retried delivery of its credentials; and the operator's retry           *)
(* (app_lifecycle.retry_rental_delivery).  Each numbered lock section of   *)
(* _deliver_claimed is an action: between them the rows are free.          *)
(***************************************************************************)
EXTENDS RentalRows

\* fulfill_order is called by the sweep, which has just asked FunPay, or goes
\* on an operation that has (a new sale, an operator's retry)
MayFulfill(w, o) ==
    \/ task[w] = Idle /\ remote[o] # "refunded"
    \/ At(w, "fulfill") /\ task[w].ord = o

\* the sweep writes the order's status itself once it has seen COMPLETED
WillClose(w, o) == task[w] = Idle /\ remote[o] = "completed"

Delivering(w, o) ==
    Begin(w, [Step("deliver", o, NoAccount) EXCEPT !.ok = WillClose(w, o)])

\* the first call for the order: reserve an account, commit the allocation
FulfillNew(w, o, a) ==
    /\ MayFulfill(w, o)
    /\ Fulfillable(o) /\ rstatus[o] = "none"
    /\ Allocatable(o, a)
    /\ rstatus' = [rstatus EXCEPT ![o] = "active"]
    /\ racct' = [racct EXCEPT ![o] = a]
    /\ dstatus' = [dstatus EXCEPT ![o] = "sending"]
    /\ dwait' = [dwait EXCEPT ![o] = TRUE]
    /\ Delivering(w, o)
    /\ UNCHANGED <<saleVars, term, repl, template, attempts, leaseVars,
                   noticeVars, accountVars, faults, access>>

\* Faulty variant: a delivery left in "sending" by a crash is not resumed.
ClaimableFailed(o) ==
    /\ Fulfillable(o) /\ rstatus[o] = "active" /\ dstatus[o] = "failed"
    /\ attempts[o] < MaxAttempts /\ ~dwait[o]

\* _claim_existing_delivery
ClaimableDelivery(o) ==
    /\ Fulfillable(o) /\ rstatus[o] = "active"
    /\ dstatus[o] \notin {"sent", "manual"}
    /\ attempts[o] < MaxAttempts
    /\ ~dwait[o]

FulfillAgain(w, o) ==
    /\ MayFulfill(w, o)
    /\ ClaimableDelivery(o)
    /\ dstatus' = [dstatus EXCEPT ![o] = "sending"]
    /\ dwait' = [dwait EXCEPT ![o] = TRUE]
    /\ Delivering(w, o)
    /\ UNCHANGED <<saleVars, rentalVars, template, attempts, leaseVars,
                   noticeVars, accountVars, faults, access>>

\* nothing to do, or no account found (the pool skips rows others have locked)
FulfillNothing(w, o) ==
    /\ At(w, "fulfill") /\ task[w].ord = o
    /\ ~ClaimableDelivery(o)
    /\ Finish(w)
    /\ UNCHANGED <<saleVars, rentalVars, deliveryVars, leaseVars, noticeVars,
                   accountVars, faults, access>>

-----------------------------------------------------------------------------
(* _deliver_claimed                                                        *)

InDelivery(w) == task[w].at \in {"deliver", "moved", "boundary"}

\* the checks made each time Order and Rental are locked again
StillMine(w, o) ==
    /\ Fulfillable(o) /\ rstatus[o] = "active" /\ dstatus[o] = "sending"
    /\ At(w, "deliver") \/ racct[o] = task[w].acct
    /\ At(w, "boundary") => attempts[o] = task[w].n

\* _delivery_limits_if_eligible: after the first send the original deadline
\* counts and must be more than two minutes away; measurements may make
\* the account ineligible besides, at the cost of a fault
Eligible(o) ==
    /\ astatus[racct[o]] = "active"
    /\ InitialUnsent(o) \/ term[o] = "open"

DeliverRefused(w, o) ==
    /\ InDelivery(w) /\ task[w].ord = o
    /\ ~StillMine(w, o)
    /\ IF dstatus[o] = "sending"
       THEN /\ dstatus' = [dstatus EXCEPT ![o] = "failed"]
            /\ dwait' = [dwait EXCEPT ![o] = FALSE]
       ELSE UNCHANGED <<dstatus, dwait>>
    /\ Finish(w)
    /\ UNCHANGED <<saleVars, rentalVars, template, attempts, leaseVars,
                   noticeVars, accountVars, faults, access>>

\* _reallocate_initial_delivery: the account became unsafe before any send
Reallocate(w, o, b) ==
    /\ At(w, "deliver") /\ task[w].ord = o
    /\ StillMine(w, o) /\ InitialUnsent(o)
    /\ Allocatable(o, b)
    /\ FaultUnless(~Eligible(o))
    /\ racct' = [racct EXCEPT ![o] = b]
    /\ Begin(w, [task[w] EXCEPT !.at = "moved", !.acct = b])
    /\ UNCHANGED <<saleVars, rstatus, term, repl, deliveryVars, leaseVars,
                   noticeVars, accountVars, access>>

\* no eligible account: an operator has to resolve the delivery
DeliverManual(w, o) ==
    /\ InDelivery(w) /\ task[w].ord = o
    /\ StillMine(w, o)
    /\ FaultUnless(~Eligible(o))
    /\ dstatus' = [dstatus EXCEPT ![o] = "manual"]
    /\ dwait' = [dwait EXCEPT ![o] = FALSE]
    /\ Finish(w)
    /\ UNCHANGED <<saleVars, rentalVars, template, attempts, leaseVars,
                   noticeVars, accountVars, access>>

\* the attempt is committed before any secret leaves; the first one starts
\* the paid term
DeliverBoundary(w, o) ==
    /\ task[w].at \in {"deliver", "moved"} /\ task[w].ord = o
    /\ StillMine(w, o) /\ Eligible(o)
    /\ attempts' = [attempts EXCEPT ![o] = @ + 1]
    /\ dwait' = [dwait EXCEPT ![o] = TRUE]
    /\ term' = IF InitialUnsent(o) THEN [term EXCEPT ![o] = "open"] ELSE term
    /\ Begin(w, [task[w] EXCEPT !.at = "boundary", !.acct = racct[o],
                                !.n = attempts[o] + 1])
    /\ UNCHANGED <<saleVars, rstatus, racct, repl, dstatus, template,
                   leaseVars, noticeVars, accountVars, faults, access>>

ReadyToSend(w, o) ==
    /\ At(w, "boundary") /\ task[w].ord = o
    /\ StillMine(w, o) /\ Eligible(o)

Disclosed(o, a) == [access EXCEPT ![a] = @ \cup {o}]

\* FunPay confirmed the message
DeliverSent(w, o) ==
    /\ ReadyToSend(w, o)
    /\ access' = Disclosed(o, racct[o])
    /\ dstatus' = [dstatus EXCEPT ![o] = "sent"]
    /\ dwait' = [dwait EXCEPT ![o] = FALSE]
    /\ IF task[w].ok /\ ostatus[o] = "pending"
       THEN Begin(w, Step("closing", o, NoAccount))
       ELSE Finish(w)
    /\ UNCHANGED <<saleVars, rentalVars, template, attempts, leaseVars,
                   noticeVars, accountVars, faults>>

\* the send raised or timed out; FunPay may have accepted the message all
\* the same
DeliverFailed(w, o) ==
    /\ ReadyToSend(w, o)
    /\ FaultUnless(FALSE)
    /\ access' \in {access, Disclosed(o, racct[o])}
    /\ IF attempts[o] >= MaxAttempts
       THEN /\ dstatus' = [dstatus EXCEPT ![o] = "manual"]
            /\ dwait' = [dwait EXCEPT ![o] = FALSE]
       ELSE /\ dstatus' = [dstatus EXCEPT ![o] = "failed"]
            /\ dwait' = [dwait EXCEPT ![o] = TRUE]
    /\ Finish(w)
    /\ UNCHANGED <<saleVars, rentalVars, template, attempts, leaseVars,
                   noticeVars, accountVars>>

\* the process dies after FunPay accepted the message, before the commit
DeliverCrash(w, o) ==
    /\ ReadyToSend(w, o)
    /\ FaultUnless(FALSE)
    /\ access' = Disclosed(o, racct[o])
    /\ Finish(w)
    /\ UNCHANGED <<saleVars, rentalVars, deliveryVars, leaseVars, noticeVars,
                   accountVars>>

\* _task_pending_orders after a delivery: it read "pending" before the send,
\* has no lock any more, and writes "completed", over a refund as well
SweepClose(w, o) ==
    /\ At(w, "closing") /\ task[w].ord = o
    /\ ostatus' = [ostatus EXCEPT ![o] = "completed"]
    /\ overruled' = IF Refunding(o) /\ Occupies(o)
                    THEN overruled \cup {racct[o]} ELSE overruled
    /\ Finish(w)
    /\ UNCHANGED <<remote, rentalVars, deliveryVars, leaseVars, noticeVars,
                   astatus, job, faults, access>>

-----------------------------------------------------------------------------
\* retry_rental_delivery: the operator rearms a delivery, one attempt is left
\* of an exhausted budget, then fulfill_order runs
OperatorRetry(w, o) ==
    /\ task[w] = Idle /\ remote[o] # "refunded"
    /\ Fulfillable(o) /\ rstatus[o] = "active"
    /\ dstatus[o] # "sent"
    /\ dstatus[o] = "sending" => ~dwait[o]
    /\ dstatus' = [dstatus EXCEPT ![o] = "failed"]
    /\ attempts' = [attempts EXCEPT ![o] =
                      IF @ < MaxAttempts THEN @ ELSE MaxAttempts - 1]
    /\ dwait' = [dwait EXCEPT ![o] = FALSE]
    /\ Begin(w, Step("fulfill", o, NoAccount))
    /\ UNCHANGED <<saleVars, rentalVars, template, leaseVars, noticeVars,
                   accountVars, faults, access>>

\* CREDENTIAL_DELIVERY_LEASE or the backoff runs out.  An operation that
\* lives needs far less than the lease from its claim to its boundary.
DeliveryDue(o) ==
    /\ dwait[o]
    /\ \A w \in Workers :
         ~(task[w].at \in {"deliver", "moved"} /\ task[w].ord = o)
    /\ dwait' = [dwait EXCEPT ![o] = FALSE]
    /\ FaultUnless(~\E w \in Workers : At(w, "boundary") /\ task[w].ord = o)
    /\ UNCHANGED <<saleVars, rentalVars, dstatus, template, attempts,
                   leaseVars, noticeVars, accountVars, task, access>>

RentalServiceNext ==
    \/ \E w \in Workers, o \in Orders :
         \/ \E a \in Accounts : FulfillNew(w, o, a) \/ Reallocate(w, o, a)
         \/ FulfillAgain(w, o) \/ FulfillNothing(w, o)
         \/ DeliverRefused(w, o) \/ DeliverManual(w, o)
         \/ DeliverBoundary(w, o) \/ DeliverSent(w, o)
         \/ DeliverFailed(w, o) \/ DeliverCrash(w, o)
         \/ SweepClose(w, o) \/ OperatorRetry(w, o)
    \/ \E o \in Orders : DeliveryDue(o)
=============================================================================
