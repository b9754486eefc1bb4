--------------------------- MODULE OrderProcessor ---------------------------
(***************************************************************************)
(* services/order_processor.py, called by the FunPay callbacks, the        *)
(* pending-orders and refund_revoke sweeps and the buyer commands: a sale  *)
(* is recorded, closed and refunded.  A refund claims the rental, logs the *)
(* account out with no lock held, and finalises only its own claim.        *)
(***************************************************************************)
EXTENDS RentalRows

\* process_new_sale, with on_new_sale going on to fulfill_order; the sale may
\* reach the bot late, when FunPay already shows it closed or refunded
NewSale(w, o) ==
    /\ task[w] = Idle
    /\ ostatus[o] = "none"
    /\ ostatus' = [ostatus EXCEPT ![o] =
                     IF remote[o] = "paid" THEN "pending" ELSE remote[o]]
    /\ IF remote[o] = "refunded" THEN task' = task
       ELSE Begin(w, Step("fulfill", o, NoAccount))
    /\ UNCHANGED <<remote, rentalVars, deliveryVars, leaseVars, noticeVars,
                   accountVars, faults, access>>

\* Faulty variant: a late close is applied to whatever it finds.
SaleClosedAlways(o) ==
    /\ remote[o] # "paid"
    /\ ostatus[o] \notin {"none", "completed"}
    /\ ostatus' = [ostatus EXCEPT ![o] = "completed"]
    /\ UNCHANGED <<remote, rentalVars, deliveryVars, leaseVars, noticeVars,
                   accountVars, task, faults, access>>

\* process_sale_closed_transition: a late close does not undo a refund
SaleClosed(o) ==
    /\ remote[o] # "paid"
    /\ ostatus[o] = "pending"
    /\ ostatus' = [ostatus EXCEPT ![o] = "completed"]
    /\ UNCHANGED <<remote, rentalVars, deliveryVars, leaseVars, noticeVars,
                   accountVars, task, faults, access>>

-----------------------------------------------------------------------------
(* _claim_refund_revoke; a !replace whose live check of the sale finds it   *)
(* refunded comes here too, in the stage "checked"                          *)

SeesRefund(w, o) ==
    /\ \/ task[w] = Idle
       \/ At(w, "checked") /\ task[w].ord = o
    /\ remote[o] = "refunded"
    /\ ostatus[o] \notin {"none", "refunded"}

\* no rental, or one that has ended: nothing to log out
RefundEnded(w, o) ==
    /\ SeesRefund(w, o) /\ ~Occupies(o)
    /\ ostatus' = [ostatus EXCEPT ![o] = "refunded"]
    /\ IF rstatus[o] = "none" THEN UNCHANGED <<rstatus, leaseVars>>
       ELSE /\ rstatus' = [rstatus EXCEPT ![o] = "refunded"]
            /\ target' = [target EXCEPT ![o] = NoAccount]
            /\ DropLease(o)
    /\ Finish(w)
    /\ UNCHANGED <<remote, racct, term, repl, deliveryVars, noticeVars,
                   accountVars, faults, access>>

\* another logout of the account is running: the state is made durable and
\* the sweep tries again
RefundBusy(w, o) ==
    /\ SeesRefund(w, o) /\ Occupies(o) /\ claimLive[o]
    /\ ostatus' = [ostatus EXCEPT ![o] = "refund_pending"]
    /\ astatus' = [astatus EXCEPT ![racct[o]] = "maintenance"]
    /\ Finish(w)
    /\ UNCHANGED <<remote, rentalVars, deliveryVars, leaseVars, noticeVars,
                   job, overruled, faults, access>>

RefundClaim(w, o) ==
    /\ SeesRefund(w, o) /\ Occupies(o) /\ LeaseFree(o)
    /\ ostatus' = [ostatus EXCEPT ![o] = "refund_pending"]
    /\ astatus' = [astatus EXCEPT ![racct[o]] = "maintenance"]
    /\ target' = [target EXCEPT ![o] = NoAccount]
    /\ TakeLease(w, o)
    /\ Begin(w, Step("refund", o, racct[o]))
    /\ UNCHANGED <<remote, rentalVars, deliveryVars, noticeVars, job,
                   overruled, faults, access>>

RefundKick(w, o, ok) ==
    /\ At(w, "refund") /\ task[w].ord = o
    /\ Logout(task[w].acct, ok)
    /\ Begin(w, [task[w] EXCEPT !.at = "refund_kicked", !.ok = ok])
    /\ UNCHANGED <<saleVars, rentalVars, deliveryVars, leaseVars, noticeVars,
                   accountVars>>

\* _finalize_refund_revoke
RefundMatches(w, o) ==
    /\ Owns(w, o) /\ Occupies(o) /\ racct[o] = task[w].acct
    /\ ostatus[o] = "refund_pending"

RefundFinalize(w, o) ==
    /\ At(w, "refund_kicked") /\ task[w].ord = o
    /\ IF Owns(w, o) THEN DropLease(o) ELSE UNCHANGED <<claim, claimLive>>
    /\ IF task[w].ok /\ RefundMatches(w, o)
       THEN /\ rstatus' = [rstatus EXCEPT ![o] = "refunded"]
            /\ ostatus' = [ostatus EXCEPT ![o] = "refunded"]
            /\ job' = Enqueued(task[w].acct)
       ELSE UNCHANGED <<rstatus, ostatus, job>>
    /\ Finish(w)
    /\ UNCHANGED <<remote, racct, term, repl, deliveryVars, target,
                   noticeVars, astatus, overruled, faults, access>>

-----------------------------------------------------------------------------
\* FunPay moves the sale on: the buyer confirms, the seller or FunPay refunds
RemoteEnds(o, end) ==
    /\ remote[o] # "refunded" /\ remote[o] # end
    /\ remote' = [remote EXCEPT ![o] = end]
    /\ UNCHANGED <<ostatus, rentalVars, deliveryVars, leaseVars, noticeVars,
                   accountVars, task, faults, access>>

OrderProcessorNext ==
    \/ \E w \in Workers, o \in Orders :
         \/ NewSale(w, o)
         \/ RefundEnded(w, o) \/ RefundBusy(w, o) \/ RefundClaim(w, o)
         \/ \E ok \in BOOLEAN : RefundKick(w, o, ok)
         \/ RefundFinalize(w, o)
    \/ \E o \in Orders : SaleClosed(o) \/ \E end \in SaleEnds : RemoteEnds(o, end)
=============================================================================
