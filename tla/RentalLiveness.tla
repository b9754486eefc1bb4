--------------------------- MODULE RentalLiveness ---------------------------
(***************************************************************************)
(* What the rental core eventually does, under the fairness of its         *)
(* scheduler (app_lifecycle.py): every sweep runs again and again on every *)
(* due row, an operation in flight goes on to its end, and time passes.    *)
(* Nothing is assumed of buyers, of the operator or of FunPay's decisions; *)
(* what fails outside fails at most MaxFaults times.                       *)
(***************************************************************************)
EXTENDS RentalSystem

\* the next transaction of the operation in flight
GoesOn(w) ==
    \E o \in Orders :
      \/ DeliverRefused(w, o) \/ DeliverManual(w, o) \/ DeliverBoundary(w, o)
      \/ DeliverSent(w, o) \/ SweepClose(w, o)
      \/ \E ok \in BOOLEAN :
           RefundKick(w, o, ok) \/ ExpireKick(w, o, ok) \/ ReplaceKick(w, o, ok)
      \/ RefundFinalize(w, o) \/ ExpireFinalize(w, o)
      \/ \E ok, accepted \in BOOLEAN : NoticeSend(w, o, ok, accepted)
      \/ CodeSend(w, o) \/ CodeRefused(w, o)
      \/ ReplaceDeclined(w, o) \/ ReplaceChecked(w, o)
      \/ \E b \in Accounts : ReplaceClaim(w, o, b)
      \/ ReplaceNoAccount(w, o) \/ ReplaceRefused(w, o)
      \/ ReplaceSwitch(w, o) \/ ReplaceGiveUp(w, o)
      \/ At(w, "fulfill") /\ (FulfillAgain(w, o) \/ FulfillNothing(w, o))

\* _task_pending_orders asks FunPay again about these orders, and takes a refund
\* it finds there as the refund callback does
DueForSweep(o) ==
    /\ Fulfillable(o)
    /\ \/ rstatus[o] = "none"
       \/ rstatus[o] = "active" /\ dstatus[o] \in {"sending", "failed"} /\ ~dwait[o]

\* the sweeps: pending orders, refunds, overdue rentals, expiry messages.  A
\* slot of Workers is a bound of the model, not of the code: that another
\* operation holds it must not starve a sweep, hence strong fairness.
Retries(o)  == \E w \in Workers : task[w] = Idle /\ FulfillAgain(w, o)
Refunds(o)  == /\ ostatus[o] = "refund_pending" \/ DueForSweep(o)
               /\ \E w \in Workers : RefundEnded(w, o) \/ RefundClaim(w, o)
Expires(o)  == \E w \in Workers : ClaimOverdue(w, o)
Notifies(o) == \E w \in Workers : NoticeClaim(w, o)

Fairness ==
    /\ \A w \in Workers : WF_vars(GoesOn(w))
    /\ \A o \in Orders :
         /\ SF_vars(Retries(o)) /\ SF_vars(Refunds(o))
         /\ SF_vars(Expires(o)) /\ SF_vars(Notifies(o))
         /\ WF_vars(TermPasses(o)) /\ WF_vars(LeaseExpires(o))
         /\ WF_vars(DeliveryDue(o))

FairSpec == Spec /\ Fairness

-----------------------------------------------------------------------------
\* A refund that was recorded ends, whatever logouts fail on the way and
\* whichever operation holds the lease: the retry sweep takes it up again,
\* unless a late close hid it.
RefundEnds ==
    \A o \in Orders :
      ostatus[o] = "refund_pending" ~> ostatus[o] = "refunded" \/ racct[o] \in overruled

\* A rental whose paid term is over gives its account back: a crash between
\* the claim and the finalisation only costs the lease.
OverdueEnds == \A o \in Orders : Overdue(o) ~> ~Occupies(o)

\* A started delivery ends: sent, handed to the operator, or the rental is over.
DeliveryEnds ==
    \A o \in Orders :
      rstatus[o] = "active" /\ dstatus[o] \in {"sending", "failed"}
        ~> dstatus[o] \in {"sent", "manual"} \/ rstatus[o] # "active"

\* The buyer of an expired rental is told, or the refund has spoken for itself.
BuyerTold ==
    \A o \in Orders : rstatus[o] = "expired" ~> noticed[o] \/ Refunding(o)
=============================================================================
