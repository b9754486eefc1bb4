---------------------------- MODULE RentalExpiry ----------------------------
(***************************************************************************)
(* services/rental_expiry.py: the overdue sweep claims a rental, logs its  *)
(* account out, ends it; releases abandoned replacement reservations; and  *)
(* tells the buyer.  Claim, logout and finalisation are transactions of    *)
(* their own.                                                              *)
(***************************************************************************)
EXTENDS RentalRows

\* Faulty variants: the term counts before anything was sent; a claim that did
\* not end the rental is not taken up again.
OverdueUnsent(o) == Occupies(o) /\ term[o] = "over" /\ ~Refunding(o)
OverdueOnce(o) ==
    /\ rstatus[o] = "active" /\ term[o] = "over"
    /\ ~(InitialUnsent(o) /\ dstatus[o] # "sent")
    /\ ~Refunding(o)

\* a rental whose delivery never started is not overdue
Overdue(o) ==
    /\ Occupies(o) /\ term[o] = "over"
    /\ ~(InitialUnsent(o) /\ dstatus[o] # "sent")
    /\ ~Refunding(o)

\* _claim_overdue
ClaimOverdue(w, o) ==
    /\ task[w] = Idle
    /\ Overdue(o) /\ LeaseFree(o)
    /\ rstatus' = [rstatus EXCEPT ![o] = "expiry_pending"]
    /\ astatus' = [astatus EXCEPT ![racct[o]] = "maintenance"]
    /\ target' = [target EXCEPT ![o] = NoAccount]
    /\ TakeLease(w, o)
    /\ Begin(w, Step("expire", o, racct[o]))
    /\ UNCHANGED <<saleVars, racct, term, repl, deliveryVars, noticeVars, job,
                   overruled, faults, access>>

\* _revoke_account: a logout that succeeded queues the account's recovery
ExpireKick(w, o, ok) ==
    /\ At(w, "expire") /\ task[w].ord = o
    /\ Logout(task[w].acct, ok)
    /\ job' = IF ok THEN Enqueued(task[w].acct) ELSE job
    /\ Begin(w, [task[w] EXCEPT !.at = "expire_kicked", !.ok = ok])
    /\ UNCHANGED <<saleVars, rentalVars, deliveryVars, leaseVars, noticeVars,
                   astatus, overruled>>

\* Faulty variant: the expiry ends the rental although a refund came meanwhile.
ExpireMatchesRefunding(w, o) ==
    /\ Owns(w, o)
    /\ racct[o] = task[w].acct /\ rstatus[o] = "expiry_pending"

\* _finalize_revoke: a refund that came meanwhile takes the rental over
ExpireMatches(w, o) ==
    /\ Owns(w, o) /\ ~Refunding(o)
    /\ racct[o] = task[w].acct /\ rstatus[o] = "expiry_pending"

ExpireFinalize(w, o) ==
    /\ At(w, "expire_kicked") /\ task[w].ord = o
    /\ IF Owns(w, o) /\ (Refunding(o) \/ ExpireMatches(w, o))
       THEN DropLease(o) ELSE UNCHANGED <<claim, claimLive>>
    /\ rstatus' = IF task[w].ok /\ ExpireMatches(w, o)
                  THEN [rstatus EXCEPT ![o] = "expired"] ELSE rstatus
    /\ Finish(w)
    /\ UNCHANGED <<saleVars, racct, term, repl, deliveryVars, target,
                   noticeVars, accountVars, faults, access>>

\* _release_stale_replacement_reservations, and the same release by a second
\* !replace; the old account stays in maintenance
ReleaseStaleReservation(o) ==
    /\ target[o] # NoAccount /\ LeaseFree(o)
    /\ target' = [target EXCEPT ![o] = NoAccount]
    /\ DropLease(o)
    /\ UNCHANGED <<saleVars, rentalVars, deliveryVars, noticeVars,
                   accountVars, task, faults, access>>

-----------------------------------------------------------------------------
(* The terminal message, sent at least once                                *)

\* Faulty variant: the message does not wait for the logout.
ToNotifyEarly(o) == rstatus[o] \in {"expiry_pending", "expired"} /\ ~noticed[o]

ToNotify(o) == rstatus[o] = "expired" /\ ~noticed[o]

\* _claim_expiry_notification.  For a refunded order it sets expiry_notified_at
\* instead; a rental is never expired then (RefundBeforeExpiry).
NoticeClaim(w, o) ==
    /\ task[w] = Idle
    /\ ToNotify(o) /\ ~Refunding(o) /\ LeaseFree(o)
    /\ TakeLease(w, o)
    /\ Begin(w, Step("notify", o, NoAccount))
    /\ UNCHANGED <<saleVars, rentalVars, deliveryVars, target, noticeVars,
                   accountVars, faults, access>>

\* the rest of notify_expiration_candidate: the rows are locked from the
\* route check to the end of _finalize_expiry_notification; ok: FunPay
\* confirmed, accepted: the buyer got the message
NoticeSend(w, o, ok, accepted) ==
    /\ At(w, "notify") /\ task[w].ord = o
    /\ ok => accepted
    /\ told' = IF accepted THEN [told EXCEPT ![o] = TRUE] ELSE told
    /\ IF Owns(w, o)
       THEN /\ DropLease(o)
            /\ noticed' = IF ok THEN [noticed EXCEPT ![o] = TRUE] ELSE noticed
       ELSE UNCHANGED <<claim, claimLive, noticed>>
    /\ FaultUnless(ok)
    /\ Finish(w)
    /\ UNCHANGED <<saleVars, rentalVars, deliveryVars, target, accountVars,
                   access>>

-----------------------------------------------------------------------------
\* time passes: towards expires_at, and past the lease of a claim
TermPasses(o) ==
    /\ Occupies(o) /\ term[o] # "over"
    /\ term' = [term EXCEPT ![o] = IF @ = "open" THEN "closing" ELSE "over"]
    /\ UNCHANGED <<saleVars, rstatus, racct, repl, deliveryVars, leaseVars,
                   noticeVars, accountVars, task, faults, access>>

InLease(w, o) ==
    /\ task[w].ord = o
    /\ task[w].at \in {"refund", "refund_kicked", "expire", "expire_kicked",
                      "notify", "replace", "replace_kicked"}

LeaseExpires(o) ==
    /\ claimLive[o]
    /\ claimLive' = [claimLive EXCEPT ![o] = FALSE]
    /\ FaultUnless(~\E w \in Workers : Owns(w, o) /\ InLease(w, o))
    /\ UNCHANGED <<saleVars, rentalVars, deliveryVars, claim, target,
                   noticeVars, accountVars, task, access>>

RentalExpiryNext ==
    \/ \E w \in Workers, o \in Orders :
         \/ ClaimOverdue(w, o) \/ ExpireFinalize(w, o)
         \/ \E ok \in BOOLEAN : ExpireKick(w, o, ok)
         \/ NoticeClaim(w, o)
         \/ \E ok, accepted \in BOOLEAN : NoticeSend(w, o, ok, accepted)
    \/ \E o \in Orders :
         ReleaseStaleReservation(o) \/ TermPasses(o) \/ LeaseExpires(o)
=============================================================================
