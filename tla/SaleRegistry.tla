---------------------------- MODULE SaleRegistry ----------------------------
(***************************************************************************)
(* services/sale_registry.py: how a sale the listener missed is found and  *)
(* promoted, how the seller's history overtakes local rows, and how a      *)
(* buyer's rotated chat is followed.  The periodic sync and the operator's *)
(* exact sync are serialised by the row of FunPaySaleSyncState; callbacks  *)
(* are not, and a sync writes at its commit what it derived from rows it   *)
(* read without a lock (expire_on_commit=False, changed columns only).     *)
(***************************************************************************)
EXTENDS OrderNotifications

VARIABLES
  remote,     \* the sale on FunPay
  node,       \* its chat there
  ours,       \* its offer is a bot lot: LotNotFoundError otherwise
  buried,     \* it left the head page of the seller's sales
  backfill,   \* FunPaySaleSyncState: "open" until the history was read
  backoff,    \* FunPaySaleSyncState.page_backoff_until lies ahead
  booted,     \* _legacy_sales_bootstrapped: this process has completed a sync
  candidate,  \* FunPaySaleCandidate
  sync        \* the sync in flight

registryVars == <<remote, node, ours, buried, backfill, backoff, booted, candidate, sync>>
funpayVars == <<remote, node, ours, buried>>

Candidate == [state : {"pending", "ignored", "failed"},
              attempts : 0..MaxAttempts, wait : BOOLEAN]
\* the Order as the session of the sync remembers it
Remembered == [status : {"pending", "completed"} \cup Refunding, chat : Nodes, idle : BOOLEAN]
ASSUME RememberedAssumption == Nothing \notin Remembered
Sync == [pc : {"idle", "fetched", "working"},
         seen : SaleStatus \cup {"none"},      \* the preview
         promoted : {"no", "found", "made"},   \* recovery attached or inserted it
         info : SaleStatus,                    \* status on the order page
         order : Remembered \cup {Nothing}, sale : SaleRow \cup {Nothing},
         candidate : Candidate \cup {Nothing},
         history : BOOLEAN, throttled : BOOLEAN]   \* the backfill ends, FunPay refuses
NoSync == [pc |-> "idle", seen |-> "none", promoted |-> "no",
           info |-> "paid", order |-> Nothing, sale |-> Nothing, candidate |-> Nothing,
           history |-> FALSE, throttled |-> FALSE]

Rank(status) == CASE status = "paid" -> 1 [] status = "completed" -> 2
                  [] status = "refunded" -> 3
\* _merge_sale_status
Merged(current, incoming) == IF Rank(incoming) < Rank(current) THEN current ELSE incoming
\* Faulty variant: a refund is not staged.
OnlyCloses(local, status) ==
    IF status = "completed" /\ local = "pending" THEN "completed" ELSE local

\* _reconcile_local_order_status
Reconciled(local, status) ==
    IF status = "refunded" /\ local \notin Refunding THEN "refund_pending"
    ELSE IF status = "completed" /\ local = "pending" THEN "completed"
    ELSE local

\* Faulty variant: FunPay's word for it is stored.
InitialAsTold(status) == status
\* process_new_sale: the status of a new Order
Initial(status) == IF status = "paid" THEN "pending" ELSE status

\* _get_by_remote_order finds a sale only while it matches its Order
Known == Verified(order, sale)

\* the sync inserted the Order and holds its key until it ends
Inserting == sync.pc = "working" /\ sync.promoted = "made"

-----------------------------------------------------------------------------
\* The pages: the head, and one page of history while the backfill is open; an
\* exact sync asks for the order itself, which makes a difference when neither shows
\* it.  Then _upsert_recovery_candidates.
Visible(exact, history) == exact \/ ~buried \/ (backfill = "open" /\ history)

\* Faulty variant: only previews of paid sales are kept.
QueuedWhilePaid(seen) ==
    IF seen # "paid" \/ candidate # Nothing THEN candidate
    ELSE IF order # Nothing THEN Nothing
    ELSE [state |-> "pending", attempts |-> 0, wait |-> FALSE]
Queued(seen) ==
    IF seen = "none" THEN candidate
    ELSE IF order # Nothing THEN Nothing
    ELSE IF candidate = Nothing THEN [state |-> "pending", attempts |-> 0, wait |-> FALSE]
    ELSE candidate

\* bootstrap_from_orders comes before the first sync of a process: an Order whose
\* sale is not found gets a new one, which collides with the sale it has
Bootstraps == booted \/ order = Nothing \/ Known

SyncFetches(exact, history) ==
    /\ sync.pc = "idle" /\ (exact => buried) /\ Bootstraps
    /\ history \/ (~exact /\ backfill = "open" /\ faults < MaxFaults)
    /\ faults' = IF history THEN faults ELSE faults + 1
    /\ LET seen == IF Visible(exact, history) THEN remote ELSE "none"
       IN sync' = [NoSync EXCEPT !.pc = "fetched", !.seen = seen,
                     !.candidate = Queued(seen),
                     !.history = ~exact /\ history /\ backfill = "open"]
    /\ UNCHANGED <<funpayVars, order, sale, backfill, backoff, booted, candidate>>
    /\ UNCHANGED noticeVars

\* candidates due for the order page
Recovers == /\ sync.candidate # Nothing /\ ~backoff
            /\ sync.candidate.state = "pending" /\ ~sync.candidate.wait

Memory == IF order = Nothing THEN Nothing
          ELSE [status |-> order.status, chat |-> order.chat, idle |-> order.conf = "idle"]
Working == [sync EXCEPT !.pc = "working", !.order = Memory, !.sale = sale]
Only(s) == sync' = s /\ UNCHANGED <<funpayVars, order, sale, backfill, backoff, booted, candidate>>
                     /\ UNCHANGED noticeVars

SyncReads ==
    /\ sync.pc = "fetched" /\ ~Recovers
    /\ Only(Working) /\ UNCHANGED faults

\* the exact page rejects the candidate: LotNotFoundError, another identity
Ignored == [sync.candidate EXCEPT !.state = "ignored", !.wait = FALSE]
Rejects ==
    /\ sync.pc = "fetched" /\ Recovers
    /\ ~ours \/ (order # Nothing /\ order.chat # node)
    /\ Only([Working EXCEPT !.candidate = Ignored]) /\ UNCHANGED faults

\* _defer_global_page_retry spares the candidate, _defer_recovery_retry counts
Deferred(global) ==
    IF global THEN [sync.candidate EXCEPT !.wait = TRUE]
    ELSE IF sync.candidate.attempts + 1 >= MaxAttempts
         THEN [sync.candidate EXCEPT !.attempts = @ + 1, !.state = "failed", !.wait = FALSE]
         ELSE [sync.candidate EXCEPT !.attempts = @ + 1, !.wait = TRUE]
\* the sale is there, but is not found by its chat: the insert collides
Collides ==
    /\ sync.pc = "fetched" /\ Recovers
    /\ order # Nothing /\ order.chat = node /\ ~Known
    /\ Only([Working EXCEPT !.candidate = Deferred(FALSE)]) /\ UNCHANGED faults
PageFails(global) ==
    /\ sync.pc = "fetched" /\ Recovers /\ faults < MaxFaults
    /\ faults' = faults + 1
    /\ Only([Working EXCEPT !.candidate = Deferred(global), !.throttled = global])

\* process_new_sale and register_new_sale, in the transaction of the sync
Promotes ==
    /\ sync.pc = "fetched" /\ Recovers /\ ours
    /\ order = Nothing \/ (Known /\ order.chat = node)
    /\ Only(IF order = Nothing
            THEN [Working EXCEPT !.promoted = "made", !.info = remote,
                    !.order = [status |-> Initial(remote), chat |-> node, idle |-> TRUE],
                    !.sale = [status |-> remote, chat |-> node], !.candidate = Nothing]
            ELSE [Working EXCEPT !.promoted = "found", !.info = remote,
                    !.candidate = Nothing])
    /\ UNCHANGED faults

\* What the sync makes of the rows in its memory: recovery first, then the
\* previews and _reconcile_terminal_orders.
SaleAfterRecovery ==
    IF sync.promoted = "no" THEN sync.sale.status ELSE Merged(sync.sale.status, sync.info)
SaleAfter ==
    IF sync.seen = "none" THEN SaleAfterRecovery ELSE Merged(SaleAfterRecovery, sync.seen)
OrderAfter ==
    LET recovered == IF sync.promoted = "no" THEN sync.order.status
                     ELSE Reconciled(sync.order.status, sync.info)
    IN IF sync.seen = "none" \/ SaleAfter = "paid" THEN recovered
       ELSE Reconciled(recovered, SaleAfter)

\* changed attributes are written, the others keep what is in the row by now
Write(new, remembered, current) == IF new = remembered THEN current ELSE new

SaleWritten ==
    [status |-> Write(SaleAfter, sync.sale.status, sale.status),
     chat |-> IF sync.seen = "none" THEN sale.chat
              ELSE Write(sync.order.chat, sync.sale.chat, sale.chat)]
OrderWritten == [order EXCEPT !.status = Write(OrderAfter, sync.order.status, @)]

\* Faulty variant: the sync completes orders and says nothing.
ConfirmsNothing(o, s) == {o}
\* mark_confirmed_due asks the database, but believes its own copy of the row
Confirms(o, s) ==
    IF OrderAfter = "completed" /\ (sync.promoted # "no" \/ (sync.seen # "none" /\ SaleAfter # "paid"))
    THEN MarkedDue(o, s, sync.order.idle) ELSE {o}

\* refresh_buyer_profiles runs last, unless FunPay refused a page before: a global
\* failure of its page starts the back-off, too
SyncCommits(global) ==
    /\ sync.pc = "working"
    /\ global => ~backoff /\ ~sync.throttled /\ faults < MaxFaults
    /\ faults' = IF global THEN faults + 1 ELSE faults
    /\ IF sync.order = Nothing \/ sync.sale = Nothing
       THEN UNCHANGED <<order, sale>>
       ELSE IF sync.promoted = "made"
       THEN sale' = sync.sale /\ order' \in Confirms(NewOrder(sync.order.status, sync.order.chat), sync.sale)
       ELSE /\ sale' = SaleWritten
            /\ order' \in Confirms(OrderWritten, SaleWritten)
            /\ order' # order => OrderFree
    /\ candidate' = sync.candidate
    /\ backfill' = IF sync.history THEN "done" ELSE backfill
    /\ booted' = TRUE
    /\ backoff' = (backoff \/ sync.throttled \/ global)
    /\ sync' = NoSync
    /\ UNCHANGED funpayVars /\ UNCHANGED noticeVars

\* a failed statement, a restart: nothing of it stays
SyncAborts ==
    /\ sync.pc # "idle" /\ faults < MaxFaults
    /\ faults' = faults + 1 /\ sync' = NoSync
    /\ UNCHANGED <<funpayVars, order, sale, backfill, backoff, booted, candidate>>
    /\ UNCHANGED noticeVars

\* page_backoff_until or next_attempt_at is reached (a sync compares with its start)
BackoffEnds ==
    /\ sync.pc = "idle" /\ backoff /\ backoff' = FALSE
    /\ UNCHANGED <<funpayVars, order, sale, backfill, booted, candidate, sync, faults>>
    /\ UNCHANGED noticeVars
CandidateDue ==
    /\ sync.pc = "idle" /\ candidate # Nothing /\ candidate.wait
    /\ candidate' = [candidate EXCEPT !.wait = FALSE]
    /\ UNCHANGED <<funpayVars, order, sale, backfill, backoff, booted, sync, faults>>
    /\ UNCHANGED noticeVars

SyncGoesOn ==
    SyncReads \/ Rejects \/ Collides \/ Promotes \/ SyncCommits(FALSE)
=============================================================================
