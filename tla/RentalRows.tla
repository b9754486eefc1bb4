----------------------------- MODULE RentalRows -----------------------------
(***************************************************************************)
(* The database rows every operation of the rental core shares (Order,     *)
(* Rental, Account, AccountCheckJob), the operations in flight, and what   *)
(* the row predicates of the code say of them.                             *)
(*                                                                         *)
(* An action of the component modules is one transaction: the rows it      *)
(* locks (Order -> Rental -> Account) stay locked from its checks to its   *)
(* commit.  What an operation remembers between two transactions, with no  *)
(* lock held, is its record task[w].                                       *)
(***************************************************************************)
EXTENDS Naturals, FiniteSets

CONSTANTS
    Orders,           \* FunPay sales of bot-managed lots
    Accounts,         \* ChatGPT accounts of the seller
    Workers,          \* operations in flight: callbacks, sweeps, admin calls
    NoOrder, NoAccount, NoWorker,
    MaxAttempts,      \* CREDENTIAL_DELIVERY_MAX_ATTEMPTS
    MaxReplacements,  \* the replacement limit of ReplaceHandler
    MaxFaults,        \* bound on what goes wrong outside the code, see Fault
    CheckedAccounts,  \* accounts that sweeps and operators queue checks for
    SaleEnds          \* what FunPay may do to a sale: confirm it, refund it

ASSUME RowsAssumption ==
    /\ NoOrder \notin Orders
    /\ NoAccount \notin Accounts
    /\ NoWorker \notin Workers
    /\ MaxAttempts \in Nat \ {0, 1}  \* an operator retry keeps one spent attempt
    /\ MaxReplacements \in Nat
    /\ MaxFaults \in Nat
    /\ CheckedAccounts \subseteq Accounts
    /\ SaleEnds \subseteq {"completed", "refunded"}

VARIABLES
    remote,     \* the sale's status on FunPay
    ostatus,    \* Order.status ("none": no row yet)
    rstatus,    \* Rental.status ("none": no row yet)
    racct,      \* Rental.account_id
    term,       \* Rental.expires_at: "open", at most two minutes left, "over"
    repl,       \* Rental.replacement_count
    dstatus,    \* Rental.credentials_delivery_status
    template,   \* Rental.credentials_delivery_template
    attempts,   \* Rental.credentials_delivery_attempts
    dwait,      \* is the delivery lease live, or the backoff still running?
    claim,      \* Rental.expiry_revoke_started_at, by the operation that wrote it
    claimLive,  \* is that timestamp younger than the five-minute lease?
    target,     \* Rental.replacement_target_account_id
    noticed,    \* Rental.expiry_notified_at is set
    astatus,    \* Account.status
    job,        \* the account's active AccountCheckJob
    overruled,  \* history: the accounts of which a late write, made with no
                \* lock and no second look, undid a refund or a replacement
    task,       \* the operations in flight
    faults,     \* how often something went wrong so far
    access,     \* buyers shown the account's secrets since its last logout
    told        \* the buyer's chat got the expiry message

saleVars     == <<remote, ostatus>>
rentalVars   == <<rstatus, racct, term, repl>>
deliveryVars == <<dstatus, template, attempts, dwait>>
leaseVars    == <<claim, claimLive, target>>
noticeVars   == <<noticed, told>>
accountVars  == <<astatus, job, overruled>>
vars == <<saleVars, rentalVars, deliveryVars, leaseVars, noticeVars,
          accountVars, task, faults, access>>

OrderStatus    == {"none", "pending", "completed", "refund_pending", "refunded"}
RentalStatus   == {"none", "active", "expiry_pending", "expired", "refunded"}
DeliveryStatus == {"none", "sending", "failed", "sent", "manual"}
\* "suspended": the operator's override, which only a recheck lifts
AccountStatus  == {"active", "maintenance", "validation_failed",
                   "pending_validation", "suspended"}
Stages == {"idle", "fulfill", "deliver", "moved", "boundary", "closing",
           "refund", "refund_kicked", "expire", "expire_kicked", "notify",
           "check", "checked", "replace", "replace_kicked", "code"}

Reserving == {"replace", "replace_kicked"}
Tasks ==
    {t \in [at : Stages, ord : Orders \cup {NoOrder},
            acct : Accounts \cup {NoAccount}, tgt : Accounts \cup {NoAccount},
            n : Nat, ok : BOOLEAN, was : AccountStatus] :
       t.at \in Reserving => t.tgt \in Accounts}

SaleTypes ==
    /\ remote \in [Orders -> {"paid", "completed", "refunded"}]
    /\ ostatus \in [Orders -> OrderStatus]
RentalTypes ==
    /\ rstatus \in [Orders -> RentalStatus]
    /\ racct \in [Orders -> Accounts \cup {NoAccount}]
    /\ term \in [Orders -> {"open", "closing", "over"}]
    /\ repl \in [Orders -> 0..MaxReplacements]
    /\ \A o \in Orders : rstatus[o] # "none" => racct[o] \in Accounts
DeliveryTypes ==
    /\ dstatus \in [Orders -> DeliveryStatus]
    /\ template \in [Orders -> {"welcome", "replace_success"}]
    /\ attempts \in [Orders -> Nat]
    /\ dwait \in [Orders -> BOOLEAN]
LeaseTypes ==
    /\ claim \in [Orders -> Workers \cup {NoWorker}]
    /\ claimLive \in [Orders -> BOOLEAN]
    /\ target \in [Orders -> Accounts \cup {NoAccount}]
NoticeTypes ==
    /\ noticed \in [Orders -> BOOLEAN]
    /\ told \in [Orders -> BOOLEAN]
AccountTypes ==
    /\ astatus \in [Accounts -> AccountStatus]
    /\ job \in [Accounts -> {"none", "pending", "running"}]
    /\ overruled \in SUBSET Accounts
TaskTypes   == task \in [Workers -> Tasks]
FaultTypes  == faults \in 0..MaxFaults
AccessTypes == access \in [Accounts -> SUBSET Orders]

TypeOK ==
    /\ SaleTypes /\ RentalTypes /\ DeliveryTypes /\ LeaseTypes
    /\ NoticeTypes /\ AccountTypes
    /\ TaskTypes /\ FaultTypes /\ AccessTypes

-----------------------------------------------------------------------------
(* Row predicates                                                          *)

Fulfillable(o) == ostatus[o] \in {"pending", "completed"}
Refunding(o)   == ostatus[o] \in {"refund_pending", "refunded"}
Occupies(o)    == rstatus[o] \in {"active", "expiry_pending"}

\* Faulty variant: a reservation does not keep the account.
HoldsOnlyRented(o, a) == Occupies(o) /\ racct[o] = a

\* o's rental keeps a from every other order: it lives there or will move there
Holds(o, a) == \/ Occupies(o) /\ racct[o] = a
               \/ target[o] = a
Busy(a) == \E o \in Orders : Holds(o, a)

\* Faulty variant: the pool does not look at the check queue.
AllocatableUnderCheck(o, a) ==
    astatus[a] = "active" /\ a # racct[o] /\ ~\E p \in Orders \ {o} : Holds(p, a)

\* AccountPool's pick for o, checked again once the Account row is locked; a
\* replacement drops its own stale reservation first and excludes its account.
\* Limits, subscription, route and tier change at any time: whether they allow
\* an account is a choice made at each look, so a pick may also find nothing.
\* A !replace validator publishes no job, so the pool does not see it.
Allocatable(o, a) ==
    /\ astatus[a] = "active" /\ job[a] = "none"
    /\ a # racct[o]
    /\ ~\E p \in Orders \ {o} : Holds(p, a)

\* nothing was sent yet: the paid term has not started
InitialUnsent(o) == template[o] = "welcome" /\ attempts[o] = 0

\* what every buyer command asks first, and what it writes when time is up
Authorised(o) ==
    dstatus[o] = "sent" /\ rstatus[o] = "active" /\ ~Refunding(o)
    /\ term[o] # "over"
CloseOnCommand(o) ==
    rstatus' = IF /\ dstatus[o] = "sent" /\ rstatus[o] = "active"
                  /\ ~Refunding(o) /\ term[o] = "over"
               THEN [rstatus EXCEPT ![o] = "expiry_pending"] ELSE rstatus

-----------------------------------------------------------------------------
(* The lease on a rental, the logout it protects, the check queue          *)

\* a crash, a send or logout that fails or whose outcome is lost, a change of
\* an account's measurements at a bad moment, an operation that stalls for
\* longer than its lease: at most MaxFaults in a behaviour
FaultUnless(fine) ==
    IF fine THEN faults' = faults
    ELSE faults < MaxFaults /\ faults' = faults + 1

TakeLease(w, o) ==
    /\ claim' = [claim EXCEPT ![o] = w]
    /\ claimLive' = [claimLive EXCEPT ![o] = TRUE]
DropLease(o) ==
    /\ claim' = [claim EXCEPT ![o] = NoWorker]
    /\ claimLive' = [claimLive EXCEPT ![o] = FALSE]
Owns(w, o) == claim[o] = w

\* Faulty variant: only a claim that was dropped frees the lease.
NeverClaimed(o) == claim[o] = NoWorker

\* no refund, expiry, notice or replacement claimed the rental within its lease
LeaseFree(o) == ~claimLive[o]

\* KickService.kick: logged out or not, and what the caller is told; a
\* time-out or a lost browser session hides a logout that took place
Logout(a, ok) ==
    /\ \/ access' = [access EXCEPT ![a] = {}]
       \/ ~ok /\ access' = access
    /\ FaultUnless(ok)

\* CheckJobQueue.enqueue: an active job absorbs the request
Enqueued(a) == [job EXCEPT ![a] = IF @ = "none" THEN "pending" ELSE @]

-----------------------------------------------------------------------------
(* Operations in flight                                                    *)

Step(at, o, a) == [at |-> at, ord |-> o, acct |-> a, tgt |-> NoAccount,
                   n |-> 0, ok |-> FALSE, was |-> "active"]
Idle == Step("idle", NoOrder, NoAccount)

Begin(w, s)  == task' = [task EXCEPT ![w] = s]
Finish(w)    == task' = [task EXCEPT ![w] = Idle]
At(w, stage) == task[w].at = stage
=============================================================================
