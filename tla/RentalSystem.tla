---------------------------- MODULE RentalSystem ----------------------------
(***************************************************************************)
(* The rental core as a whole: fulfilment, delivery, refunds, expiry, the  *)
(* buyer commands and the account checks interleave over the same rows,    *)
(* and any operation may be lost between two of its transactions.          *)
(***************************************************************************)
EXTENDS RentalService, OrderProcessor, RentalExpiry, CommandHandlers,
        AccountChecks

Init ==
    /\ remote = [o \in Orders |-> "paid"]
    /\ ostatus = [o \in Orders |-> "none"]
    /\ rstatus = [o \in Orders |-> "none"]
    /\ racct = [o \in Orders |-> NoAccount]
    /\ term = [o \in Orders |-> "open"]
    /\ repl = [o \in Orders |-> 0]
    /\ dstatus = [o \in Orders |-> "none"]
    /\ template = [o \in Orders |-> "welcome"]
    /\ attempts = [o \in Orders |-> 0]
    /\ dwait = [o \in Orders |-> FALSE]
    /\ claim = [o \in Orders |-> NoWorker]
    /\ claimLive = [o \in Orders |-> FALSE]
    /\ target = [o \in Orders |-> NoAccount]
    /\ noticed = [o \in Orders |-> FALSE]
    /\ told = [o \in Orders |-> FALSE]
    /\ astatus = [a \in Accounts |-> "active"]
    /\ job = [a \in Accounts |-> "none"]
    /\ overruled = {}
    /\ task = [w \in Workers |-> Idle]
    /\ faults = 0
    /\ access = [a \in Accounts |-> {}]

\* a crash, a cancelled handler or a database error: the operation is gone,
\* what it committed stays
Abandon(w) ==
    /\ task[w] # Idle
    /\ FaultUnless(FALSE)
    /\ Finish(w)
    /\ UNCHANGED <<saleVars, rentalVars, deliveryVars, leaseVars, noticeVars,
                   accountVars, access>>

Next ==
    \/ RentalServiceNext
    \/ OrderProcessorNext
    \/ RentalExpiryNext
    \/ CommandHandlersNext
    \/ AccountChecksNext
    \/ \E w \in Workers : Abandon(w)

Spec == Init /\ [][Next]_vars

-----------------------------------------------------------------------------
(* Safety                                                                  *)

\* An account is kept by one order at a time, whether the order lives on it
\* or has it reserved: OpenAI logs all sessions of an account out at once.
Exclusive ==
    \A o, p \in Orders, a \in Accounts : Holds(o, a) /\ Holds(p, a) => o = p

\* A background check logs in to the account: none runs while an order keeps it.
NoCheckUnderBuyer ==
    \A a \in Accounts : job[a] = "running" => ~Busy(a)

\* Whoever was shown an account's secrets since its last logout still rents it,
\* unless a late close or a late verdict undid the logout under way there.
Custody ==
    \A a \in Accounts : \A o \in access[a] :
      a \in overruled \/ (Occupies(o) /\ racct[o] = a)

\* The account reserved for a replacement stays sellable until the old one has
\* been logged out: no check, operator or other order takes it out of the pool,
\* and nothing but the late verdict of a !replace validator does.
ReservationKept ==
    \A o \in Orders : target[o] \in Accounts \ overruled =>
      astatus[target[o]] = "active"

\* Time does not run before the buyer could have got anything.
NoExpiryBeforeSend ==
    \A o \in Orders :
      rstatus[o] \in {"expiry_pending", "expired"} => ~InitialUnsent(o)

\* The terminal message tells the buyer that access is over, and it is: the
\* account was logged out before and nothing of it is disclosed after.
ToldAfterLogout ==
    \A o \in Orders : told[o] => \A a \in Accounts \ overruled : o \notin access[a]

\* A refund that arrives during the expiry logout takes the rental over: it does
\* not end as expired, and no terminal message becomes due.
RefundBeforeExpiry ==
    \A o \in Orders : rstatus[o] = "expired" => ~Refunding(o)

\* A recorded refund goes on and stays: of all writes, only the pending-orders
\* sweep that read the order before its delivery takes one back.
KeepsRefund(o) ==
    /\ ostatus[o] = "refunded" => ostatus'[o] = "refunded"
    /\ Refunding(o) => ostatus'[o] \in {"refund_pending", "refunded"}
RefundsStand ==
    [][\A o \in Orders : KeepsRefund(o) \/ \E w \in Workers : SweepClose(w, o)]_vars

-----------------------------------------------------------------------------
(* What the documents say of the code, and the code does not do            *)

\* A refund, once recorded, is final: no later write takes the order back.
RefundIsFinal == [][\A o \in Orders : KeepsRefund(o)]_vars

\* "Do not allocate credentials that a live worker can still invalidate": no
\* order gets an account while the !replace validator of another is logged in.
ValidatorAlone ==
    \A w \in Workers, o \in Orders :
      At(w, "check") /\ Holds(o, task[w].acct) => task[w].ord = o

\* The rows are locked through the expiry message so that a refund cannot slip
\* in: a buyer whose sale is being refunded is not told that the rental ended.
NoNoticeAfterRefund ==
    [][\A o \in Orders : told'[o] /\ ~told[o] => ~Refunding(o)]_vars

-----------------------------------------------------------------------------
(* Every step is a step of the abstract custody of accounts, or none of it *)

AC == INSTANCE AccountCustody WITH
        rents <- [o \in Orders |-> IF Occupies(o) THEN racct[o] ELSE NoAccount],
        shown <- access,
        lost <- overruled

\* An account passes from buyer to buyer only through a logout, and one of
\* which a late write undid the logout still has one renter at a time.
KeepsCustody == AC!Spec
=============================================================================
