------------------------ MODULE RentalCustody_proofs ------------------------
(***************************************************************************)
(* Who may know an account's secrets, for every value of the constants: a  *)
(* buyer who was shown them still rents the account, or it was logged out  *)
(* since; an account reserved for a replacement stays sellable; a buyer    *)
(* told that the rental ended knows no account; and the rental core        *)
(* implements the abstract custody of accounts (AccountCustody).  Excepted *)
(* is an account of which a late write undid a refund or a replacement     *)
(* (overruled): the second part shows that nothing else ever adds to these.*)
(*                                                                         *)
(* Most actions are quiet: they give nobody an account, a lease or a       *)
(* secret.  The first part shows which ones are; the invariants are then   *)
(* proved once for a quiet step, and once for each action that is not.     *)
(***************************************************************************)
EXTENDS RentalExclusive_proofs, RentalTerms_proofs

\* the stages between two transactions of a logout, a replacement, a notice
Guarded == {"check", "checked", "replace", "replace_kicked", "refund",
            "refund_kicked", "expire", "expire_kicked", "notify"}

\* what becomes of a rental that neither begins nor ends
Calm(o) ==
    \/ rstatus'[o] = rstatus[o]
    \/ rstatus[o] = "active" /\ rstatus'[o] = "expiry_pending"
    \/ rstatus[o] \in {"expired", "refunded"} /\ rstatus'[o] = "refunded"

Quiet ==
    /\ UNCHANGED <<racct, astatus, access, told>>
    /\ \A o \in Orders : Calm(o)
    /\ \A o \in Orders : target'[o] = target[o] \/ target'[o] = NoAccount
    /\ \A o \in Orders, w \in Workers : claim'[o] = w => claim[o] = w
    /\ \A w \in Workers : task'[w].at \in Guarded => task'[w] = task[w]

\* an account that no order keeps is checked, rechecked or suspended
Inspected ==
    /\ UNCHANGED <<rstatus, racct, claim, target, told, task, access>>
    /\ \E a \in Accounts :
         ~Busy(a) /\ \A b \in Accounts : b # a => astatus'[b] = astatus[b]

\* the actions that are neither
ActsOnRental(w, o) ==
    \/ \E a \in Accounts :
         FulfillNew(w, o, a) \/ Reallocate(w, o, a) \/ ReplaceClaim(w, o, a)
    \/ DeliverSent(w, o) \/ DeliverFailed(w, o) \/ DeliverCrash(w, o)
    \/ CodeSend(w, o)
    \/ RefundBusy(w, o) \/ RefundClaim(w, o) \/ RefundFinalize(w, o)
    \/ ClaimOverdue(w, o) \/ ExpireFinalize(w, o) \/ NoticeClaim(w, o)
    \/ \E ok \in BOOLEAN :
         RefundKick(w, o, ok) \/ ExpireKick(w, o, ok) \/ ReplaceKick(w, o, ok)
    \/ \E ok, accepted \in BOOLEAN : NoticeSend(w, o, ok, accepted)
    \/ ReplaceStart(w, o) \/ ReplaceDeclined(w, o) \/ ReplaceChecked(w, o)
    \/ ReplaceSwitch(w, o)

Kinds ==
    \/ Quiet
    \/ Inspected
    \/ \E w \in Workers, o \in Orders : ActsOnRental(w, o)

LEMMA QuietIfSame ==
    ASSUME UNCHANGED <<rstatus, racct, astatus, access, told, target, claim>>,
           \A w \in Workers : task'[w].at \in Guarded => task'[w] = task[w]
    PROVE  Quiet
BY DEF Quiet, Calm

LEMMA RentalServiceKinds == TypeOK /\ RentalServiceNext => Kinds
<1> SUFFICES ASSUME TypeOK, RentalServiceNext PROVE Kinds
  OBVIOUS
<1> USE DEF Kinds
<1>1. ASSUME NEW w \in Workers, NEW o \in Orders,
             \/ \E a \in Accounts : FulfillNew(w, o, a) \/ Reallocate(w, o, a)
             \/ DeliverSent(w, o) \/ DeliverFailed(w, o) \/ DeliverCrash(w, o)
      PROVE  Kinds
  BY <1>1 DEF ActsOnRental
<1>2. ASSUME NEW w \in Workers, NEW o \in Orders,
             \/ FulfillAgain(w, o) \/ OperatorRetry(w, o)
      PROVE  Kinds
  <2>1. \A v \in Workers : task'[v].at \in Guarded => task'[v] = task[v]
    BY <1>2 DEF TypeOK, TaskTypes, FulfillAgain, OperatorRetry, Delivering,
       Begin, Step, Guarded
  <2> QED
    BY <1>2, <2>1, QuietIfSame DEF FulfillAgain, OperatorRetry, rentalVars,
       leaseVars, noticeVars, accountVars
<1>3. ASSUME NEW w \in Workers, NEW o \in Orders, DeliverBoundary(w, o)
      PROVE  Kinds
  <2>1. \A v \in Workers : task'[v].at \in Guarded => task'[v] = task[v]
    BY <1>3 DEF TypeOK, TaskTypes, DeliverBoundary, Begin, Guarded
  <2> QED
    BY <1>3, <2>1, QuietIfSame DEF DeliverBoundary, leaseVars, noticeVars,
       accountVars
<1>4. ASSUME NEW w \in Workers, NEW o \in Orders,
             \/ FulfillNothing(w, o) \/ DeliverRefused(w, o)
             \/ DeliverManual(w, o) \/ SweepClose(w, o)
      PROVE  Kinds
  <2>1. \A v \in Workers : task'[v].at \in Guarded => task'[v] = task[v]
    BY <1>4 DEF TypeOK, TaskTypes, FulfillNothing, DeliverRefused,
       DeliverManual, SweepClose, Finish, Idle, Step, Guarded
  <2> QED
    BY <1>4, <2>1, QuietIfSame DEF FulfillNothing, DeliverRefused,
       DeliverManual, SweepClose, rentalVars, leaseVars, noticeVars,
       accountVars
<1>5. ASSUME NEW o \in Orders, DeliveryDue(o)
      PROVE  Kinds
  BY <1>5, QuietIfSame DEF DeliveryDue, rentalVars, leaseVars, noticeVars,
     accountVars
<1> QED
  BY <1>1, <1>2, <1>3, <1>4, <1>5 DEF RentalServiceNext

LEMMA OrderProcessorKinds == TypeOK /\ OrderProcessorNext => Kinds
<1> SUFFICES ASSUME TypeOK, OrderProcessorNext PROVE Kinds
  OBVIOUS
<1> USE DEF Kinds
<1>1. ASSUME NEW w \in Workers, NEW o \in Orders,
             \/ RefundBusy(w, o) \/ RefundClaim(w, o) \/ RefundFinalize(w, o)
             \/ \E ok \in BOOLEAN : RefundKick(w, o, ok)
      PROVE  Kinds
  BY <1>1 DEF ActsOnRental
<1>2. ASSUME NEW w \in Workers, NEW o \in Orders, NewSale(w, o)
      PROVE  Kinds
  <2>1. \A v \in Workers : task'[v].at \in Guarded => task'[v] = task[v]
    BY <1>2 DEF TypeOK, TaskTypes, NewSale, Begin, Step, Guarded
  <2> QED
    BY <1>2, <2>1, QuietIfSame DEF NewSale, rentalVars, leaseVars, noticeVars,
       accountVars
<1>3. ASSUME NEW w \in Workers, NEW o \in Orders, RefundEnded(w, o)
      PROVE  Kinds
  <2>1. \A v \in Workers : task'[v].at \in Guarded => task'[v] = task[v]
    BY <1>3 DEF TypeOK, TaskTypes, RefundEnded, Finish, Idle, Step, Guarded
  <2>2. \A p \in Orders : Calm(p)
    BY <1>3 DEF RefundEnded, Calm, Occupies, TypeOK, RentalTypes, RentalStatus
  <2>3. /\ \A p \in Orders : target'[p] = target[p] \/ target'[p] = NoAccount
        /\ \A p \in Orders, v \in Workers : claim'[p] = v => claim[p] = v
    BY <1>3, RowsAssumption DEF RefundEnded, DropLease, TypeOK, LeaseTypes,
       leaseVars
  <2> QED
    BY <1>3, <2>1, <2>2, <2>3 DEF Quiet, RefundEnded, noticeVars, accountVars
<1>4. ASSUME NEW o \in Orders,
             SaleClosed(o) \/ \E end \in SaleEnds : RemoteEnds(o, end)
      PROVE  Kinds
  BY <1>4, QuietIfSame DEF SaleClosed, RemoteEnds, rentalVars, leaseVars,
     noticeVars, accountVars
<1> QED
  BY <1>1, <1>2, <1>3, <1>4 DEF OrderProcessorNext

LEMMA RentalExpiryKinds == TypeOK /\ RentalExpiryNext => Kinds
<1> SUFFICES ASSUME TypeOK, RentalExpiryNext PROVE Kinds
  OBVIOUS
<1> USE DEF Kinds
<1>1. ASSUME NEW w \in Workers, NEW o \in Orders,
             \/ ClaimOverdue(w, o) \/ ExpireFinalize(w, o)
             \/ \E ok \in BOOLEAN : ExpireKick(w, o, ok)
             \/ NoticeClaim(w, o)
             \/ \E ok, accepted \in BOOLEAN : NoticeSend(w, o, ok, accepted)
      PROVE  Kinds
  BY <1>1 DEF ActsOnRental
<1>2. ASSUME NEW o \in Orders, ReleaseStaleReservation(o)
      PROVE  Kinds
  BY <1>2, RowsAssumption DEF ReleaseStaleReservation, DropLease, Quiet, Calm,
     TypeOK, LeaseTypes, rentalVars, noticeVars, accountVars
<1>3. ASSUME NEW o \in Orders, TermPasses(o) \/ LeaseExpires(o)
      PROVE  Kinds
  BY <1>3, QuietIfSame DEF TermPasses, LeaseExpires, rentalVars, leaseVars,
     noticeVars, accountVars
<1> QED
  BY <1>1, <1>2, <1>3 DEF RentalExpiryNext

LEMMA CommandHandlersKinds == TypeOK /\ CommandHandlersNext => Kinds
<1> SUFFICES ASSUME TypeOK, CommandHandlersNext PROVE Kinds
  OBVIOUS
<1> USE DEF Kinds
<1>1. ASSUME NEW w \in Workers, NEW o \in Orders,
             \/ CodeSend(w, o) \/ ReplaceStart(w, o) \/ ReplaceDeclined(w, o)
             \/ ReplaceChecked(w, o) \/ ReplaceSwitch(w, o)
             \/ \E b \in Accounts : ReplaceClaim(w, o, b)
             \/ \E ok \in BOOLEAN : ReplaceKick(w, o, ok)
      PROVE  Kinds
  BY <1>1 DEF ActsOnRental
<1>2. ASSUME NEW w \in Workers, NEW o \in Orders, CodeClaim(w, o)
      PROVE  Kinds
  <2>1. \A v \in Workers : task'[v].at \in Guarded => task'[v] = task[v]
    BY <1>2 DEF TypeOK, TaskTypes, CodeClaim, Begin, Step, Guarded
  <2> QED
    BY <1>2, <2>1, QuietIfSame DEF CodeClaim, rentalVars, leaseVars,
       noticeVars, accountVars
<1>3. ASSUME NEW w \in Workers, NEW o \in Orders,
             \/ CommandTooLate(w, o) \/ CodeRefused(w, o)
             \/ ReplaceNoAccount(w, o) \/ ReplaceRefused(w, o)
             \/ ReplaceGiveUp(w, o)
      PROVE  Kinds
  <2>1. \A v \in Workers : task'[v].at \in Guarded => task'[v] = task[v]
    BY <1>3 DEF TypeOK, TaskTypes, CommandTooLate, CodeRefused,
       ReplaceNoAccount, ReplaceRefused, ReplaceGiveUp, Finish, Idle, Step,
       Guarded
  <2>2. \A p \in Orders : Calm(p)
    BY <1>3 DEF CommandTooLate, CodeRefused, ReplaceNoAccount, ReplaceRefused,
       ReplaceGiveUp, CloseOnCommand, Calm, TypeOK, RentalTypes, rentalVars
  <2>3. /\ \A p \in Orders : target'[p] = target[p] \/ target'[p] = NoAccount
        /\ \A p \in Orders, v \in Workers : claim'[p] = v => claim[p] = v
    BY <1>3, RowsAssumption DEF CommandTooLate, CodeRefused, ReplaceNoAccount,
       ReplaceRefused, ReplaceGiveUp, DropLease, TypeOK, LeaseTypes, leaseVars
  <2> QED
    BY <1>3, <2>1, <2>2, <2>3 DEF Quiet, CommandTooLate, CodeRefused,
       ReplaceNoAccount, ReplaceRefused, ReplaceGiveUp, rentalVars, noticeVars,
       accountVars
<1> QED
  BY <1>1, <1>2, <1>3 DEF CommandHandlersNext

LEMMA AccountChecksKinds ==
    TypeOK /\ NoCheckUnderBuyer /\ AccountChecksNext => Kinds
<1> SUFFICES ASSUME TypeOK, NoCheckUnderBuyer, AccountChecksNext PROVE Kinds
  OBVIOUS
<1> USE DEF Kinds
<1>1. ASSUME NEW a \in Accounts,
             EnqueueCheck(a) \/ StartCheck(a) \/ RequeueCheck(a)
      PROVE  Kinds
  BY <1>1, QuietIfSame DEF EnqueueCheck, StartCheck, RequeueCheck, restVars,
     rentalVars, leaseVars, noticeVars
<1>2. ASSUME NEW a \in Accounts,
             \/ (\E s \in AccountStatus : FinishCheck(a, s)) \/ FinishRerun(a)
             \/ Recheck(a) \/ Suspend(a)
      PROVE  Kinds
  \* the worker writes its verdict on an account it found free
  <2>1. ~Busy(a)
    BY <1>2 DEF FinishCheck, FinishRerun, Recheck, Suspend, NoCheckUnderBuyer
  <2>2. \A b \in Accounts : b # a => astatus'[b] = astatus[b]
    BY <1>2 DEF FinishCheck, FinishRerun, Recheck, Suspend, TypeOK,
       AccountTypes
  <2> QED
    BY <1>2, <2>1, <2>2 DEF Inspected, FinishCheck, FinishRerun, Recheck,
       Suspend, restVars, rentalVars, leaseVars, noticeVars
<1> QED
  BY <1>1, <1>2 DEF AccountChecksNext

LEMMA StepKinds == TypeOK /\ NoCheckUnderBuyer /\ [Next]_vars => Kinds
<1> SUFFICES ASSUME TypeOK, NoCheckUnderBuyer, [Next]_vars PROVE Kinds
  OBVIOUS
<1>1. CASE UNCHANGED vars
  BY <1>1, QuietIfSame DEF Kinds, vars, rentalVars, leaseVars, noticeVars,
     accountVars
<1>2. ASSUME NEW w \in Workers, Abandon(w)
      PROVE  Kinds
  <2>1. \A v \in Workers : task'[v].at \in Guarded => task'[v] = task[v]
    BY <1>2 DEF TypeOK, TaskTypes, Abandon, Finish, Idle, Step, Guarded
  <2> QED
    BY <1>2, <2>1, QuietIfSame DEF Kinds, Abandon, rentalVars, leaseVars,
       noticeVars, accountVars
<1> QED
  BY <1>1, <1>2, RentalServiceKinds, OrderProcessorKinds, RentalExpiryKinds,
     CommandHandlersKinds, AccountChecksKinds DEF Next
-----------------------------------------------------------------------------
(* What late writes disturb                                                *)

\* a step disturbs no account, or one account and neither rentals nor buyers
Marks ==
    \/ overruled' = overruled
    \/ /\ UNCHANGED <<rstatus, racct, access>>
       /\ \E a \in Accounts : overruled' = overruled \cup {a}

LEMMA NoMarks == UNCHANGED overruled => Marks
BY DEF Marks

LEMMA VerdictMarks ==
    ASSUME NEW w \in Workers, NEW s, Verdict(w, s)
    PROVE  \/ overruled' = overruled
           \/ \E a \in Accounts : overruled' = overruled \cup {a}
<1>1. CASE task[w].acct \in Undone(task[w].acct, s)
  <2>1. /\ task[w].acct \in Accounts
        /\ Undone(task[w].acct, s) = {task[w].acct}
    BY <1>1 DEF Undone
  <2> QED
    BY <2>1 DEF Verdict
<1>2. CASE task[w].acct \notin Undone(task[w].acct, s)
  <2>1. Undone(task[w].acct, s) = {}
    BY <1>2 DEF Undone
  <2> QED
    BY <2>1 DEF Verdict
<1> QED
  BY <1>1, <1>2

LEMMA RentalServiceMarks == TypeOK /\ RentalServiceNext => Marks
<1> SUFFICES ASSUME TypeOK, RentalServiceNext PROVE Marks
  OBVIOUS
<1>1. ASSUME NEW w \in Workers, NEW o \in Orders, SweepClose(w, o)
      PROVE  Marks
  BY <1>1 DEF SweepClose, Marks, Occupies, TypeOK, RentalTypes, rentalVars
\* the other actions disturb nothing
<1>2. ASSUME NEW w \in Workers, NEW o \in Orders,
             \/ \E a \in Accounts : FulfillNew(w, o, a) \/ Reallocate(w, o, a)
             \/ FulfillAgain(w, o) \/ FulfillNothing(w, o)
             \/ DeliverRefused(w, o) \/ DeliverManual(w, o)
             \/ DeliverBoundary(w, o) \/ DeliverSent(w, o)
             \/ DeliverFailed(w, o) \/ DeliverCrash(w, o)
             \/ OperatorRetry(w, o)
      PROVE  Marks
  BY <1>2, NoMarks DEF FulfillNew, Reallocate, FulfillAgain, FulfillNothing,
     DeliverRefused, DeliverManual, DeliverBoundary, DeliverSent,
     DeliverFailed, DeliverCrash, OperatorRetry, accountVars
<1>3. ASSUME NEW o \in Orders, DeliveryDue(o)
      PROVE  Marks
  BY <1>3, NoMarks DEF DeliveryDue, accountVars
<1> QED
  BY <1>1, <1>2, <1>3 DEF RentalServiceNext

LEMMA OrderProcessorMarks == OrderProcessorNext => Marks
<1> SUFFICES ASSUME OrderProcessorNext PROVE UNCHANGED overruled
  BY NoMarks
<1>1. ASSUME NEW w \in Workers, NEW o \in Orders,
             \/ NewSale(w, o) \/ RefundEnded(w, o) \/ RefundBusy(w, o)
             \/ RefundClaim(w, o) \/ RefundFinalize(w, o)
             \/ \E ok \in BOOLEAN : RefundKick(w, o, ok)
      PROVE  UNCHANGED overruled
  BY <1>1 DEF NewSale, RefundEnded, RefundBusy, RefundClaim, RefundKick,
     RefundFinalize, accountVars
<1>2. ASSUME NEW o \in Orders,
             SaleClosed(o) \/ \E end \in SaleEnds : RemoteEnds(o, end)
      PROVE  UNCHANGED overruled
  BY <1>2 DEF SaleClosed, RemoteEnds, accountVars
<1> QED
  BY <1>1, <1>2 DEF OrderProcessorNext

LEMMA RentalExpiryMarks == RentalExpiryNext => Marks
<1> SUFFICES ASSUME RentalExpiryNext PROVE UNCHANGED overruled
  BY NoMarks
<1>1. ASSUME NEW w \in Workers, NEW o \in Orders,
             \/ ClaimOverdue(w, o) \/ ExpireFinalize(w, o)
             \/ \E ok \in BOOLEAN : ExpireKick(w, o, ok)
             \/ NoticeClaim(w, o)
             \/ \E ok, accepted \in BOOLEAN : NoticeSend(w, o, ok, accepted)
      PROVE  UNCHANGED overruled
  BY <1>1 DEF ClaimOverdue, ExpireFinalize, ExpireKick, NoticeClaim,
     NoticeSend, accountVars
<1>2. ASSUME NEW o \in Orders,
             ReleaseStaleReservation(o) \/ TermPasses(o) \/ LeaseExpires(o)
      PROVE  UNCHANGED overruled
  BY <1>2 DEF ReleaseStaleReservation, TermPasses, LeaseExpires, accountVars
<1> QED
  BY <1>1, <1>2 DEF RentalExpiryNext

LEMMA CommandHandlersMarks == CommandHandlersNext => Marks
<1> SUFFICES ASSUME CommandHandlersNext PROVE Marks
  OBVIOUS
<1>1. ASSUME NEW w \in Workers, NEW o \in Orders,
             ReplaceDeclined(w, o) \/ ReplaceChecked(w, o)
      PROVE  Marks
  <2>1. Verdict(w, "active") \/ Verdict(w, "validation_failed")
    BY <1>1 DEF ReplaceDeclined, ReplaceChecked
  <2>2. UNCHANGED <<rstatus, racct, access>>
    BY <1>1 DEF ReplaceDeclined, ReplaceChecked, rentalVars
  <2> QED
    BY <2>1, <2>2, VerdictMarks DEF Marks
\* the other actions disturb nothing
<1>2. ASSUME NEW w \in Workers, NEW o \in Orders,
             \/ CommandTooLate(w, o) \/ CodeClaim(w, o) \/ CodeSend(w, o)
             \/ CodeRefused(w, o) \/ ReplaceStart(w, o)
             \/ \E b \in Accounts : ReplaceClaim(w, o, b)
             \/ ReplaceNoAccount(w, o) \/ ReplaceRefused(w, o)
             \/ \E ok \in BOOLEAN : ReplaceKick(w, o, ok)
             \/ ReplaceSwitch(w, o) \/ ReplaceGiveUp(w, o)
      PROVE  Marks
  BY <1>2, NoMarks DEF CommandTooLate, CodeClaim, CodeSend, CodeRefused,
     ReplaceStart, ReplaceClaim, ReplaceNoAccount, ReplaceRefused,
     ReplaceKick, ReplaceSwitch, ReplaceGiveUp, accountVars
<1> QED
  BY <1>1, <1>2 DEF CommandHandlersNext

LEMMA AccountChecksMarks == AccountChecksNext => Marks
BY NoMarks DEF AccountChecksNext, EnqueueCheck, StartCheck, FinishCheck,
   FinishRerun, RequeueCheck, Recheck, Suspend, restVars

LEMMA StepMarks == TypeOK /\ [Next]_vars => Marks
<1> SUFFICES ASSUME TypeOK, [Next]_vars PROVE Marks
  OBVIOUS
<1>1. CASE UNCHANGED vars
  BY <1>1, NoMarks DEF vars, accountVars
<1>2. ASSUME NEW w \in Workers, Abandon(w)
      PROVE  Marks
  BY <1>2, NoMarks DEF Abandon, accountVars
<1> QED
  BY <1>1, <1>2, RentalServiceMarks, OrderProcessorMarks, RentalExpiryMarks,
     CommandHandlersMarks, AccountChecksMarks DEF Next

-----------------------------------------------------------------------------
(* An account reserved for a replacement stays sellable                    *)

\* only a rental that was delivered reserves an account, and not its own
ReservedElsewhere ==
    \A o \in Orders :
      target[o] # NoAccount =>
        target[o] # racct[o] /\ rstatus[o] # "none" /\ ~InitialUnsent(o)

IRows == TypeOK /\ Exclusive /\ NoCheckUnderBuyer /\ SentCounted

IReserve == ReservedElsewhere /\ ReservationKept

\* no rental moves, begins or reserves an account
NoNewReservation ==
    /\ UNCHANGED racct
    /\ \A o \in Orders : rstatus[o] # "none" => rstatus'[o] # "none"
    /\ \A o \in Orders : target'[o] = target[o] \/ target'[o] = NoAccount

\* an account goes out of use only by the order that lives on it, when it is
\* free, or by a late verdict
OwnStatusOnly ==
    \A o \in Orders, a \in Accounts :
      Holds(o, a) /\ racct[o] # a /\ astatus[a] = "active"
        => astatus'[a] = "active" \/ a \in overruled'

LEMMA ReservationsKept ==
    ASSUME IRows, IReserve, StaysCounted, NoNewReservation
    PROVE  ReservedElsewhere'
BY DEF IReserve, ReservedElsewhere, StaysCounted, NoNewReservation

LEMMA StatusesKept ==
    ASSUME IRows, IReserve, Marks, NoNewReservation, OwnStatusOnly
    PROVE  ReservationKept'
<1> SUFFICES ASSUME NEW o \in Orders, target'[o] \in Accounts,
                    target'[o] \notin overruled'
             PROVE  astatus'[target'[o]] = "active"
  BY DEF ReservationKept
<1>1. /\ target'[o] = target[o] /\ target[o] \in Accounts \ overruled
      /\ target[o] # NoAccount
  BY RowsAssumption DEF NoNewReservation, Marks
<1>2. astatus[target[o]] = "active" /\ target[o] # racct[o]
  BY <1>1 DEF IReserve, ReservationKept, ReservedElsewhere
<1> QED
  BY <1>1, <1>2 DEF OwnStatusOnly, Holds

\* a step that reserves no account
LEMMA FrameReserve ==
    ASSUME IRows, IReserve, Marks, StaysCounted, NoNewReservation,
           OwnStatusOnly
    PROVE  IReserve'
BY ReservationsKept, StatusesKept DEF IReserve

\* what all steps of this part share
ReservedSoFar == IRows /\ IReserve /\ Marks /\ StaysCounted

\* what a transaction does to the operations in flight
LEMMA BegunTask ==
    ASSUME TypeOK, NEW w \in Workers, NEW s, Begin(w, s)
    PROVE  task'[w] = s /\ \A v \in Workers : v # w => task'[v] = task[v]
BY DEF TypeOK, TaskTypes, Begin

LEMMA FinishedTask ==
    ASSUME TypeOK, NEW w \in Workers, Finish(w)
    PROVE  /\ task'[w].at = "idle"
           /\ \A v \in Workers : v # w => task'[v] = task[v]
BY DEF TypeOK, TaskTypes, Finish, Idle, Step

LEMMA KickedTask ==
    ASSUME TypeOK, NEW w \in Workers, NEW at, NEW ok,
           Begin(w, [task[w] EXCEPT !.at = at, !.ok = ok])
    PROVE  /\ task'[w].at = at /\ task'[w].ok = ok
           /\ task'[w].ord = task[w].ord /\ task'[w].acct = task[w].acct
           /\ task'[w].tgt = task[w].tgt
           /\ \A v \in Workers : v # w => task'[v] = task[v]
<1>1. task[w] \in Tasks
  BY DEF TypeOK, TaskTypes
<1>2. task'[w] = [task[w] EXCEPT !.at = at, !.ok = ok]
  BY BegunTask
<1> QED
  BY <1>1, <1>2, BegunTask DEF Tasks

\* w's operation goes on to a stage that guards nothing, or ends
Released(w) ==
    /\ task'[w].at \notin Guarded
    /\ \A v \in Workers : v # w => task'[v] = task[v]

\* w's operation starts as s, or goes on as s
Becomes(w, s) ==
    /\ task'[w] = s
    /\ \A v \in Workers : v # w => task'[v] = task[v]

LEMMA ReleasedIfFinished ==
    ASSUME TypeOK, NEW w \in Workers, Finish(w) PROVE Released(w)
BY FinishedTask DEF Released, Guarded

LEMMA BecomesIfBegun ==
    ASSUME TypeOK, NEW w \in Workers, NEW s, Begin(w, s) PROVE Becomes(w, s)
BY BegunTask DEF Becomes

\* the actions after which an operation guards nothing
Ending(w, o) ==
    \/ \E a \in Accounts : FulfillNew(w, o, a) \/ Reallocate(w, o, a)
    \/ DeliverSent(w, o) \/ DeliverFailed(w, o) \/ DeliverCrash(w, o)
    \/ CodeSend(w, o)
    \/ RefundBusy(w, o) \/ RefundFinalize(w, o) \/ ExpireFinalize(w, o)
    \/ \E ok, accepted \in BOOLEAN : NoticeSend(w, o, ok, accepted)
    \/ ReplaceDeclined(w, o) \/ ReplaceSwitch(w, o)

LEMMA EndingReleases ==
    ASSUME TypeOK, NEW w \in Workers, NEW o \in Orders, Ending(w, o)
    PROVE  Released(w)
<1>1. ASSUME NEW a \in Accounts, FulfillNew(w, o, a)
      PROVE  Released(w)
  <2>1. Begin(w, [Step("deliver", o, NoAccount) EXCEPT !.ok = WillClose(w, o)])
    BY <1>1 DEF FulfillNew, Delivering
  <2> QED
    BY <2>1, BecomesIfBegun DEF Becomes, Released, Step, Guarded
<1>2. ASSUME NEW a \in Accounts, Reallocate(w, o, a)
      PROVE  Released(w)
  <2>1. task[w] \in Tasks
    BY DEF TypeOK, TaskTypes
  <2>2. Becomes(w, [task[w] EXCEPT !.at = "moved", !.acct = a])
    BY <1>2, BecomesIfBegun DEF Reallocate
  <2> QED
    BY <2>1, <2>2 DEF Becomes, Released, Tasks, Guarded
<1>3. CASE DeliverSent(w, o)
  <2>1. Begin(w, Step("closing", o, NoAccount)) \/ Finish(w)
    BY <1>3 DEF DeliverSent
  <2> QED
    BY <2>1, BecomesIfBegun, ReleasedIfFinished
    DEF Becomes, Released, Step, Guarded
<1>4. CASE ReplaceSwitch(w, o)
  <2>1. Begin(w, Step("deliver", o, NoAccount))
    BY <1>4 DEF ReplaceSwitch
  <2> QED
    BY <2>1, BecomesIfBegun DEF Becomes, Released, Step, Guarded
\* the others end the operation
<1>5. CASE \/ DeliverFailed(w, o) \/ DeliverCrash(w, o) \/ CodeSend(w, o)
           \/ RefundBusy(w, o) \/ RefundFinalize(w, o)
           \/ ExpireFinalize(w, o) \/ ReplaceDeclined(w, o)
           \/ \E ok, accepted \in BOOLEAN : NoticeSend(w, o, ok, accepted)
  <2>1. Finish(w)
    BY <1>5 DEF DeliverFailed, DeliverCrash, CodeSend, RefundBusy,
       RefundFinalize, ExpireFinalize, ReplaceDeclined, NoticeSend
  <2> QED
    BY <2>1, ReleasedIfFinished
<1> QED
  BY <1>1, <1>2, <1>3, <1>4, <1>5 DEF Ending

\* the claims, each with the operation it starts
Starts(w, at, o, a) ==
    /\ task'[w].at = at /\ task'[w].ord = o /\ task'[w].acct = a
    /\ task'[w].ok = FALSE
    /\ \A v \in Workers : v # w => task'[v] = task[v]

LEMMA StartsIfBegun ==
    ASSUME TypeOK, NEW w \in Workers, NEW at, NEW o, NEW a,
           Begin(w, Step(at, o, a))
    PROVE  Starts(w, at, o, a)
BY BegunTask DEF Starts, Step

LEMMA ClaimsBegin ==
    ASSUME TypeOK, NEW w \in Workers, NEW o \in Orders
    PROVE  /\ RefundClaim(w, o)  => Starts(w, "refund", o, racct[o])
           /\ ClaimOverdue(w, o) => Starts(w, "expire", o, racct[o])
           /\ NoticeClaim(w, o)  => Starts(w, "notify", o, NoAccount)
BY StartsIfBegun DEF RefundClaim, ClaimOverdue, NoticeClaim

\* w's logout ran; only then is the stage past it
Kicked(w, at, ok) ==
    /\ task'[w].at = at /\ task'[w].ok = ok
    /\ task'[w].ord = task[w].ord /\ task'[w].acct = task[w].acct
    /\ task'[w].tgt = task[w].tgt
    /\ \A v \in Workers : v # w => task'[v] = task[v]

LEMMA KicksGoOn ==
    ASSUME TypeOK, NEW w \in Workers, NEW o \in Orders, NEW ok \in BOOLEAN
    PROVE  /\ RefundKick(w, o, ok)  => Kicked(w, "refund_kicked", ok)
           /\ ExpireKick(w, o, ok)  => Kicked(w, "expire_kicked", ok)
           /\ ReplaceKick(w, o, ok) => Kicked(w, "replace_kicked", ok)
BY KickedTask DEF RefundKick, ExpireKick, ReplaceKick, Kicked

LEMMA QuietReserve == ReservedSoFar /\ Quiet => IReserve'
<1> SUFFICES ASSUME ReservedSoFar, Quiet PROVE IReserve'
  OBVIOUS
<1>1. NoNewReservation
  BY DEF Quiet, NoNewReservation, Calm
<1>2. OwnStatusOnly
  BY DEF Quiet, OwnStatusOnly
<1> QED
  BY <1>1, <1>2, FrameReserve DEF ReservedSoFar

LEMMA InspectedReserve == ReservedSoFar /\ Inspected => IReserve'
<1> SUFFICES ASSUME ReservedSoFar, Inspected PROVE IReserve'
  OBVIOUS
<1>1. NoNewReservation
  BY DEF Inspected, NoNewReservation
<1>2. OwnStatusOnly
  BY DEF Inspected, OwnStatusOnly, Busy
<1> QED
  BY <1>1, <1>2, FrameReserve DEF ReservedSoFar

\* an action that puts the account the order rents in maintenance, or leaves
\* the accounts alone
LEMMA OwnMaintenance ==
    ASSUME IRows, NEW p \in Orders, Occupies(p),
           astatus' = [astatus EXCEPT ![racct[p]] = "maintenance"]
    PROVE  OwnStatusOnly
BY DEF IRows, TypeOK, AccountTypes, Exclusive, Holds, OwnStatusOnly

LEMMA SameStatuses == UNCHANGED astatus => OwnStatusOnly
BY DEF OwnStatusOnly

\* the actions of these components that are not quiet
LEMMA ServiceReserve ==
    ASSUME ReservedSoFar, NEW w \in Workers, NEW o \in Orders,
           \/ DeliverSent(w, o) \/ DeliverFailed(w, o) \/ DeliverCrash(w, o)
           \/ CodeSend(w, o)
    PROVE  IReserve'
<1>1. NoNewReservation
  BY DEF DeliverSent, DeliverFailed, DeliverCrash, CodeSend, rentalVars,
     leaseVars, NoNewReservation
<1>2. OwnStatusOnly
  BY SameStatuses DEF DeliverSent, DeliverFailed, DeliverCrash, CodeSend,
     accountVars
<1> QED
  BY <1>1, <1>2, FrameReserve DEF ReservedSoFar

LEMMA RefundReserve ==
    ASSUME ReservedSoFar, NEW w \in Workers, NEW o \in Orders,
           \/ RefundBusy(w, o) \/ RefundClaim(w, o) \/ RefundFinalize(w, o)
           \/ \E ok \in BOOLEAN : RefundKick(w, o, ok)
    PROVE  IReserve'
<1>0. TypeOK /\ IRows
  BY DEF ReservedSoFar, IRows
<1>1. NoNewReservation
  BY <1>0 DEF RefundBusy, RefundClaim, RefundFinalize, RefundKick, rentalVars,
     leaseVars, NoNewReservation, TypeOK, RentalTypes, LeaseTypes
<1>2. OwnStatusOnly
  BY <1>0, OwnMaintenance, SameStatuses DEF RefundBusy, RefundClaim,
     RefundFinalize, RefundKick, accountVars
<1> QED
  BY <1>1, <1>2, FrameReserve DEF ReservedSoFar

LEMMA ExpiryReserve ==
    ASSUME ReservedSoFar, NEW w \in Workers, NEW o \in Orders,
           \/ ClaimOverdue(w, o) \/ ExpireFinalize(w, o) \/ NoticeClaim(w, o)
           \/ \E ok \in BOOLEAN : ExpireKick(w, o, ok)
           \/ \E ok, accepted \in BOOLEAN : NoticeSend(w, o, ok, accepted)
    PROVE  IReserve'
<1>0. TypeOK /\ IRows
  BY DEF ReservedSoFar, IRows
<1>1. NoNewReservation
  BY <1>0 DEF ClaimOverdue, ExpireFinalize, NoticeClaim, ExpireKick,
     NoticeSend, rentalVars, leaseVars, NoNewReservation, TypeOK, RentalTypes,
     LeaseTypes
<1>2. OwnStatusOnly
  BY <1>0, OwnMaintenance, SameStatuses DEF ClaimOverdue, ExpireFinalize,
     NoticeClaim, ExpireKick, NoticeSend, accountVars, Overdue
<1> QED
  BY <1>1, <1>2, FrameReserve DEF ReservedSoFar

\* the order gets an account, and had none reserved
LEMMA RentReserve ==
    ASSUME ReservedSoFar, NEW w \in Workers, NEW o \in Orders,
           NEW a \in Accounts, FulfillNew(w, o, a) \/ Reallocate(w, o, a)
    PROVE  IReserve'
<1>1. target[o] = NoAccount
  BY DEF FulfillNew, Reallocate, ReservedSoFar, IReserve, ReservedElsewhere
<1>2. ReservedElsewhere'
  BY <1>1 DEF FulfillNew, Reallocate, ReservedSoFar, IReserve,
     ReservedElsewhere, StaysCounted, leaseVars, IRows, TypeOK, RentalTypes
<1>3. ReservationKept'
  BY DEF FulfillNew, Reallocate, ReservedSoFar, IReserve, ReservationKept,
     leaseVars, accountVars
<1> QED
  BY <1>2, <1>3 DEF IReserve

\* a late verdict disturbs the account it takes from a reservation
LEMMA VerdictOwn ==
    ASSUME IRows, NEW w \in Workers, NEW s, Verdict(w, s)
    PROVE  OwnStatusOnly
<1> SUFFICES ASSUME NEW o \in Orders, NEW a \in Accounts, target[o] = a,
                    astatus[a] = "active", astatus'[a] # "active"
             PROVE  a \in overruled'
  BY DEF OwnStatusOnly, Holds
<1>1. a = task[w].acct /\ task[w].was # s /\ s # "active"
  BY DEF Verdict, IRows, TypeOK, AccountTypes
<1>2. a \in Undone(a, s)
  BY <1>1, RowsAssumption DEF Undone
<1> QED
  BY <1>1, <1>2 DEF Verdict

\* the validator of a !replace starts, or ends with a verdict; or the account
\* that is left is logged out
LEMMA ValidatorReserve ==
    ASSUME ReservedSoFar, NEW w \in Workers, NEW o \in Orders,
           \/ ReplaceStart(w, o) \/ ReplaceDeclined(w, o)
           \/ ReplaceChecked(w, o)
           \/ \E ok \in BOOLEAN : ReplaceKick(w, o, ok)
    PROVE  IReserve'
<1>1. NoNewReservation
  BY DEF ReplaceStart, ReplaceDeclined, ReplaceChecked, ReplaceKick,
     rentalVars, leaseVars, NoNewReservation, ReservedSoFar, IRows, TypeOK,
     LeaseTypes
<1>2. OwnStatusOnly
  BY VerdictOwn, SameStatuses DEF ReplaceStart, ReplaceDeclined,
     ReplaceChecked, ReplaceKick, accountVars, ReservedSoFar
<1> QED
  BY <1>1, <1>2, FrameReserve DEF ReservedSoFar

\* the validator's work is done, the replacement goes on
LEMMA CheckedTask ==
    ASSUME TypeOK, NEW w \in Workers, NEW o \in Orders, ReplaceChecked(w, o)
    PROVE  /\ At(w, "check") /\ task[w].ord = o
           /\ task'[w].at = "checked" /\ task'[w].ord = o
           /\ task'[w].acct = task[w].acct
           /\ \A v \in Workers : v # w => task'[v] = task[v]
<1>1. task[w] \in Tasks /\ task[w].ord = o
  BY DEF ReplaceChecked, TypeOK, TaskTypes
<1>2. Becomes(w, [task[w] EXCEPT !.at = "checked"])
  BY BecomesIfBegun DEF ReplaceChecked
<1> QED
  BY <1>1, <1>2 DEF ReplaceChecked, Becomes, Tasks

\* the replacement reserves b, which the pool found free
LEMMA ClaimedTask ==
    ASSUME TypeOK, NEW w \in Workers, NEW o \in Orders, NEW b \in Accounts,
           ReplaceClaim(w, o, b)
    PROVE  /\ At(w, "checked") /\ task[w].ord = o
           /\ task'[w].at = "replace" /\ task'[w].ord = o
           /\ task'[w].acct = task[w].acct /\ task'[w].tgt = b
           /\ \A v \in Workers : v # w => task'[v] = task[v]
<1>1. task[w] \in Tasks /\ At(w, "checked") /\ task[w].ord = o
  BY DEF ReplaceClaim, MayReplace, TypeOK, TaskTypes
<1>2. Becomes(w, [task[w] EXCEPT !.at = "replace", !.tgt = b])
  BY BecomesIfBegun DEF ReplaceClaim
<1> QED
  BY <1>1, <1>2 DEF Becomes, Tasks

LEMMA ClaimReserve ==
    ASSUME ReservedSoFar, NEW w \in Workers, NEW o \in Orders,
           NEW b \in Accounts, ReplaceClaim(w, o, b)
    PROVE  IReserve'
<1>0. TypeOK /\ IRows /\ IReserve /\ Marks /\ StaysCounted
  BY DEF ReservedSoFar, IRows
<1>1. /\ UNCHANGED <<rstatus, racct>> /\ Occupies(o) /\ dstatus[o] = "sent"
      /\ Allocatable(o, b)
      /\ target'[o] = b /\ \A p \in Orders : p # o => target'[p] = target[p]
      /\ astatus' = [astatus EXCEPT ![racct[o]] = "maintenance"]
  BY <1>0 DEF ReplaceClaim, MayReplace, Replaceable, Authorised, Occupies,
     TypeOK, LeaseTypes, rentalVars
<1>2. ReservedElsewhere'
  BY <1>0, <1>1, RowsAssumption DEF IReserve, ReservedElsewhere, StaysCounted,
     IRows, SentCounted, Allocatable, Occupies
<1>3. OwnStatusOnly
  BY <1>0, <1>1, OwnMaintenance
<1>4. ReservationKept'
  <2> SUFFICES ASSUME NEW p \in Orders, target'[p] \in Accounts,
                      target'[p] \notin overruled'
               PROVE  astatus'[target'[p]] = "active"
    BY DEF ReservationKept
  <2>1. CASE p = o
    \* b was active, and is not the account that goes into maintenance
    BY <1>0, <1>1, <2>1 DEF Allocatable, TypeOK, AccountTypes
  <2>2. CASE p # o
    <3>1. target[p] = target'[p] /\ target[p] \notin overruled
      BY <1>0, <1>1, <2>2 DEF Marks
    <3>2. astatus[target[p]] = "active" /\ target[p] # racct[p]
      BY <1>0, <3>1, RowsAssumption
      DEF IReserve, ReservationKept, ReservedElsewhere
    <3> QED
      BY <1>3, <3>1, <3>2 DEF OwnStatusOnly, Holds
  <2> QED
    BY <2>1, <2>2
<1> QED
  BY <1>2, <1>4 DEF IReserve

\* the rental moves to the account it had reserved
LEMMA SwitchReserve ==
    ASSUME ReservedSoFar, NEW w \in Workers, NEW o \in Orders,
           ReplaceSwitch(w, o)
    PROVE  IReserve'
<1>0. TypeOK /\ IReserve /\ StaysCounted
  BY DEF ReservedSoFar, IRows
<1>1. /\ target'[o] = NoAccount
      /\ \A p \in Orders : p # o =>
           target'[p] = target[p] /\ racct'[p] = racct[p]
      /\ UNCHANGED <<rstatus, astatus, overruled>>
  BY <1>0 DEF ReplaceSwitch, TypeOK, LeaseTypes, RentalTypes
<1>2. ReservedElsewhere' /\ ReservationKept'
  BY <1>0, <1>1, RowsAssumption
  DEF IReserve, ReservedElsewhere, ReservationKept, StaysCounted
<1> QED
  BY <1>2 DEF IReserve

LEMMA ReserveStep == ReservedSoFar /\ Kinds => IReserve'
<1> SUFFICES ASSUME ReservedSoFar, Kinds PROVE IReserve'
  OBVIOUS
<1>1. ASSUME NEW w \in Workers, NEW o \in Orders, ActsOnRental(w, o)
      PROVE  IReserve'
  BY <1>1, ServiceReserve, RefundReserve, ExpiryReserve, RentReserve,
     ValidatorReserve, ClaimReserve, SwitchReserve DEF ActsOnRental
<1> QED
  BY <1>1, QuietReserve, InspectedReserve DEF Kinds

LEMMA ReserveInit == Init => IReserve
BY RowsAssumption DEF Init, IReserve, ReservedElsewhere, ReservationKept

\* what the earlier theorems say of every reachable state
IRowsWith == IRows /\ Counted /\ NoExpiryBeforeSend

LEMMA RowsStep ==
    IRowsWith /\ [Next]_vars =>
      /\ IRowsWith'
      /\ StaysCounted /\ Kinds /\ Marks
<1> SUFFICES ASSUME IRowsWith, [Next]_vars
             PROVE  IRowsWith' /\ StaysCounted /\ Kinds /\ Marks
  OBVIOUS
<1> USE DEF IRowsWith, IRows
<1>1. GainsAtMostOne /\ StaysCounted /\ ChecksStartFree /\ Kinds /\ Marks
  BY StepGains, StepAttempts, StepJobs, StepKinds, StepMarks
<1>2. TypeOK' /\ Exclusive' /\ NoCheckUnderBuyer'
  BY <1>1, TypeStep, ExclusiveStep, NoCheckStep
<1>3. Counted' /\ SentCounted' /\ NoExpiryBeforeSend'
  BY <1>1, StepCounts, StepSends, StepEnds DEF IExpiry
<1> QED
  BY <1>1, <1>2, <1>3

LEMMA RowsInit == Init => IRowsWith
<1> SUFFICES ASSUME Init PROVE IRowsWith
  OBVIOUS
<1>1. Counted /\ SentCounted /\ NoExpiryBeforeSend /\ NoCheckUnderBuyer
  BY DEF Init, Counted, SentCounted, NoExpiryBeforeSend, NoCheckUnderBuyer,
     At, Idle, Step
<1> QED
  BY <1>1, TypeInit, ExclusiveInit DEF IRowsWith, IRows

\* The account reserved for a replacement stays sellable until the switch or
\* the release of the reservation: no check, no operator and no other order
\* takes it out of the pool.  Only the verdict of a !replace validator that is
\* still logged in to it from an earlier rental does.
THEOREM ReservationStays == Spec => []ReservationKept
<1> DEFINE I == IRowsWith /\ IReserve
<1>1. Init => I
  BY RowsInit, ReserveInit
<1>2. I /\ [Next]_vars => I'
  BY RowsStep, ReserveStep DEF ReservedSoFar, IRowsWith
<1>3. I => ReservationKept
  BY DEF IReserve
<1> QED
  BY <1>1, <1>2, <1>3, PTL DEF Spec

-----------------------------------------------------------------------------
(* What a step may do to a rental, to an operation, to who knows secrets   *)

\* a rental does not come back to life, and an ended one stays ended
RentalsGoOn ==
    \A o \in Orders :
      /\ rstatus'[o] = "active" => rstatus[o] \in {"none", "active"}
      /\ rstatus[o] # "none" => rstatus'[o] # "none"
      /\ rstatus[o] \in {"expired", "refunded"}
           => rstatus'[o] \in {"expired", "refunded"}

LEMMA RentalsStep == TypeOK /\ Kinds => RentalsGoOn
<1> SUFFICES ASSUME TypeOK, Kinds PROVE RentalsGoOn
  OBVIOUS
<1>1. CASE Quiet
  BY <1>1 DEF Quiet, Calm, RentalsGoOn, TypeOK, RentalTypes
<1>2. CASE Inspected
  BY <1>2 DEF Inspected, RentalsGoOn
<1>3. ASSUME NEW w \in Workers, NEW o \in Orders,
             \/ \E a \in Accounts : FulfillNew(w, o, a)
             \/ RefundFinalize(w, o) \/ ClaimOverdue(w, o)
             \/ ExpireFinalize(w, o)
      PROVE  RentalsGoOn
  BY <1>3 DEF FulfillNew, RefundFinalize, ClaimOverdue, ExpireFinalize,
     RefundMatches, ExpireMatches, Overdue, Occupies, RentalsGoOn, TypeOK,
     RentalTypes
\* the other actions leave the status of the rental alone
<1>4. ASSUME NEW w \in Workers, NEW o \in Orders,
             \/ \E a \in Accounts : Reallocate(w, o, a) \/ ReplaceClaim(w, o, a)
             \/ DeliverSent(w, o) \/ DeliverFailed(w, o) \/ DeliverCrash(w, o)
             \/ CodeSend(w, o) \/ RefundBusy(w, o) \/ RefundClaim(w, o)
             \/ NoticeClaim(w, o)
             \/ \E ok \in BOOLEAN : \/ RefundKick(w, o, ok)
                                    \/ ExpireKick(w, o, ok)
                                    \/ ReplaceKick(w, o, ok)
             \/ \E ok, accepted \in BOOLEAN : NoticeSend(w, o, ok, accepted)
             \/ ReplaceStart(w, o) \/ ReplaceDeclined(w, o)
             \/ ReplaceChecked(w, o) \/ ReplaceSwitch(w, o)
      PROVE  RentalsGoOn
  <2>1. rstatus' = rstatus
    BY <1>4 DEF Reallocate, ReplaceClaim, DeliverSent, DeliverFailed,
       DeliverCrash, CodeSend, RefundBusy, RefundClaim, NoticeClaim,
       RefundKick, ExpireKick, ReplaceKick, NoticeSend, ReplaceStart,
       ReplaceDeclined, ReplaceChecked, ReplaceSwitch, rentalVars
  <2> QED
    BY <2>1 DEF RentalsGoOn
<1> QED
  BY <1>1, <1>2, <1>3, <1>4 DEF Kinds, ActsOnRental

\* an operation in one of these stages was in one of them before
Stays(v, stages) ==
    task'[v].at \in stages =>
      /\ task[v].at \in stages
      /\ task'[v].ord = task[v].ord /\ task'[v].acct = task[v].acct

RefundStages == {"refund", "refund_kicked"}
ExpiryStages == {"expire", "expire_kicked"}

\* the operations that claim a rental for a logout or a notice
Origins ==
    \A v \in Workers :
      /\ \/ Stays(v, RefundStages)
         \/ \E o \in Orders :
              RefundClaim(v, o) /\ Starts(v, "refund", o, racct[o])
      /\ \/ Stays(v, ExpiryStages)
         \/ \E o \in Orders :
              ClaimOverdue(v, o) /\ Starts(v, "expire", o, racct[o])
      /\ \/ Stays(v, {"notify"})
         \/ \E o \in Orders :
              NoticeClaim(v, o) /\ Starts(v, "notify", o, NoAccount)

\* no operation enters one of the guarded stages, or goes on in one
NoNewGuard == \A v \in Workers : task'[v].at \in Guarded => task'[v] = task[v]

LEMMA EndingGuard ==
    ASSUME TypeOK, NEW w \in Workers, NEW o \in Orders, Ending(w, o)
    PROVE  NoNewGuard
BY EndingReleases DEF Released, NoNewGuard

LEMMA StaysIfNoNewGuard == NoNewGuard => Origins
BY DEF NoNewGuard, Origins, Stays, Guarded, RefundStages, ExpiryStages

\* the stages an operation goes through after a !replace has started
LEMMA ReplacementMoves ==
    ASSUME TypeOK, NEW w \in Workers, NEW o \in Orders,
           \/ ReplaceStart(w, o) \/ ReplaceChecked(w, o)
           \/ \E b \in Accounts : ReplaceClaim(w, o, b)
           \/ \E ok \in BOOLEAN : ReplaceKick(w, o, ok)
    PROVE  /\ task'[w].at \in {"check", "checked"} \cup Reserving
           /\ \A v \in Workers : v # w => task'[v] = task[v]
<1>1. CASE ReplaceStart(w, o)
  <2>1. Becomes(w, [Step("check", o, racct[o]) EXCEPT
                      !.was = astatus[racct[o]]])
    BY <1>1, BecomesIfBegun DEF ReplaceStart
  <2> QED
    BY <2>1 DEF Becomes, Step
<1>2. CASE ReplaceChecked(w, o)
  BY <1>2, CheckedTask
<1>3. ASSUME NEW b \in Accounts, ReplaceClaim(w, o, b)
      PROVE  /\ task'[w].at \in {"check", "checked"} \cup Reserving
             /\ \A v \in Workers : v # w => task'[v] = task[v]
  BY <1>3, ClaimedTask DEF Reserving
<1>4. ASSUME NEW ok \in BOOLEAN, ReplaceKick(w, o, ok)
      PROVE  /\ task'[w].at \in {"check", "checked"} \cup Reserving
             /\ \A v \in Workers : v # w => task'[v] = task[v]
  BY <1>4, KicksGoOn DEF Kicked, Reserving
<1> QED
  BY <1>1, <1>2, <1>3, <1>4

LEMMA OriginsStep == TypeOK /\ Kinds => Origins
<1> SUFFICES ASSUME TypeOK, Kinds PROVE Origins
  OBVIOUS
<1>1. CASE Quiet
  BY <1>1, StaysIfNoNewGuard DEF Quiet, NoNewGuard
<1>2. CASE Inspected
  BY <1>2, StaysIfNoNewGuard DEF Inspected, NoNewGuard
<1>3. ASSUME NEW w \in Workers, NEW o \in Orders, Ending(w, o)
      PROVE  Origins
  BY <1>3, EndingGuard, StaysIfNoNewGuard
<1>4. ASSUME NEW w \in Workers, NEW o \in Orders,
             RefundClaim(w, o) \/ ClaimOverdue(w, o) \/ NoticeClaim(w, o)
      PROVE  Origins
  BY <1>4, ClaimsBegin DEF Starts, Origins, Stays, RefundStages, ExpiryStages
<1>5. ASSUME NEW w \in Workers, NEW o \in Orders,
             \/ ReplaceStart(w, o) \/ ReplaceChecked(w, o)
             \/ \E b \in Accounts : ReplaceClaim(w, o, b)
             \/ \E ok \in BOOLEAN : ReplaceKick(w, o, ok)
      PROVE  Origins
  BY <1>5, ReplacementMoves DEF Origins, Stays, RefundStages, ExpiryStages,
     Reserving
<1>6. ASSUME NEW w \in Workers, NEW o \in Orders, NEW ok \in BOOLEAN,
             RefundKick(w, o, ok) \/ ExpireKick(w, o, ok)
      PROVE  Origins
  BY <1>6, KicksGoOn DEF Kicked, Origins, Stays, RefundStages, ExpiryStages,
     RefundKick, ExpireKick, At
<1> QED
  BY <1>1, <1>2, <1>3, <1>4, <1>5, <1>6 DEF Kinds, ActsOnRental, Ending

\* o may be shown the secrets of the account it rents
Showable(o) ==
    /\ rstatus[o] = "active" /\ racct[o] \in Accounts
    /\ ~Refunding(o) /\ ~InitialUnsent(o) /\ astatus[racct[o]] = "active"

\* a buyer learns of an account only in a delivery or a !code, of its rental
OnlyRentersLearn ==
    \/ \A b \in Accounts : access'[b] \subseteq access[b]
    \/ \E o \in Orders :
         /\ Showable(o) /\ UNCHANGED <<rstatus, racct, astatus>>
         /\ \A b \in Accounts :
              access'[b] \subseteq
                access[b] \cup (IF b = racct[o] THEN {o} ELSE {})

LEMMA SameAccess ==
    (access' = access \/ \E a : access' = [access EXCEPT ![a] = {}])
      /\ TypeOK => OnlyRentersLearn
BY DEF OnlyRentersLearn, TypeOK, AccessTypes

\* the send follows the boundary that counted it, in the same transaction as
\* the last look at Order, Rental and Account
LEMMA ReadyIsShowable ==
    ASSUME TypeOK, Counted, NEW w \in Workers, NEW o \in Orders,
           ReadyToSend(w, o)
    PROVE  Showable(o)
BY DEF ReadyToSend, StillMine, Eligible, Showable, Fulfillable, Refunding,
   InitialUnsent, Counted, At, TypeOK, RentalTypes, DeliveryTypes

LEMMA AccessStep == IRowsWith /\ Kinds => OnlyRentersLearn
<1> SUFFICES ASSUME IRowsWith, Kinds PROVE OnlyRentersLearn
  OBVIOUS
<1>0. TypeOK /\ Counted /\ SentCounted
  BY DEF IRowsWith, IRows
<1>1. CASE Quiet \/ Inspected
  BY <1>0, <1>1, SameAccess DEF Quiet, Inspected
<1>2. ASSUME NEW w \in Workers, NEW o \in Orders,
             DeliverSent(w, o) \/ DeliverFailed(w, o) \/ DeliverCrash(w, o)
      PROVE  OnlyRentersLearn
  <2>1. Showable(o)
    BY <1>0, <1>2, ReadyIsShowable DEF DeliverSent, DeliverFailed, DeliverCrash
  <2>2. UNCHANGED <<rstatus, racct, astatus>>
    BY <1>2 DEF DeliverSent, DeliverFailed, DeliverCrash, rentalVars,
       accountVars
  <2>3. access' = access \/ access' = Disclosed(o, racct[o])
    BY <1>2 DEF DeliverSent, DeliverFailed, DeliverCrash
  <2> QED
    BY <1>0, <2>1, <2>2, <2>3 DEF OnlyRentersLearn, Disclosed, TypeOK,
       AccessTypes
<1>3. ASSUME NEW w \in Workers, NEW o \in Orders, CodeSend(w, o)
      PROVE  OnlyRentersLearn
  <2>1. Showable(o)
    BY <1>0, <1>3 DEF CodeSend, MayShowCode, Authorised, Showable,
       SentCounted, TypeOK, RentalTypes
  <2> QED
    BY <1>0, <1>3, <2>1 DEF OnlyRentersLearn, CodeSend, TypeOK, AccessTypes,
       rentalVars, accountVars
<1>4. ASSUME NEW w \in Workers, NEW o \in Orders, NEW ok \in BOOLEAN,
             \/ RefundKick(w, o, ok) \/ ExpireKick(w, o, ok)
             \/ ReplaceKick(w, o, ok)
      PROVE  OnlyRentersLearn
  BY <1>0, <1>4, SameAccess DEF RefundKick, ExpireKick, ReplaceKick, Logout
\* the other actions show nothing
<1>5. ASSUME NEW w \in Workers, NEW o \in Orders,
             \/ \E a \in Accounts : \/ FulfillNew(w, o, a)
                                    \/ Reallocate(w, o, a)
                                    \/ ReplaceClaim(w, o, a)
             \/ RefundBusy(w, o) \/ RefundClaim(w, o) \/ RefundFinalize(w, o)
             \/ ClaimOverdue(w, o) \/ ExpireFinalize(w, o) \/ NoticeClaim(w, o)
             \/ \E ok, accepted \in BOOLEAN : NoticeSend(w, o, ok, accepted)
             \/ ReplaceStart(w, o) \/ ReplaceDeclined(w, o)
             \/ ReplaceChecked(w, o) \/ ReplaceSwitch(w, o)
      PROVE  OnlyRentersLearn
  <2>1. access' = access
    BY <1>5 DEF FulfillNew, Reallocate, ReplaceClaim, RefundBusy, RefundClaim,
       RefundFinalize, ClaimOverdue, ExpireFinalize, NoticeClaim, NoticeSend,
       ReplaceStart, ReplaceDeclined, ReplaceChecked, ReplaceSwitch
  <2> QED
    BY <1>0, <2>1, SameAccess
<1> QED
  BY <1>1, <1>2, <1>3, <1>4, <1>5 DEF Kinds, ActsOnRental

\* the four ways in which an order leaves the account it rents
Leaves(w, o) ==
    \/ \E a \in Accounts : Reallocate(w, o, a)
    \/ RefundFinalize(w, o) /\ task[w].ok /\ RefundMatches(w, o)
    \/ ExpireFinalize(w, o) /\ task[w].ok /\ ExpireMatches(w, o)
    \/ ReplaceSwitch(w, o)

Remains(o) == Occupies(o)' /\ racct'[o] = racct[o]

LEMMA LeavesStep ==
    ASSUME TypeOK, Kinds, NEW o \in Orders, Occupies(o)
    PROVE  Remains(o) \/ \E w \in Workers : Leaves(w, o)
<1>1. CASE Quiet
  BY <1>1 DEF Quiet, Calm, Occupies, Remains
<1>2. CASE Inspected
  BY <1>2 DEF Inspected, Occupies, Remains
<1>3. ASSUME NEW w \in Workers, NEW p \in Orders,
             NEW a \in Accounts, FulfillNew(w, p, a) \/ Reallocate(w, p, a)
      PROVE  Remains(o) \/ Leaves(w, o)
  BY <1>3 DEF FulfillNew, Reallocate, Leaves, Remains, Occupies, TypeOK,
     RentalTypes
<1>4. ASSUME NEW w \in Workers, NEW p \in Orders, RefundFinalize(w, p)
      PROVE  Remains(o) \/ Leaves(w, o)
  BY <1>4 DEF RefundFinalize, Leaves, Remains, Occupies, TypeOK, RentalTypes
<1>5. ASSUME NEW w \in Workers, NEW p \in Orders, ExpireFinalize(w, p)
      PROVE  Remains(o) \/ Leaves(w, o)
  BY <1>5 DEF ExpireFinalize, Leaves, Remains, Occupies, TypeOK, RentalTypes
<1>6. ASSUME NEW w \in Workers, NEW p \in Orders, ReplaceSwitch(w, p)
      PROVE  Remains(o) \/ Leaves(w, o)
  BY <1>6 DEF ReplaceSwitch, Leaves, Remains, Occupies, TypeOK, RentalTypes
<1>7. ASSUME NEW w \in Workers, NEW p \in Orders, ClaimOverdue(w, p)
      PROVE  Remains(o)
  BY <1>7 DEF ClaimOverdue, Remains, Occupies, TypeOK, RentalTypes
\* the other actions leave the rental where it is
<1>8. ASSUME NEW w \in Workers, NEW p \in Orders,
             \/ \E a \in Accounts : ReplaceClaim(w, p, a)
             \/ DeliverSent(w, p) \/ DeliverFailed(w, p) \/ DeliverCrash(w, p)
             \/ CodeSend(w, p) \/ RefundBusy(w, p) \/ RefundClaim(w, p)
             \/ NoticeClaim(w, p)
             \/ \E ok \in BOOLEAN : \/ RefundKick(w, p, ok)
                                    \/ ExpireKick(w, p, ok)
                                    \/ ReplaceKick(w, p, ok)
             \/ \E ok, accepted \in BOOLEAN : NoticeSend(w, p, ok, accepted)
             \/ ReplaceStart(w, p) \/ ReplaceDeclined(w, p)
             \/ ReplaceChecked(w, p)
      PROVE  Remains(o)
  <2>1. UNCHANGED <<rstatus, racct>>
    BY <1>8 DEF ReplaceClaim, DeliverSent, DeliverFailed, DeliverCrash,
       CodeSend, RefundBusy, RefundClaim, NoticeClaim, RefundKick, ExpireKick,
       ReplaceKick, NoticeSend, ReplaceStart, ReplaceDeclined, ReplaceChecked,
       rentalVars
  <2> QED
    BY <2>1 DEF Remains, Occupies
<1> QED
  BY <1>1, <1>2, <1>3, <1>4, <1>5, <1>6, <1>7, <1>8 DEF Kinds, ActsOnRental

-----------------------------------------------------------------------------
(* Whoever was shown an account's secrets since its last logout rents it   *)

Ended(o) == rstatus[o] \in {"expired", "refunded"}

\* while a refund logs an account out, its order is being refunded and lives
\* there, or the rental has ended, or a late close has taken the refund back
RefundRecorded ==
    \A w \in Workers, o \in Orders :
      task[w].at \in RefundStages /\ task[w].ord = o =>
        \/ Refunding(o) /\ Occupies(o) /\ racct[o] = task[w].acct
        \/ Ended(o)
        \/ task[w].acct \in overruled

\* a rental whose account an expiry logs out is closed
ExpiryClosed ==
    \A w \in Workers, o \in Orders :
      task[w].at \in ExpiryStages /\ task[w].ord = o
        => rstatus[o] \notin {"none", "active"}

\* what a logout that worked ended does not begin again before the rental ends
LoggedOutStays ==
    \A w \in Workers, o \in Orders, a \in Accounts :
      /\ task[w].at \in {"refund_kicked", "expire_kicked"} /\ task[w].ok
      /\ task[w].ord = o /\ task[w].acct = a
      => o \notin access[a] \/ a \in overruled

\* while its claim and reservation stand, a replacement finds the rental where
\* it was, its account out of use, and, once logged out, known to nobody;
\* unless a late verdict brought that account back into use
Underway(w, o) ==
    task[w].at \in Reserving /\ task[w].ord = o /\ OwnsReplacement(w, o)
ReplacementStays ==
    \A w \in Workers, o \in Orders :
      Underway(w, o) =>
        /\ Occupies(o) /\ racct[o] = task[w].acct /\ ~InitialUnsent(o)
        /\ \/ racct[o] \in overruled
           \/ /\ astatus[racct[o]] # "active"
              /\ At(w, "replace_kicked") /\ task[w].ok
                   => o \notin access[racct[o]]

\* before the first attempt nothing was shown
UnsentUnknown ==
    \A o \in Orders, a \in Accounts : InitialUnsent(o) => o \notin access[a]

ICustody ==
    /\ RefundRecorded /\ ExpiryClosed /\ LoggedOutStays /\ ReplacementStays
    /\ UnsentUnknown /\ Custody

\* what all steps of this part share
CustodySoFar ==
    /\ IRowsWith /\ IReserve /\ ICustody
    /\ Kinds /\ Marks /\ StaysCounted /\ RefundKept

\* a refund under way goes on where it is, ends, or is taken back by a close
LEMMA RefundGoesOn ==
    ASSUME TypeOK, Kinds, RefundKept, NEW o \in Orders,
           Refunding(o), Occupies(o)
    PROVE  \/ Refunding(o)' /\ Occupies(o)' /\ racct'[o] = racct[o]
           \/ Ended(o)'
           \/ racct[o] \in overruled'
<1>1. ASSUME NEW w \in Workers, SweepClose(w, o)
      PROVE  racct[o] \in overruled'
  BY <1>1 DEF SweepClose
<1>2. ASSUME NEW w \in Workers, Leaves(w, o)
      PROVE  Ended(o)'
  BY <1>2 DEF Leaves, Reallocate, StillMine, Fulfillable, RefundFinalize,
     ExpireFinalize, ExpireMatches, ReplaceSwitch, Replaceable, Authorised,
     Refunding, Ended, TypeOK, RentalTypes
<1> QED
  BY <1>1, <1>2, LeavesStep DEF RefundKept, KeepsRefund, Refunding, Remains

LEMMA StagesKept ==
    ASSUME CustodySoFar
    PROVE  RefundRecorded' /\ ExpiryClosed'
<1>0. TypeOK /\ Kinds /\ Origins /\ RentalsGoOn /\ RefundKept /\ Marks
  BY OriginsStep, RentalsStep DEF CustodySoFar, IRowsWith, IRows
<1>1. RefundRecorded'
  <2> SUFFICES ASSUME NEW w \in Workers, NEW o \in Orders,
                      task'[w].at \in RefundStages, task'[w].ord = o
               PROVE  \/ /\ Refunding(o)' /\ Occupies(o)'
                         /\ racct'[o] = task'[w].acct
                      \/ Ended(o)'
                      \/ task'[w].acct \in overruled'
    BY DEF RefundRecorded
  <2>1. CASE Stays(w, RefundStages)
    <3>1. /\ task'[w].acct = task[w].acct
          /\ \/ Refunding(o) /\ Occupies(o) /\ racct[o] = task[w].acct
             \/ Ended(o)
             \/ task[w].acct \in overruled
      BY <2>1 DEF Stays, CustodySoFar, ICustody, RefundRecorded
    <3>2. CASE Ended(o)
      BY <1>0, <3>2 DEF Ended, RentalsGoOn
    <3>3. CASE task[w].acct \in overruled
      BY <1>0, <3>1, <3>3 DEF Marks
    <3>4. CASE Refunding(o) /\ Occupies(o) /\ racct[o] = task[w].acct
      BY <1>0, <3>1, <3>4, RefundGoesOn
    <3> QED
      BY <3>1, <3>2, <3>3, <3>4
  <2>2. ASSUME NEW p \in Orders, RefundClaim(w, p),
               Starts(w, "refund", p, racct[p])
        PROVE  Refunding(o)' /\ Occupies(o)' /\ racct'[o] = task'[w].acct
    BY <1>0, <2>2 DEF Starts, RefundClaim, Refunding, Occupies, rentalVars,
       TypeOK, SaleTypes
  <2> QED
    BY <1>0, <2>1, <2>2 DEF Origins
<1>2. ExpiryClosed'
  <2> SUFFICES ASSUME NEW w \in Workers, NEW o \in Orders,
                      task'[w].at \in ExpiryStages, task'[w].ord = o
               PROVE  rstatus'[o] \notin {"none", "active"}
    BY DEF ExpiryClosed
  <2>1. CASE Stays(w, ExpiryStages)
    BY <1>0, <2>1 DEF Stays, CustodySoFar, ICustody, ExpiryClosed, RentalsGoOn
  <2>2. ASSUME NEW p \in Orders, ClaimOverdue(w, p),
               Starts(w, "expire", p, racct[p])
        PROVE  rstatus'[o] \notin {"none", "active"}
    BY <1>0, <2>2 DEF Starts, ClaimOverdue, TypeOK, RentalTypes
  <2> QED
    BY <1>0, <2>1, <2>2 DEF Origins
<1> QED
  BY <1>1, <1>2

\* nobody who is not shown anything now learns anything
LEMMA NoNews ==
    ASSUME OnlyRentersLearn, NEW o \in Orders, NEW a \in Accounts,
           ~(Showable(o) /\ racct[o] = a), o \notin access[a]
    PROVE  o \notin access'[a]
BY DEF OnlyRentersLearn

LEMMA UnsentKept ==
    ASSUME CustodySoFar
    PROVE  UnsentUnknown'
BY AccessStep, NoNews DEF CustodySoFar, ICustody, UnsentUnknown, StaysCounted,
   Showable

\* the logout of a refund or an expiry that worked just now
JustKicked(w, a) ==
    /\ \E o \in Orders, ok \in BOOLEAN :
         RefundKick(w, o, ok) \/ ExpireKick(w, o, ok)
    /\ task[w].acct = a /\ (task'[w].ok => access'[a] = {})

LEMMA KickedOrigin ==
    ASSUME TypeOK, Kinds, NEW w \in Workers, NEW a \in Accounts,
           task'[w].at \in {"refund_kicked", "expire_kicked"},
           task'[w].acct = a
    PROVE  task'[w] = task[w] \/ JustKicked(w, a)
<1>1. CASE Quiet \/ Inspected
  BY <1>1 DEF Quiet, Inspected, Guarded
<1>2. ASSUME NEW v \in Workers, NEW o \in Orders, Ending(v, o)
      PROVE  task'[w] = task[w]
  BY <1>2, EndingGuard DEF NoNewGuard, Guarded
<1>3. ASSUME NEW v \in Workers, NEW o \in Orders,
             RefundClaim(v, o) \/ ClaimOverdue(v, o) \/ NoticeClaim(v, o)
      PROVE  task'[w] = task[w]
  BY <1>3, ClaimsBegin DEF Starts
<1>4. ASSUME NEW v \in Workers, NEW o \in Orders,
             \/ ReplaceStart(v, o) \/ ReplaceChecked(v, o)
             \/ \E b \in Accounts : ReplaceClaim(v, o, b)
             \/ \E ok \in BOOLEAN : ReplaceKick(v, o, ok)
      PROVE  task'[w] = task[w]
  BY <1>4, ReplacementMoves DEF Reserving
<1>5. ASSUME NEW v \in Workers, NEW o \in Orders, NEW ok \in BOOLEAN,
             RefundKick(v, o, ok) \/ ExpireKick(v, o, ok)
      PROVE  task'[w] = task[w] \/ JustKicked(w, a)
  <2>1. Kicked(v, "refund_kicked", ok) \/ Kicked(v, "expire_kicked", ok)
    BY <1>5, KicksGoOn
  <2>2. CASE v # w
    BY <2>1, <2>2 DEF Kicked
  <2>3. CASE v = w
    <3>1. task[w].acct = a /\ task'[w].ok = ok
      BY <2>1, <2>3 DEF Kicked
    <3>2. Logout(a, ok)
      BY <1>5, <2>3, <3>1 DEF RefundKick, ExpireKick
    <3>3. ok => access'[a] = {}
      BY <3>2 DEF Logout, TypeOK, AccessTypes
    <3> QED
      BY <1>5, <2>3, <3>1, <3>3 DEF JustKicked
  <2> QED
    BY <2>2, <2>3
<1> QED
  BY <1>1, <1>2, <1>3, <1>4, <1>5 DEF Kinds, ActsOnRental, Ending

LEMMA LogoutsKept ==
    ASSUME CustodySoFar
    PROVE  LoggedOutStays'
<1> SUFFICES ASSUME NEW w \in Workers, NEW o \in Orders, NEW a \in Accounts,
                    task'[w].at \in {"refund_kicked", "expire_kicked"},
                    task'[w].ok, task'[w].ord = o, task'[w].acct = a
             PROVE  o \notin access'[a] \/ a \in overruled'
  BY DEF LoggedOutStays
<1>0. a \in overruled => a \in overruled'
  BY DEF CustodySoFar, Marks
<1>1. task'[w] = task[w] \/ JustKicked(w, a)
  BY KickedOrigin DEF CustodySoFar, IRowsWith, IRows
<1>2. CASE task'[w] = task[w]
  <2>1. o \notin access[a] \/ a \in overruled
    BY <1>2 DEF CustodySoFar, ICustody, LoggedOutStays
  \* the sale is being refunded, or the rental is closed
  <2>2. ~Showable(o) \/ a \in overruled
    BY <1>2 DEF CustodySoFar, ICustody, RefundRecorded, ExpiryClosed, Showable,
       Ended, RefundStages, ExpiryStages
  <2> QED
    BY <1>0, <2>1, <2>2, NoNews, AccessStep DEF CustodySoFar
<1>3. CASE JustKicked(w, a)
  BY <1>3 DEF JustKicked
<1> QED
  BY <1>1, <1>2, <1>3

\* a replacement that is under way was so before, has just logged its account
\* out, or has just reserved the new one
LEMMA UnderwayOrigin ==
    ASSUME TypeOK, Kinds, NEW w \in Workers, NEW o \in Orders, Underway(w, o)'
    PROVE  \/ Underway(w, o) /\ task'[w] = task[w]
           \/ /\ Underway(w, o)
              /\ \E ok \in BOOLEAN : ReplaceKick(w, o, ok)
           \/ \E b \in Accounts : ReplaceClaim(w, o, b)
<1> DEFINE Goal == \/ Underway(w, o) /\ task'[w] = task[w]
                   \/ /\ Underway(w, o)
                      /\ \E ok \in BOOLEAN : ReplaceKick(w, o, ok)
                   \/ \E b \in Accounts : ReplaceClaim(w, o, b)
<1>0. /\ task'[w].at \in Reserving /\ task'[w].ord = o
      /\ claim'[o] = w /\ target'[o] = task'[w].tgt
  BY DEF Underway, OwnsReplacement, Owns
\* the reservation is that of the step before, unless it is new
<1>1. ASSUME task'[w] = task[w], claim'[o] = w => claim[o] = w,
             target'[o] = target[o] \/ target'[o] = NoAccount
      PROVE  Goal
  <2>1. task[w].tgt \in Accounts
    BY <1>0, <1>1 DEF TypeOK, TaskTypes, Tasks
  <2> QED
    BY <1>0, <1>1, <2>1, RowsAssumption DEF Underway, OwnsReplacement, Owns
<1>2. CASE Quiet
  BY <1>0, <1>1, <1>2 DEF Quiet, Guarded, Reserving
<1>3. CASE Inspected
  BY <1>1, <1>3 DEF Inspected
<1>4. ASSUME NEW v \in Workers, NEW p \in Orders, Ending(v, p)
      PROVE  Goal
  <2>1. task'[w] = task[w]
    BY <1>0, <1>4, EndingGuard DEF NoNewGuard, Guarded, Reserving
  <2>2. claim'[o] = w => claim[o] = w
    BY <1>4, RowsAssumption DEF Ending, FulfillNew, Reallocate, DeliverSent,
       DeliverFailed, DeliverCrash, CodeSend, RefundBusy, RefundFinalize,
       ExpireFinalize, NoticeSend, ReplaceDeclined, ReplaceSwitch, DropLease,
       leaseVars, TypeOK, LeaseTypes
  <2>3. target'[o] = target[o] \/ target'[o] = NoAccount
    BY <1>4 DEF Ending, FulfillNew, Reallocate, DeliverSent, DeliverFailed,
       DeliverCrash, CodeSend, RefundBusy, RefundFinalize, ExpireFinalize,
       NoticeSend, ReplaceDeclined, ReplaceSwitch, leaseVars, TypeOK,
       LeaseTypes
  <2> QED
    BY <1>1, <2>1, <2>2, <2>3
<1>5. ASSUME NEW v \in Workers, NEW p \in Orders,
             RefundClaim(v, p) \/ ClaimOverdue(v, p) \/ NoticeClaim(v, p)
      PROVE  Goal
  <2>1. v # w /\ task'[w] = task[w]
    BY <1>0, <1>5, ClaimsBegin DEF Starts, Reserving
  <2>2. claim'[o] = w => claim[o] = w
    BY <1>5, <2>1 DEF RefundClaim, ClaimOverdue, NoticeClaim, TakeLease,
       TypeOK, LeaseTypes
  <2>3. target'[o] = target[o] \/ target'[o] = NoAccount
    BY <1>5 DEF RefundClaim, ClaimOverdue, NoticeClaim, TypeOK, LeaseTypes
  <2> QED
    BY <1>1, <2>1, <2>2, <2>3
<1>6. ASSUME NEW v \in Workers, NEW p \in Orders, NEW ok \in BOOLEAN,
             RefundKick(v, p, ok) \/ ExpireKick(v, p, ok)
      PROVE  Goal
  <2>1. task'[w] = task[w]
    BY <1>0, <1>6, KicksGoOn DEF Kicked, Reserving
  <2> QED
    BY <1>1, <1>6, <2>1 DEF RefundKick, ExpireKick, leaseVars
<1>7. ASSUME NEW v \in Workers, NEW p \in Orders,
             ReplaceStart(v, p) \/ ReplaceChecked(v, p)
      PROVE  Goal
  <2>1. task'[w] = task[w]
    <3>1. CASE ReplaceStart(v, p)
      <4>1. Becomes(v, [Step("check", p, racct[p]) EXCEPT
                          !.was = astatus[racct[p]]])
        BY <3>1, BecomesIfBegun DEF ReplaceStart
      <4> QED
        BY <1>0, <4>1 DEF Becomes, Step, Reserving
    <3>2. CASE ReplaceChecked(v, p)
      BY <1>0, <3>2, CheckedTask DEF Reserving
    <3> QED
      BY <1>7, <3>1, <3>2
  <2>2. claim'[o] = w => claim[o] = w
    BY <1>7, RowsAssumption DEF ReplaceStart, ReplaceChecked, DropLease,
       leaseVars, TypeOK, LeaseTypes
  <2>3. target'[o] = target[o] \/ target'[o] = NoAccount
    BY <1>7 DEF ReplaceStart, ReplaceChecked, leaseVars, TypeOK, LeaseTypes
  <2> QED
    BY <1>1, <2>1, <2>2, <2>3
<1>8. ASSUME NEW v \in Workers, NEW p \in Orders, NEW ok \in BOOLEAN,
             ReplaceKick(v, p, ok)
      PROVE  Goal
  <2>1. Kicked(v, "replace_kicked", ok) /\ UNCHANGED <<claim, target>>
    BY <1>8, KicksGoOn DEF ReplaceKick, leaseVars
  <2>2. CASE v # w
    BY <1>1, <2>1, <2>2 DEF Kicked
  <2>3. CASE v = w
    BY <1>0, <1>8, <2>1, <2>3 DEF Kicked, ReplaceKick, Underway,
       OwnsReplacement, Owns, Reserving, At
  <2> QED
    BY <2>2, <2>3
<1>9. ASSUME NEW v \in Workers, NEW p \in Orders, NEW b \in Accounts,
             ReplaceClaim(v, p, b)
      PROVE  Goal
  <2>1. CASE v # w
    \* another's reservation takes the lease
    <3>1. task'[w] = task[w]
      BY <1>9, <2>1, ClaimedTask
    <3>2. claim'[p] = v
      BY <1>9 DEF ReplaceClaim, TakeLease, TypeOK, LeaseTypes
    <3>3. p # o
      BY <1>0, <2>1, <3>2
    <3>4. claim'[o] = claim[o] /\ target'[o] = target[o]
      BY <1>9, <3>3 DEF ReplaceClaim, TakeLease, TypeOK, LeaseTypes
    <3> QED
      BY <1>1, <3>1, <3>4
  <2>2. CASE v = w
    BY <1>0, <1>9, <2>2, ClaimedTask
  <2> QED
    BY <2>1, <2>2
<1> QED
  BY <1>2, <1>3, <1>4, <1>5, <1>6, <1>7, <1>8, <1>9
  DEF Kinds, ActsOnRental, Ending

\* an account comes back into use when nobody keeps it, or by the verdict of a
\* validator that ends
LEMMA BackInUse ==
    ASSUME TypeOK, Kinds, NEW a \in Accounts,
           astatus[a] # "active", astatus'[a] = "active"
    PROVE  \/ ~Busy(a)
           \/ \E w \in Workers, o \in Orders :
                ReplaceDeclined(w, o) /\ task[w].acct = a
<1>1. CASE Quiet
  BY <1>1 DEF Quiet
<1>2. CASE Inspected
  BY <1>2 DEF Inspected
<1>3. ASSUME NEW w \in Workers, NEW o \in Orders, ReplaceDeclined(w, o)
      PROVE  task[w].acct = a
  BY <1>3 DEF ReplaceDeclined, Verdict, TypeOK, AccountTypes
\* the others put accounts in maintenance, fail them, or leave them alone
<1>4. ASSUME NEW w \in Workers, NEW o \in Orders,
             \/ RefundBusy(w, o) \/ RefundClaim(w, o) \/ ClaimOverdue(w, o)
             \/ ReplaceChecked(w, o)
             \/ \E b \in Accounts : ReplaceClaim(w, o, b)
      PROVE  FALSE
  BY <1>4 DEF RefundBusy, RefundClaim, ClaimOverdue, ReplaceChecked,
     ReplaceClaim, Verdict, TypeOK, AccountTypes
<1>5. ASSUME NEW w \in Workers, NEW o \in Orders,
             \/ \E b \in Accounts : FulfillNew(w, o, b) \/ Reallocate(w, o, b)
             \/ DeliverSent(w, o) \/ DeliverFailed(w, o) \/ DeliverCrash(w, o)
             \/ CodeSend(w, o) \/ RefundFinalize(w, o) \/ ExpireFinalize(w, o)
             \/ NoticeClaim(w, o)
             \/ \E ok \in BOOLEAN : \/ RefundKick(w, o, ok)
                                    \/ ExpireKick(w, o, ok)
                                    \/ ReplaceKick(w, o, ok)
             \/ \E ok, accepted \in BOOLEAN : NoticeSend(w, o, ok, accepted)
             \/ ReplaceStart(w, o) \/ ReplaceSwitch(w, o)
      PROVE  astatus' = astatus
  BY <1>5 DEF FulfillNew, Reallocate, DeliverSent, DeliverFailed,
     DeliverCrash, CodeSend, RefundFinalize, ExpireFinalize, NoticeClaim,
     RefundKick, ExpireKick, ReplaceKick, NoticeSend, ReplaceStart,
     ReplaceSwitch, accountVars
<1> QED
  BY <1>1, <1>2, <1>3, <1>4, <1>5 DEF Kinds, ActsOnRental

\* the account a replacement is leaving stays out of use, unless a late verdict
\* says that it works
LEMMA UnderwayStatus ==
    ASSUME CustodySoFar, NEW w \in Workers, NEW o \in Orders, Underway(w, o),
           racct[o] \notin overruled'
    PROVE  astatus'[racct[o]] # "active"
<1>0. /\ TypeOK /\ Kinds /\ racct[o] \notin overruled
      /\ Occupies(o) /\ astatus[racct[o]] # "active" /\ racct[o] \in Accounts
  BY DEF CustodySoFar, Marks, IRowsWith, IRows, ICustody, ReplacementStays,
     TypeOK, RentalTypes, Occupies
<1> SUFFICES ASSUME astatus'[racct[o]] = "active" PROVE FALSE
  OBVIOUS
<1>1. Busy(racct[o])
  BY <1>0 DEF Busy, Holds
<1>2. PICK v \in Workers, p \in Orders :
        ReplaceDeclined(v, p) /\ task[v].acct = racct[o]
  BY <1>0, <1>1, BackInUse
<1>3. task[v].was # "active" /\ Verdict(v, "active")
  BY <1>0, <1>2 DEF ReplaceDeclined, Verdict, TypeOK, AccountTypes
<1>4. target[o] # NoAccount
  BY <1>0, RowsAssumption DEF Underway, OwnsReplacement, TypeOK, TaskTypes,
     Tasks
<1>5. racct[o] \in Undone(racct[o], "active")
  BY <1>0, <1>4 DEF Undone
<1> QED
  BY <1>2, <1>3, <1>5 DEF Verdict

\* the rental stays where the replacement found it
LEMMA UnderwayRemains ==
    ASSUME CustodySoFar, NEW w \in Workers, NEW o \in Orders, Underway(w, o),
           task'[w].at \in Reserving
    PROVE  Remains(o)
<1>0. TypeOK /\ Kinds /\ Occupies(o) /\ ~InitialUnsent(o) /\ claim[o] = w
  BY DEF CustodySoFar, IRowsWith, IRows, ICustody, ReplacementStays, Underway,
     OwnsReplacement, Owns
<1> SUFFICES ASSUME NEW v \in Workers, Leaves(v, o) PROVE FALSE
  BY <1>0, LeavesStep
<1>1. ~ReplaceSwitch(v, o)
  <2> SUFFICES ASSUME ReplaceSwitch(v, o) PROVE FALSE
    OBVIOUS
  <2>1. v = w
    BY <1>0 DEF ReplaceSwitch, ReplaceMatches, OwnsReplacement, Owns
  <2>2. Released(v)
    BY <1>0, EndingReleases DEF Ending
  <2> QED
    BY <2>1, <2>2 DEF Released, Guarded, Reserving
<1> QED
  BY <1>0, <1>1 DEF Leaves, Reallocate, RefundFinalize, RefundMatches,
     ExpireFinalize, ExpireMatches, Owns, Underway, Reserving, At

LEMMA ReplacementsKept ==
    ASSUME CustodySoFar
    PROVE  ReplacementStays'
<1>0. /\ TypeOK /\ Kinds /\ StaysCounted /\ SentCounted /\ ReplacementStays
      /\ OnlyRentersLearn /\ Marks
  BY AccessStep DEF CustodySoFar, IRowsWith, IRows, ICustody
<1> SUFFICES ASSUME NEW w \in Workers, NEW o \in Orders, Underway(w, o)'
             PROVE  /\ Occupies(o)' /\ racct'[o] = task'[w].acct
                    /\ ~InitialUnsent(o)'
                    /\ \/ racct'[o] \in overruled'
                       \/ /\ astatus'[racct'[o]] # "active"
                          /\ task'[w].at = "replace_kicked" /\ task'[w].ok
                               => o \notin access'[racct'[o]]
  BY DEF ReplacementStays, At
<1>1. task'[w].at \in Reserving
  BY DEF Underway
<1>2. CASE Underway(w, o)
  <2>1. /\ Remains(o) /\ ~InitialUnsent(o)'
        /\ racct[o] = task[w].acct /\ racct[o] \in Accounts
        /\ racct[o] \in overruled' \/ astatus'[racct[o]] # "active"
    BY <1>0, <1>1, <1>2, UnderwayRemains, UnderwayStatus
    DEF ReplacementStays, StaysCounted, TypeOK, RentalTypes, Occupies
  <2>2. CASE task'[w] = task[w]
    <3>1. CASE racct[o] \in overruled
      BY <1>0, <2>1, <2>2, <3>1 DEF Remains, Marks
    <3>2. CASE racct[o] \notin overruled
      <4>1. ~Showable(o)
        BY <1>0, <1>2, <3>2 DEF ReplacementStays, Showable
      <4> QED
        BY <1>0, <1>2, <2>1, <2>2, <3>2, <4>1, NoNews
        DEF Remains, ReplacementStays, At
    <3> QED
      BY <3>1, <3>2
  <2>3. ASSUME NEW ok \in BOOLEAN, ReplaceKick(w, o, ok)
        PROVE  /\ task'[w].acct = task[w].acct
               /\ task'[w].ok => o \notin access'[racct[o]]
    <3>1. Kicked(w, "replace_kicked", ok) /\ Logout(racct[o], ok)
      BY <1>0, <2>1, <2>3, KicksGoOn DEF ReplaceKick
    <3> QED
      BY <1>0, <2>1, <3>1 DEF Kicked, Logout, TypeOK, AccessTypes
  <2>4. ASSUME NEW b \in Accounts, ReplaceClaim(w, o, b)
        PROVE  FALSE
    BY <1>2, <2>4 DEF ReplaceClaim, MayReplace, Underway, Reserving, At
  <2> QED
    BY <1>0, <2>1, <2>2, <2>3, <2>4, UnderwayOrigin DEF Remains
<1>3. ASSUME NEW b \in Accounts, ReplaceClaim(w, o, b)
      PROVE  /\ Occupies(o)' /\ racct'[o] = task'[w].acct
             /\ ~InitialUnsent(o)' /\ astatus'[racct'[o]] # "active"
             /\ task'[w].at = "replace"
  <2>1. /\ UNCHANGED <<rstatus, racct>> /\ Occupies(o) /\ dstatus[o] = "sent"
        /\ racct[o] = task[w].acct /\ racct[o] \in Accounts
        /\ astatus' = [astatus EXCEPT ![racct[o]] = "maintenance"]
    BY <1>0, <1>3 DEF ReplaceClaim, MayReplace, Replaceable, Authorised,
       Occupies, TypeOK, RentalTypes, rentalVars
  <2> QED
    BY <1>0, <1>3, <2>1, ClaimedTask DEF Occupies, SentCounted, StaysCounted,
       TypeOK, AccountTypes
<1> QED
  BY <1>0, <1>2, <1>3, UnderwayOrigin

\* an order leaves its account only when the buyer knows nothing of it, nor of
\* any other that no late write disturbed
LEMMA LeavesKnowingNothing ==
    ASSUME CustodySoFar, NEW w \in Workers, NEW o \in Orders, Leaves(w, o)
    PROVE  /\ access' = access
           /\ \A a \in Accounts \ overruled : o \notin access[a]
<1>0. TypeOK /\ LoggedOutStays /\ ReplacementStays /\ UnsentUnknown /\ Custody
  BY DEF CustodySoFar, IRowsWith, IRows, ICustody
<1>1. CASE \E a \in Accounts : Reallocate(w, o, a)
  BY <1>0, <1>1 DEF Reallocate, UnsentUnknown
<1>2. CASE RefundFinalize(w, o) /\ task[w].ok /\ RefundMatches(w, o)
  <2>1. racct[o] = task[w].acct /\ racct[o] \in Accounts
    BY <1>0, <1>2 DEF RefundMatches, Occupies, TypeOK, RentalTypes
  <2> QED
    BY <1>0, <1>2, <2>1 DEF RefundFinalize, LoggedOutStays, Custody, At
<1>3. CASE ExpireFinalize(w, o) /\ task[w].ok /\ ExpireMatches(w, o)
  <2>1. racct[o] = task[w].acct /\ racct[o] \in Accounts
    BY <1>0, <1>3 DEF ExpireMatches, TypeOK, RentalTypes
  <2> QED
    BY <1>0, <1>3, <2>1 DEF ExpireFinalize, LoggedOutStays, Custody, At
<1>4. CASE ReplaceSwitch(w, o)
  <2>1. Underway(w, o) /\ At(w, "replace_kicked") /\ task[w].ok
    BY <1>4 DEF ReplaceSwitch, ReplaceMatches, Underway, Reserving, At
  <2> QED
    BY <1>0, <1>4, <2>1 DEF ReplaceSwitch, ReplacementStays, Custody
<1> QED
  BY <1>1, <1>2, <1>3, <1>4 DEF Leaves

LEMMA CustodyKept ==
    ASSUME CustodySoFar
    PROVE  Custody'
<1>0. TypeOK /\ Kinds /\ Marks /\ Custody /\ OnlyRentersLearn
  BY AccessStep DEF CustodySoFar, IRowsWith, IRows, ICustody
<1> SUFFICES ASSUME NEW a \in Accounts, NEW o \in Orders, o \in access'[a],
                    a \notin overruled'
             PROVE  Occupies(o)' /\ racct'[o] = a
  \* whoever is shown anything is an order
  <2>1. \A a \in Accounts : access'[a] \subseteq Orders
    BY <1>0 DEF TypeOK, AccessTypes, OnlyRentersLearn
  <2> QED
    BY <2>1 DEF Custody
<1>1. CASE o \in access[a]
  BY <1>0, <1>1, LeavesStep, LeavesKnowingNothing DEF Custody, Remains, Marks
<1>2. CASE o \notin access[a]
  <2>1. UNCHANGED <<rstatus, racct>> /\ Showable(o) /\ racct[o] = a
    BY <1>0, <1>2 DEF OnlyRentersLearn
  <2> QED
    BY <2>1 DEF Showable, Occupies
<1> QED
  BY <1>1, <1>2

LEMMA CustodyInit == Init => ICustody
<1> SUFFICES ASSUME Init PROVE ICustody
  OBVIOUS
<1>1. RefundRecorded /\ ExpiryClosed /\ LoggedOutStays /\ ReplacementStays
  BY DEF Init, RefundRecorded, ExpiryClosed, LoggedOutStays, ReplacementStays,
     Underway, Reserving, RefundStages, ExpiryStages, Idle, Step
<1>2. UnsentUnknown /\ Custody
  BY DEF Init, UnsentUnknown, Custody
<1> QED
  BY <1>1, <1>2 DEF ICustody

\* the inductive invariant: the rows, the reservations, the logouts under way
IKnown == IRowsWith /\ IReserve /\ ICustody

LEMMA KnownInit == Init => IKnown
BY RowsInit, ReserveInit, CustodyInit DEF IKnown

LEMMA KnownStep == IKnown /\ [Next]_vars => IKnown' /\ CustodySoFar
<1> SUFFICES ASSUME IKnown, [Next]_vars PROVE IKnown' /\ CustodySoFar
  OBVIOUS
<1>1. IRowsWith' /\ StaysCounted /\ Kinds /\ Marks
  BY RowsStep DEF IKnown
<1>2. IReserve'
  BY <1>1, ReserveStep DEF IKnown, ReservedSoFar, IRowsWith
<1>3. RefundKept
  BY StepRefunds DEF IKnown, IRowsWith, IRows
<1>4. CustodySoFar
  BY <1>1, <1>3 DEF IKnown, CustodySoFar
<1>5. ICustody'
  BY <1>4, StagesKept, LogoutsKept, ReplacementsKept, UnsentKept, CustodyKept
  DEF ICustody
<1> QED
  BY <1>1, <1>2, <1>4, <1>5 DEF IKnown

\* Whoever was shown an account's secrets since its last logout still rents the
\* account: every path that ends a rental or moves it to another account logs
\* the account out first, and no delivery or !code that was still in flight
\* shows it to the buyer after that.  Excepted is an account on which a late
\* close took back the refund, or a late verdict the replacement, that the
\* logout was for.
THEOREM CustodyHeld == Spec => []Custody
<1>1. Init => IKnown
  BY KnownInit
<1>2. IKnown /\ [Next]_vars => IKnown'
  BY KnownStep
<1>3. IKnown => Custody
  BY DEF IKnown, ICustody
<1> QED
  BY <1>1, <1>2, <1>3, PTL DEF Spec
-----------------------------------------------------------------------------
(* Whoever was told that the rental is over knows no account               *)

\* a terminal message is sent, or was, only for a rental that ended
NoticeEnded ==
    \A w \in Workers, o \in Orders :
      At(w, "notify") /\ task[w].ord = o => Ended(o)
ToldEnded == \A o \in Orders : told[o] => Ended(o)

LEMMA NoticeStep ==
    TypeOK /\ Kinds /\ NoticeEnded => NoticeEnded'
<1> SUFFICES ASSUME TypeOK, Kinds, NoticeEnded,
                    NEW w \in Workers, NEW o \in Orders,
                    task'[w].at = "notify", task'[w].ord = o
             PROVE  Ended(o)'
  BY DEF NoticeEnded, At
<1>1. Origins /\ RentalsGoOn
  BY OriginsStep, RentalsStep
<1>2. CASE Stays(w, {"notify"})
  BY <1>1, <1>2 DEF Stays, NoticeEnded, At, Ended, RentalsGoOn
<1>3. ASSUME NEW p \in Orders, NoticeClaim(w, p),
             Starts(w, "notify", p, NoAccount)
      PROVE  Ended(o)'
  BY <1>3 DEF NoticeClaim, Starts, ToNotify, Ended, rentalVars
<1> QED
  BY <1>1, <1>2, <1>3 DEF Origins

LEMMA ToldStep ==
    TypeOK /\ Kinds /\ NoticeEnded /\ ToldEnded => ToldEnded'
<1> SUFFICES ASSUME TypeOK, Kinds, NoticeEnded, ToldEnded,
                    NEW o \in Orders, told'[o]
             PROVE  Ended(o)'
  BY DEF ToldEnded
<1>1. Ended(o) => Ended(o)'
  BY RentalsStep DEF RentalsGoOn, Ended
<1>2. CASE Quiet \/ Inspected
  BY <1>1, <1>2 DEF Quiet, Inspected, ToldEnded
<1>3. ASSUME NEW w \in Workers, NEW p \in Orders,
             NEW ok \in BOOLEAN, NEW accepted \in BOOLEAN,
             NoticeSend(w, p, ok, accepted)
      PROVE  Ended(o)'
  BY <1>1, <1>3 DEF NoticeSend, NoticeEnded, ToldEnded, TypeOK, NoticeTypes
<1>4. ASSUME NEW w \in Workers, NEW p \in Orders,
             \/ \E a \in Accounts : \/ FulfillNew(w, p, a)
                                    \/ Reallocate(w, p, a)
                                    \/ ReplaceClaim(w, p, a)
             \/ DeliverSent(w, p) \/ DeliverFailed(w, p) \/ DeliverCrash(w, p)
             \/ CodeSend(w, p) \/ RefundBusy(w, p) \/ RefundClaim(w, p)
             \/ RefundFinalize(w, p) \/ ClaimOverdue(w, p)
             \/ ExpireFinalize(w, p) \/ NoticeClaim(w, p)
             \/ \E ok \in BOOLEAN : \/ RefundKick(w, p, ok)
                                    \/ ExpireKick(w, p, ok)
                                    \/ ReplaceKick(w, p, ok)
             \/ ReplaceStart(w, p) \/ ReplaceDeclined(w, p)
             \/ ReplaceChecked(w, p) \/ ReplaceSwitch(w, p)
      PROVE  told' = told
  BY <1>4 DEF FulfillNew, Reallocate, ReplaceClaim, DeliverSent,
     DeliverFailed, DeliverCrash, CodeSend, RefundBusy, RefundClaim,
     RefundFinalize, ClaimOverdue, ExpireFinalize, NoticeClaim, RefundKick,
     ExpireKick, ReplaceKick, ReplaceStart, ReplaceDeclined, ReplaceChecked,
     ReplaceSwitch, noticeVars
<1> QED
  BY <1>1, <1>2, <1>3, <1>4 DEF Kinds, ActsOnRental, ToldEnded

\* A buyer whom the terminal message told that access is over knows no account:
\* it was logged out before, and no delivery or !code in flight shows it after,
\* unless a late write undid the refund or the replacement the logout was for.
THEOREM ToldIsLoggedOut == Spec => []ToldAfterLogout
<1> DEFINE I == IKnown /\ NoticeEnded /\ ToldEnded
<1>1. Init => I
  BY KnownInit DEF Init, NoticeEnded, ToldEnded, At, Idle, Step
<1>2. I /\ [Next]_vars => I'
  BY KnownStep, NoticeStep, ToldStep
  DEF CustodySoFar, IRowsWith, IRows
<1>3. I => ToldAfterLogout
  BY DEF IKnown, ICustody, Custody, ToldEnded, ToldAfterLogout, Ended, Occupies
<1> QED
  BY <1>1, <1>2, <1>3, PTL DEF Spec
-----------------------------------------------------------------------------
(* The rental core implements the abstract custody of accounts             *)

Renting == [o \in Orders |-> IF Occupies(o) THEN racct[o] ELSE NoAccount]

Custodial == AC!Next \/ UNCHANGED <<Renting, access, overruled>>

\* an account that no order lives on has no renter, and no session of one
LEMMA FreeIfNotRented ==
    ASSUME TypeOK, Custody, NEW a \in Accounts,
           \A p \in Orders : ~(Occupies(p) /\ racct[p] = a)
    PROVE  AC!Free(a)
<1>1. AC!Clean(a)
  BY DEF AC!Clean, Custody, TypeOK, AccessTypes
<1> QED
  BY <1>1, RowsAssumption DEF AC!Free

\* an order that leaves its account leaves it logged out
LEMMA LoggedOutIfLeft ==
    ASSUME TypeOK, Custody, Exclusive, NEW o \in Orders,
           \A a \in Accounts \ overruled : o \notin access[a]
    PROVE  AC!LoggedOut(o)
<1> SUFFICES ASSUME Occupies(o), racct[o] \notin overruled
             PROVE  access[racct[o]] = {}
  BY DEF AC!LoggedOut, AC!Clean
<1>1. racct[o] \in Accounts
  BY DEF TypeOK, RentalTypes, Occupies
<1>2. ASSUME NEW p \in access[racct[o]] PROVE FALSE
  <2>1. p \in Orders /\ Occupies(p) /\ racct[p] = racct[o]
    BY <1>1 DEF Custody, TypeOK, AccessTypes
  <2>2. p = o
    BY <1>1, <2>1 DEF Exclusive, Holds
  <2> QED
    BY <1>1, <2>2
<1> QED
  BY <1>2

LEMMA SameRenting ==
    ASSUME UNCHANGED racct, \A o \in Orders : Occupies(o)' = Occupies(o)
    PROVE  Renting' = Renting
BY DEF Renting

\* what a step does to the renters when only o changes its account
OthersStay(o) ==
    \A p \in Orders \ {o} : rstatus'[p] = rstatus[p] /\ racct'[p] = racct[p]

LEMMA OneRents ==
    ASSUME NEW o \in Orders, NEW a,
           OthersStay(o),
           a = IF Occupies(o)' THEN racct'[o] ELSE NoAccount
    PROVE  Renting' = [Renting EXCEPT ![o] = a]
BY DEF OthersStay, Renting, Occupies

LEMMA RentRefines ==
    ASSUME CustodySoFar, UNCHANGED overruled,
           NEW w \in Workers, NEW o \in Orders,
           NEW a \in Accounts,
           FulfillNew(w, o, a) \/ Reallocate(w, o, a)
    PROVE  AC!Rent(o, a)
<1>0. TypeOK /\ Custody /\ Exclusive
  BY DEF CustodySoFar, IRowsWith, IRows, ICustody
<1>1. AC!Free(a)
  <2>1. Allocatable(o, a)
    BY DEF FulfillNew, Reallocate
  <2> QED
    BY <1>0, <2>1, FreeIfNotRented DEF Allocatable, Holds
<1>2. AC!LoggedOut(o) /\ access' = access
  <2>1. CASE FulfillNew(w, o, a)
    BY <2>1 DEF FulfillNew, AC!LoggedOut, Occupies
  <2>2. CASE Reallocate(w, o, a)
    BY <1>0, <2>2, LeavesKnowingNothing, LoggedOutIfLeft DEF Leaves
  <2> QED
    BY <2>1, <2>2
<1>3. Renting' = [Renting EXCEPT ![o] = a]
  <2>1. /\ OthersStay(o)
        /\ Occupies(o)' /\ racct'[o] = a
    BY <1>0 DEF FulfillNew, Reallocate, StillMine, OthersStay, Occupies, TypeOK,
       RentalTypes
  <2> QED
    BY <2>1, OneRents
<1> QED
  BY <1>1, <1>2, <1>3 DEF AC!Rent, Renting

LEMMA SwitchRefines ==
    ASSUME CustodySoFar, UNCHANGED overruled,
           NEW w \in Workers, NEW o \in Orders,
           ReplaceSwitch(w, o)
    PROVE  \E a \in Accounts : AC!Rent(o, a)
<1>0. TypeOK /\ Custody /\ Exclusive /\ ReservedElsewhere
  BY DEF CustodySoFar, IRowsWith, IRows, ICustody, IReserve
<1>1. /\ target[o] \in Accounts /\ target[o] # racct[o] /\ Occupies(o)
      /\ racct' = [racct EXCEPT ![o] = target[o]] /\ rstatus' = rstatus
  BY <1>0, RowsAssumption
  DEF ReplaceSwitch, ReplaceMatches, OwnsReplacement, Replaceable, Authorised,
     Occupies, ReservedElsewhere, TypeOK, TaskTypes, Tasks,
     Reserving, At
<1>2. AC!Free(target[o])
  BY <1>0, <1>1, FreeIfNotRented DEF Exclusive, Holds
<1>3. AC!LoggedOut(o) /\ access' = access
  BY <1>0, LeavesKnowingNothing, LoggedOutIfLeft DEF Leaves
<1>4. Renting' = [Renting EXCEPT ![o] = target[o]]
  BY <1>0, <1>1, OneRents DEF OthersStay, TypeOK, RentalTypes, Occupies
<1> QED
  BY <1>1, <1>2, <1>3, <1>4 DEF AC!Rent, Renting

LEMMA GiveBackRefines ==
    ASSUME CustodySoFar, UNCHANGED overruled,
           NEW w \in Workers, NEW o \in Orders,
           RefundFinalize(w, o) \/ ExpireFinalize(w, o)
    PROVE  Custodial
<1>0. TypeOK /\ Custody /\ Exclusive
  BY DEF CustodySoFar, IRowsWith, IRows, ICustody
<1>1. CASE \/ RefundFinalize(w, o) /\ task[w].ok /\ RefundMatches(w, o)
           \/ ExpireFinalize(w, o) /\ task[w].ok /\ ExpireMatches(w, o)
  <2>1. AC!LoggedOut(o) /\ access' = access
    BY <1>0, <1>1, LeavesKnowingNothing, LoggedOutIfLeft DEF Leaves
  <2>2. /\ OthersStay(o)
        /\ ~Occupies(o)' /\ Occupies(o) /\ racct[o] \in Accounts
    BY <1>0, <1>1 DEF RefundFinalize, ExpireFinalize, RefundMatches,
       ExpireMatches, OthersStay, Occupies, TypeOK, RentalTypes
  <2>3. Renting' = [Renting EXCEPT ![o] = NoAccount]
    BY <2>2, OneRents
  <2>4. AC!GiveBack(o)
    BY <2>1, <2>2, <2>3, RowsAssumption DEF AC!GiveBack, Renting
  <2> QED
    BY <2>4 DEF Custodial, AC!Next
<1>2. CASE /\ ~(task[w].ok /\ RefundMatches(w, o))
           /\ RefundFinalize(w, o)
  BY <1>2, SameRenting DEF RefundFinalize, Custodial, Occupies
<1>3. CASE /\ ~(task[w].ok /\ ExpireMatches(w, o))
           /\ ExpireFinalize(w, o)
  BY <1>3, SameRenting DEF ExpireFinalize, Custodial, Occupies
<1> QED
  BY <1>1, <1>2, <1>3

LEMMA ShowRefines ==
    ASSUME TypeOK, UNCHANGED overruled, NEW w \in Workers, NEW o \in Orders,
           \/ DeliverSent(w, o) \/ DeliverFailed(w, o) \/ DeliverCrash(w, o)
           \/ CodeSend(w, o)
    PROVE  Custodial
<1>1. UNCHANGED <<rstatus, racct>> /\ rstatus[o] = "active"
  BY DEF DeliverSent, DeliverFailed, DeliverCrash, CodeSend, ReadyToSend,
     StillMine, MayShowCode, Authorised, rentalVars
<1>2. Renting' = Renting
  BY <1>1, SameRenting DEF Occupies
<1>3. access' = access \/ access' = [access EXCEPT ![racct[o]] = @ \cup {o}]
  BY DEF DeliverSent, DeliverFailed, DeliverCrash, CodeSend, Disclosed
<1>4. racct[o] \in Accounts /\ Renting[o] = racct[o]
  BY <1>1 DEF TypeOK, RentalTypes, Renting, Occupies
<1>5. CASE access' = [access EXCEPT ![racct[o]] = @ \cup {o}]
  <2>1. AC!Show(o)
    BY <1>2, <1>4, <1>5, RowsAssumption DEF AC!Show, Renting
  <2> QED
    BY <2>1 DEF Custodial, AC!Next
<1> QED
  BY <1>2, <1>3, <1>5 DEF Custodial

LEMMA KickRefines ==
    ASSUME TypeOK, UNCHANGED overruled,
           NEW w \in Workers, NEW o \in Orders, NEW ok \in BOOLEAN,
           RefundKick(w, o, ok) \/ ExpireKick(w, o, ok) \/ ReplaceKick(w, o, ok)
    PROVE  Custodial
<1>1. UNCHANGED <<rstatus, racct>> /\ Logout(task[w].acct, ok)
  BY DEF RefundKick, ExpireKick, ReplaceKick, rentalVars
<1>2. Renting' = Renting
  BY <1>1, SameRenting DEF Occupies
<1>3. access' = access \/ access' = [access EXCEPT ![task[w].acct] = {}]
  BY <1>1 DEF Logout
<1>4. CASE task[w].acct \in Accounts
  <2>1. PICK a \in Accounts : a = task[w].acct
    BY <1>4
  <2>2. access' = access \/ AC!LogOut(a)
    BY <1>2, <1>3, <2>1 DEF AC!LogOut, Renting
  <2> QED
    BY <1>2, <2>2 DEF Custodial, AC!Next
<1>5. CASE task[w].acct \notin Accounts
  BY <1>2, <1>3, <1>5 DEF Custodial, TypeOK, AccessTypes
<1> QED
  BY <1>4, <1>5

LEMMA CustodialStep == CustodySoFar => Custodial
<1> SUFFICES ASSUME CustodySoFar PROVE Custodial
  OBVIOUS
<1>0. TypeOK /\ Kinds /\ Marks
  BY DEF CustodySoFar, IRowsWith, IRows
<1>7. CASE overruled' # overruled
  <2>1. /\ UNCHANGED <<Renting, access>>
        /\ \E a \in Accounts : overruled' = overruled \cup {a}
    BY <1>0, <1>7, SameRenting DEF Marks, Occupies
  <2> QED
    BY <2>1 DEF Custodial, AC!Next, AC!Lose, Renting
<1> SUFFICES ASSUME UNCHANGED overruled PROVE Custodial
  BY <1>7
<1>1. CASE Quiet
  BY <1>1, SameRenting DEF Quiet, Calm, Occupies, Custodial
<1>2. CASE Inspected
  BY <1>2, SameRenting DEF Inspected, Occupies, Custodial
<1>3. ASSUME NEW w \in Workers, NEW o \in Orders, NEW a \in Accounts,
             FulfillNew(w, o, a) \/ Reallocate(w, o, a)
      PROVE  Custodial
  BY <1>3, RentRefines DEF Custodial, AC!Next
<1>4. ASSUME NEW w \in Workers, NEW o \in Orders, ReplaceSwitch(w, o)
      PROVE  Custodial
  BY <1>4, SwitchRefines DEF Custodial, AC!Next
<1>5. ASSUME NEW w \in Workers, NEW o \in Orders, ClaimOverdue(w, o)
      PROVE  Custodial
  BY <1>0, <1>5, SameRenting DEF ClaimOverdue, Overdue, Occupies, Custodial,
     TypeOK, RentalTypes
\* the others neither touch the rental nor disclose or log out anything
<1>6. ASSUME NEW w \in Workers, NEW o \in Orders,
             \/ \E a \in Accounts : ReplaceClaim(w, o, a)
             \/ RefundBusy(w, o) \/ RefundClaim(w, o) \/ NoticeClaim(w, o)
             \/ \E ok, accepted \in BOOLEAN : NoticeSend(w, o, ok, accepted)
             \/ ReplaceStart(w, o) \/ ReplaceDeclined(w, o)
             \/ ReplaceChecked(w, o)
      PROVE  Custodial
  <2>1. UNCHANGED <<rstatus, racct, access>>
    BY <1>6 DEF ReplaceClaim, RefundBusy, RefundClaim, NoticeClaim,
       NoticeSend, ReplaceStart, ReplaceDeclined, ReplaceChecked, rentalVars
  <2> QED
    BY <2>1, SameRenting DEF Occupies, Custodial
<1> QED
  BY <1>0, <1>1, <1>2, <1>3, <1>4, <1>5, <1>6, GiveBackRefines, ShowRefines,
     KickRefines DEF Kinds, ActsOnRental

\* Every step of the rental core is a step of the abstract custody, or leaves
\* it alone: an account gets a renter only when nobody rents it and all that
\* was shown of it was logged out, an order leaves its account only after a
\* logout, and only the renter is ever shown anything of it.  A late write makes
\* a step of its own there, which only excepts its account from the logouts.
THEOREM RefinesCustody == Spec => KeepsCustody
<1>1. Init => IKnown
  BY KnownInit
<1>2. IKnown /\ [Next]_vars => IKnown' /\ CustodySoFar
  BY KnownStep
<1>3. Init => AC!Init
  BY DEF Init, AC!Init, Occupies
<1>4. CustodySoFar => [AC!Next]_AC!custodyVars
  BY CustodialStep DEF Custodial, Renting, AC!custodyVars
<1> QED
  BY <1>1, <1>2, <1>3, <1>4, PTL DEF Spec, KeepsCustody, AC!Spec
=============================================================================
