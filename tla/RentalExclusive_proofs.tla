----------------------- MODULE RentalExclusive_proofs -----------------------
(***************************************************************************)
(* An account is kept by one order at a time, and no check of the queue    *)
(* runs on a kept account, for every value of the constants.  Every step   *)
(* either gives no order an account it did not have, or gives one order    *)
(* one account that the pool, looking at the locked rows, found free: both *)
(* invariants follow from that alone.                                      *)
(***************************************************************************)
EXTENDS RentalTypes_proofs

\* no order keeps an account it did not keep before
NoGain == \A p \in Orders, b \in Accounts : Holds(p, b)' => Holds(p, b)

\* o gets a, which the pool found free, and nobody gets anything else
Gain(o, a) ==
    /\ Allocatable(o, a) /\ UNCHANGED job
    /\ \A p \in Orders, b \in Accounts :
         Holds(p, b)' => Holds(p, b) \/ (p = o /\ b = a)

GainsAtMostOne == NoGain \/ \E o \in Orders, a \in Accounts : Gain(o, a)

LEMMA NoGainIfSame == UNCHANGED <<rstatus, racct, target>> => NoGain
BY DEF NoGain, Holds, Occupies

LEMMA RentalServiceGains == TypeOK /\ RentalServiceNext => GainsAtMostOne
<1> SUFFICES ASSUME TypeOK, RentalServiceNext PROVE GainsAtMostOne
  OBVIOUS
<1> USE DEF GainsAtMostOne
<1>1. ASSUME NEW w \in Workers, NEW o \in Orders, NEW a \in Accounts,
             FulfillNew(w, o, a)
      PROVE  GainsAtMostOne
  <2>1. Gain(o, a)
    BY <1>1 DEF FulfillNew, Gain, Holds, Occupies, TypeOK, RentalTypes,
       LeaseTypes, leaseVars, rentalVars, accountVars
  <2> QED
    BY <2>1
<1>2. ASSUME NEW w \in Workers, NEW o \in Orders, NEW a \in Accounts,
             Reallocate(w, o, a)
      PROVE  GainsAtMostOne
  <2>1. Gain(o, a)
    BY <1>2 DEF Reallocate, Gain, Holds, Occupies, TypeOK, RentalTypes,
       LeaseTypes, leaseVars, rentalVars, accountVars
  <2> QED
    BY <2>1
\* the other actions write neither the rental's account nor a reservation
<1>3. ASSUME NEW w \in Workers, NEW o \in Orders,
            
             \/ FulfillAgain(w, o) \/ FulfillNothing(w, o)
             \/ DeliverRefused(w, o) \/ DeliverManual(w, o)
             \/ DeliverBoundary(w, o) \/ DeliverSent(w, o)
             \/ DeliverFailed(w, o) \/ DeliverCrash(w, o) \/ SweepClose(w, o)
             \/ OperatorRetry(w, o)
      PROVE  GainsAtMostOne
  BY <1>3, NoGainIfSame DEF FulfillAgain, FulfillNothing, DeliverRefused,
     DeliverManual, DeliverBoundary, DeliverSent, DeliverFailed, DeliverCrash,
     SweepClose, OperatorRetry, rentalVars, leaseVars
<1>4. ASSUME NEW o \in Orders,
             DeliveryDue(o)
      PROVE  GainsAtMostOne
  BY <1>4, NoGainIfSame DEF DeliveryDue, rentalVars, leaseVars
<1> QED
  BY <1>1, <1>2, <1>3, <1>4
  DEF RentalServiceNext

LEMMA OrderProcessorGains == TypeOK /\ OrderProcessorNext => GainsAtMostOne
<1> SUFFICES ASSUME TypeOK, OrderProcessorNext PROVE GainsAtMostOne
  OBVIOUS
<1> USE DEF GainsAtMostOne
<1>1. ASSUME NEW w \in Workers, NEW o \in Orders, RefundEnded(w, o)
      PROVE  GainsAtMostOne
  BY <1>1, RowsAssumption DEF RefundEnded, NoGain, Holds, Occupies, TypeOK,
     RentalTypes, LeaseTypes, leaseVars, rentalVars, DropLease
<1>2. ASSUME NEW w \in Workers, NEW o \in Orders, RefundClaim(w, o)
      PROVE  GainsAtMostOne
  BY <1>2, RowsAssumption DEF RefundClaim, NoGain, Holds, Occupies, TypeOK,
     RentalTypes, LeaseTypes, leaseVars, rentalVars, TakeLease
<1>3. ASSUME NEW w \in Workers, NEW o \in Orders, RefundFinalize(w, o)
      PROVE  GainsAtMostOne
  BY <1>3 DEF RefundFinalize, NoGain, Holds, Occupies, TypeOK, RentalTypes,
     LeaseTypes, leaseVars, rentalVars, DropLease, RefundMatches
\* the other actions write neither the rental's account nor a reservation
<1>4. ASSUME NEW w \in Workers, NEW o \in Orders,
            
             NewSale(w, o) \/ RefundBusy(w, o)
      PROVE  GainsAtMostOne
  BY <1>4, NoGainIfSame DEF NewSale, RefundBusy, rentalVars, leaseVars
<1>5. ASSUME NEW w \in Workers, NEW o \in Orders, NEW ok \in BOOLEAN,
            
             RefundKick(w, o, ok)
      PROVE  GainsAtMostOne
  BY <1>5, NoGainIfSame DEF RefundKick, rentalVars, leaseVars
<1>6. ASSUME NEW o \in Orders,
             SaleClosed(o)
      PROVE  GainsAtMostOne
  BY <1>6, NoGainIfSame DEF SaleClosed, rentalVars, leaseVars
<1>7. ASSUME NEW o \in Orders, NEW end \in SaleEnds,
            
             RemoteEnds(o, end)
      PROVE  GainsAtMostOne
  BY <1>7, NoGainIfSame DEF RemoteEnds, rentalVars, leaseVars
<1> QED
  BY <1>1, <1>2, <1>3, <1>4, <1>5, <1>6, <1>7
  DEF OrderProcessorNext

LEMMA RentalExpiryGains == TypeOK /\ RentalExpiryNext => GainsAtMostOne
<1> SUFFICES ASSUME TypeOK, RentalExpiryNext PROVE GainsAtMostOne
  OBVIOUS
<1> USE DEF GainsAtMostOne
<1>1. ASSUME NEW w \in Workers, NEW o \in Orders, ClaimOverdue(w, o)
      PROVE  GainsAtMostOne
  BY <1>1, RowsAssumption DEF ClaimOverdue, NoGain, Holds, Occupies, TypeOK,
     RentalTypes, LeaseTypes, leaseVars, rentalVars, TakeLease, Overdue
<1>2. ASSUME NEW w \in Workers, NEW o \in Orders, ExpireFinalize(w, o)
      PROVE  GainsAtMostOne
  BY <1>2 DEF ExpireFinalize, NoGain, Holds, Occupies, TypeOK, RentalTypes,
     LeaseTypes, leaseVars, rentalVars, DropLease, ExpireMatches
<1>3. ASSUME NEW o \in Orders, ReleaseStaleReservation(o)
      PROVE  GainsAtMostOne
  BY <1>3, RowsAssumption DEF ReleaseStaleReservation, NoGain, Holds, Occupies,
     TypeOK, RentalTypes, LeaseTypes, leaseVars, rentalVars, DropLease
\* the other actions write neither the rental's account nor a reservation
<1>4. ASSUME NEW w \in Workers, NEW o \in Orders, NEW ok \in BOOLEAN,
            
             ExpireKick(w, o, ok)
      PROVE  GainsAtMostOne
  BY <1>4, NoGainIfSame DEF ExpireKick, rentalVars, leaseVars
<1>5. ASSUME NEW w \in Workers, NEW o \in Orders,
            
             NoticeClaim(w, o)
      PROVE  GainsAtMostOne
  BY <1>5, NoGainIfSame DEF NoticeClaim, rentalVars,
     leaseVars
<1>6. ASSUME NEW w \in Workers, NEW o \in Orders,
             NEW ok \in BOOLEAN, NEW accepted \in BOOLEAN,
            
             NoticeSend(w, o, ok, accepted)
      PROVE  GainsAtMostOne
  BY <1>6, NoGainIfSame DEF NoticeSend, rentalVars, leaseVars
<1>7. ASSUME NEW o \in Orders,
             TermPasses(o) \/ LeaseExpires(o)
      PROVE  GainsAtMostOne
  BY <1>7, NoGainIfSame DEF TermPasses, LeaseExpires, rentalVars, leaseVars
<1> QED
  BY <1>1, <1>2, <1>3, <1>4, <1>5, <1>6, <1>7
  DEF RentalExpiryNext

LEMMA CommandHandlersGains == TypeOK /\ CommandHandlersNext => GainsAtMostOne
<1> SUFFICES ASSUME TypeOK, CommandHandlersNext PROVE GainsAtMostOne
  OBVIOUS
<1> USE DEF GainsAtMostOne
<1>1. ASSUME NEW w \in Workers, NEW o \in Orders, CommandTooLate(w, o)
      PROVE  GainsAtMostOne
  BY <1>1 DEF CommandTooLate, NoGain, Holds, Occupies, TypeOK, RentalTypes,
     LeaseTypes, leaseVars, rentalVars, CloseOnCommand
<1>2. ASSUME NEW w \in Workers, NEW o \in Orders, CodeRefused(w, o)
      PROVE  GainsAtMostOne
  BY <1>2 DEF CodeRefused, NoGain, Holds, Occupies, TypeOK, RentalTypes,
     LeaseTypes, leaseVars, rentalVars, CloseOnCommand
<1>3. ASSUME NEW w \in Workers, NEW o \in Orders, ReplaceStart(w, o)
      PROVE  GainsAtMostOne
  BY <1>3, RowsAssumption DEF ReplaceStart, NoGain, Holds, Occupies, TypeOK,
     RentalTypes, LeaseTypes, leaseVars, rentalVars, DropLease
<1>4. ASSUME NEW w \in Workers, NEW o \in Orders, NEW a \in Accounts,
             ReplaceClaim(w, o, a)
      PROVE  GainsAtMostOne
  <2>1. Gain(o, a)
    BY <1>4 DEF ReplaceClaim, Gain, Holds, Occupies, TypeOK, RentalTypes,
       LeaseTypes, leaseVars, rentalVars, accountVars
  <2> QED
    BY <2>1
<1>5. ASSUME NEW w \in Workers, NEW o \in Orders, ReplaceNoAccount(w, o)
      PROVE  GainsAtMostOne
  BY <1>5, RowsAssumption DEF ReplaceNoAccount, NoGain, Holds, Occupies,
     TypeOK, RentalTypes, LeaseTypes, leaseVars, rentalVars, DropLease
<1>6. ASSUME NEW w \in Workers, NEW o \in Orders, ReplaceRefused(w, o)
      PROVE  GainsAtMostOne
  BY <1>6 DEF ReplaceRefused, NoGain, Holds, Occupies, TypeOK, RentalTypes,
     LeaseTypes, leaseVars, rentalVars, CloseOnCommand
<1>7. ASSUME NEW w \in Workers, NEW o \in Orders, ReplaceSwitch(w, o)
      PROVE  GainsAtMostOne
  BY <1>7, RowsAssumption DEF ReplaceSwitch, NoGain, Holds, Occupies, TypeOK,
     RentalTypes, LeaseTypes, leaseVars, rentalVars, DropLease, ReplaceMatches,
     OwnsReplacement
<1>8. ASSUME NEW w \in Workers, NEW o \in Orders, ReplaceGiveUp(w, o)
      PROVE  GainsAtMostOne
  BY <1>8, RowsAssumption DEF ReplaceGiveUp, NoGain, Holds, Occupies, TypeOK,
     RentalTypes, LeaseTypes, leaseVars, rentalVars, DropLease, CloseOnCommand
\* the other actions write neither the rental's account nor a reservation
<1>9. ASSUME NEW w \in Workers, NEW o \in Orders,
            
             \/ CodeClaim(w, o) \/ CodeSend(w, o) \/ ReplaceDeclined(w, o)
             \/ ReplaceChecked(w, o)
      PROVE  GainsAtMostOne
  BY <1>9, NoGainIfSame DEF CodeClaim, CodeSend, ReplaceDeclined,
     ReplaceChecked, rentalVars, leaseVars
<1>10. ASSUME NEW w \in Workers, NEW o \in Orders, NEW ok \in BOOLEAN,
            
             ReplaceKick(w, o, ok)
      PROVE  GainsAtMostOne
  BY <1>10, NoGainIfSame DEF ReplaceKick, rentalVars, leaseVars
<1> QED
  BY <1>1, <1>2, <1>3, <1>4, <1>5, <1>6, <1>7, <1>8, <1>9, <1>10
  DEF CommandHandlersNext

LEMMA AccountChecksGains == TypeOK /\ AccountChecksNext => GainsAtMostOne
<1> SUFFICES ASSUME TypeOK, AccountChecksNext PROVE GainsAtMostOne
  OBVIOUS
<1> USE DEF GainsAtMostOne
\* the other actions write neither the rental's account nor a reservation
<1>1. ASSUME NEW a \in Accounts,
            
             \/ EnqueueCheck(a) \/ StartCheck(a) \/ FinishRerun(a)
             \/ RequeueCheck(a) \/ Recheck(a) \/ Suspend(a)
      PROVE  GainsAtMostOne
  BY <1>1, NoGainIfSame DEF EnqueueCheck, StartCheck, FinishRerun,
     RequeueCheck, Recheck, Suspend, rentalVars, leaseVars, restVars
<1>2. ASSUME NEW a \in Accounts, NEW s \in AccountStatus,
            
             FinishCheck(a, s)
      PROVE  GainsAtMostOne
  BY <1>2, NoGainIfSame DEF FinishCheck, rentalVars, leaseVars, restVars
<1> QED
  BY <1>1, <1>2
  DEF AccountChecksNext

LEMMA StepGains == TypeOK /\ [Next]_vars => GainsAtMostOne
<1> SUFFICES ASSUME TypeOK, [Next]_vars PROVE GainsAtMostOne
  OBVIOUS
<1>1. CASE UNCHANGED vars
  BY <1>1, NoGainIfSame DEF GainsAtMostOne, vars, rentalVars, leaseVars
<1>2. ASSUME NEW w \in Workers, Abandon(w)
      PROVE  GainsAtMostOne
  BY <1>2, NoGainIfSame DEF GainsAtMostOne, Abandon, rentalVars, leaseVars
<1> QED
  BY <1>1, <1>2, RentalServiceGains, OrderProcessorGains, RentalExpiryGains,
     CommandHandlersGains, AccountChecksGains DEF Next

LEMMA ExclusiveInit == Init => Exclusive
BY RowsAssumption DEF Init, Exclusive, Holds, Occupies

LEMMA ExclusiveStep ==
    ASSUME Exclusive, GainsAtMostOne
    PROVE  Exclusive'
<1>1. CASE NoGain
  BY <1>1 DEF NoGain, Exclusive
<1>2. ASSUME NEW o \in Orders, NEW a \in Accounts, Gain(o, a)
      PROVE  Exclusive'
  <2> SUFFICES ASSUME NEW p \in Orders, NEW q \in Orders, NEW b \in Accounts,
                      Holds(p, b)', Holds(q, b)'
               PROVE  p = q
    BY DEF Exclusive
  <2>1. CASE b = a
    \* the pool found nobody else on it
    BY <1>2, <2>1 DEF Gain, Allocatable
  <2>2. CASE b # a
    BY <1>2, <2>2 DEF Gain, Exclusive
  <2> QED
    BY <2>1, <2>2
<1> QED
  BY <1>1, <1>2 DEF GainsAtMostOne

\* At every moment an account is kept (rented, reserved) by one order at most,
\* however many orders, accounts and operations interleave: allocation,
\* reallocation and replacement all look again once the Account row is locked.
THEOREM OneOrderPerAccount == Spec => []Exclusive
<1>1. Init => Exclusive
  BY ExclusiveInit
<1>2. TypeOK /\ Exclusive /\ [Next]_vars => Exclusive'
  BY StepGains, ExclusiveStep
<1> QED
  BY <1>1, <1>2, TypeCorrect, PTL DEF Spec

-----------------------------------------------------------------------------
\* A check starts only on an account nobody keeps.
ChecksStartFree ==
    \A a \in Accounts : job'[a] = "running" => job[a] = "running" \/ ~Busy(a)

LEMMA SameJobs == UNCHANGED job => ChecksStartFree
BY DEF ChecksStartFree

LEMMA RentalServiceJobs == TypeOK /\ RentalServiceNext => ChecksStartFree
<1> SUFFICES ASSUME TypeOK, RentalServiceNext PROVE ChecksStartFree
  OBVIOUS
\* the other actions leave the queue alone
<1>1. ASSUME NEW w \in Workers, NEW o \in Orders, NEW a \in Accounts,
            
             FulfillNew(w, o, a) \/ Reallocate(w, o, a)
      PROVE  ChecksStartFree
  BY <1>1, SameJobs DEF FulfillNew, Reallocate, accountVars
<1>2. ASSUME NEW w \in Workers, NEW o \in Orders,
            
             \/ FulfillAgain(w, o) \/ FulfillNothing(w, o)
             \/ DeliverRefused(w, o) \/ DeliverManual(w, o)
             \/ DeliverBoundary(w, o) \/ DeliverSent(w, o)
             \/ DeliverFailed(w, o) \/ DeliverCrash(w, o) \/ SweepClose(w, o)
             \/ OperatorRetry(w, o)
      PROVE  ChecksStartFree
  BY <1>2, SameJobs DEF FulfillAgain, FulfillNothing, DeliverRefused,
     DeliverManual, DeliverBoundary, DeliverSent, DeliverFailed, DeliverCrash,
     SweepClose, OperatorRetry, accountVars
<1>3. ASSUME NEW o \in Orders,
             DeliveryDue(o)
      PROVE  ChecksStartFree
  BY <1>3, SameJobs DEF DeliveryDue, accountVars
<1> QED
  BY <1>1, <1>2, <1>3
  DEF RentalServiceNext

LEMMA OrderProcessorJobs == TypeOK /\ OrderProcessorNext => ChecksStartFree
<1> SUFFICES ASSUME TypeOK, OrderProcessorNext PROVE ChecksStartFree
  OBVIOUS
<1>1. ASSUME NEW w \in Workers, NEW o \in Orders, RefundFinalize(w, o)
      PROVE  ChecksStartFree
  BY <1>1 DEF RefundFinalize, ChecksStartFree, TypeOK, AccountTypes, Enqueued,
     accountVars
\* the other actions leave the queue alone
<1>2. ASSUME NEW w \in Workers, NEW o \in Orders,
            
             \/ NewSale(w, o) \/ RefundEnded(w, o) \/ RefundBusy(w, o)
             \/ RefundClaim(w, o)
      PROVE  ChecksStartFree
  BY <1>2, SameJobs DEF NewSale, RefundEnded, RefundBusy, RefundClaim,
     accountVars
<1>3. ASSUME NEW w \in Workers, NEW o \in Orders, NEW ok \in BOOLEAN,
            
             RefundKick(w, o, ok)
      PROVE  ChecksStartFree
  BY <1>3, SameJobs DEF RefundKick, accountVars
<1>4. ASSUME NEW o \in Orders,
             SaleClosed(o)
      PROVE  ChecksStartFree
  BY <1>4, SameJobs DEF SaleClosed, accountVars
<1>5. ASSUME NEW o \in Orders, NEW end \in SaleEnds,
            
             RemoteEnds(o, end)
      PROVE  ChecksStartFree
  BY <1>5, SameJobs DEF RemoteEnds, accountVars
<1> QED
  BY <1>1, <1>2, <1>3, <1>4, <1>5
  DEF OrderProcessorNext

LEMMA RentalExpiryJobs == TypeOK /\ RentalExpiryNext => ChecksStartFree
<1> SUFFICES ASSUME TypeOK, RentalExpiryNext PROVE ChecksStartFree
  OBVIOUS
<1>1. ASSUME NEW w \in Workers, NEW o \in Orders, NEW ok \in BOOLEAN,
             ExpireKick(w, o, ok)
      PROVE  ChecksStartFree
  BY <1>1 DEF ExpireKick, ChecksStartFree, TypeOK, AccountTypes, Enqueued
\* the other actions leave the queue alone
<1>2. ASSUME NEW w \in Workers, NEW o \in Orders,
            
             \/ ClaimOverdue(w, o) \/ ExpireFinalize(w, o)
             \/ NoticeClaim(w, o)
      PROVE  ChecksStartFree
  BY <1>2, SameJobs DEF ClaimOverdue, ExpireFinalize,
     NoticeClaim, accountVars
<1>3. ASSUME NEW w \in Workers, NEW o \in Orders,
             NEW ok \in BOOLEAN, NEW accepted \in BOOLEAN,
            
             NoticeSend(w, o, ok, accepted)
      PROVE  ChecksStartFree
  BY <1>3, SameJobs DEF NoticeSend, accountVars
<1>4. ASSUME NEW o \in Orders,
            
             ReleaseStaleReservation(o) \/ TermPasses(o) \/ LeaseExpires(o)
      PROVE  ChecksStartFree
  BY <1>4, SameJobs DEF ReleaseStaleReservation, TermPasses, LeaseExpires,
     accountVars
<1> QED
  BY <1>1, <1>2, <1>3, <1>4
  DEF RentalExpiryNext

LEMMA CommandHandlersJobs == TypeOK /\ CommandHandlersNext => ChecksStartFree
<1> SUFFICES ASSUME TypeOK, CommandHandlersNext PROVE ChecksStartFree
  OBVIOUS
<1>1. ASSUME NEW w \in Workers, NEW o \in Orders, ReplaceSwitch(w, o)
      PROVE  ChecksStartFree
  BY <1>1 DEF ReplaceSwitch, ChecksStartFree, TypeOK, AccountTypes, Enqueued
\* the other actions leave the queue alone
<1>2. ASSUME NEW w \in Workers, NEW o \in Orders,
            
             \/ CommandTooLate(w, o) \/ CodeClaim(w, o) \/ CodeSend(w, o)
             \/ CodeRefused(w, o) \/ ReplaceStart(w, o)
             \/ ReplaceDeclined(w, o) \/ ReplaceChecked(w, o)
             \/ ReplaceNoAccount(w, o) \/ ReplaceRefused(w, o)
             \/ ReplaceGiveUp(w, o)
      PROVE  ChecksStartFree
  BY <1>2, SameJobs DEF CommandTooLate, CodeClaim, CodeSend, CodeRefused,
     ReplaceStart, ReplaceDeclined, ReplaceChecked, ReplaceNoAccount,
     ReplaceRefused, ReplaceGiveUp, accountVars
<1>3. ASSUME NEW w \in Workers, NEW o \in Orders, NEW a \in Accounts,
            
             ReplaceClaim(w, o, a)
      PROVE  ChecksStartFree
  BY <1>3, SameJobs DEF ReplaceClaim, accountVars
<1>4. ASSUME NEW w \in Workers, NEW o \in Orders, NEW ok \in BOOLEAN,
            
             ReplaceKick(w, o, ok)
      PROVE  ChecksStartFree
  BY <1>4, SameJobs DEF ReplaceKick, accountVars
<1> QED
  BY <1>1, <1>2, <1>3, <1>4
  DEF CommandHandlersNext

LEMMA AccountChecksJobs == TypeOK /\ AccountChecksNext => ChecksStartFree
<1> SUFFICES ASSUME TypeOK, AccountChecksNext PROVE ChecksStartFree
  OBVIOUS
<1>1. ASSUME NEW a \in Accounts, EnqueueCheck(a)
      PROVE  ChecksStartFree
  BY <1>1 DEF EnqueueCheck, ChecksStartFree, TypeOK, AccountTypes, Enqueued
<1>2. ASSUME NEW a \in Accounts, StartCheck(a)
      PROVE  ChecksStartFree
  BY <1>2 DEF StartCheck, ChecksStartFree, TypeOK, AccountTypes
<1>3. ASSUME NEW a \in Accounts, NEW s \in AccountStatus, FinishCheck(a, s)
      PROVE  ChecksStartFree
  BY <1>3 DEF FinishCheck, ChecksStartFree, TypeOK, AccountTypes
<1>4. ASSUME NEW a \in Accounts, FinishRerun(a)
      PROVE  ChecksStartFree
  BY <1>4 DEF FinishRerun, ChecksStartFree, TypeOK, AccountTypes
<1>5. ASSUME NEW a \in Accounts, RequeueCheck(a)
      PROVE  ChecksStartFree
  BY <1>5 DEF RequeueCheck, ChecksStartFree, TypeOK, AccountTypes
<1>6. ASSUME NEW a \in Accounts, Recheck(a)
      PROVE  ChecksStartFree
  BY <1>6 DEF Recheck, ChecksStartFree, TypeOK, AccountTypes, Enqueued
\* the other actions leave the queue alone
<1>7. ASSUME NEW a \in Accounts,
             Suspend(a)
      PROVE  ChecksStartFree
  BY <1>7, SameJobs DEF Suspend, accountVars
<1> QED
  BY <1>1, <1>2, <1>3, <1>4, <1>5, <1>6, <1>7
  DEF AccountChecksNext

LEMMA StepJobs == TypeOK /\ [Next]_vars => ChecksStartFree
<1> SUFFICES ASSUME TypeOK, [Next]_vars PROVE ChecksStartFree
  OBVIOUS
<1>1. CASE UNCHANGED vars
  BY <1>1, SameJobs DEF vars, accountVars
<1>2. ASSUME NEW w \in Workers, Abandon(w)
      PROVE  ChecksStartFree
  BY <1>2, SameJobs DEF Abandon, accountVars
<1> QED
  BY <1>1, <1>2, RentalServiceJobs, OrderProcessorJobs, RentalExpiryJobs,
     CommandHandlersJobs, AccountChecksJobs DEF Next

LEMMA NoCheckStep ==
    ASSUME NoCheckUnderBuyer, GainsAtMostOne, ChecksStartFree
    PROVE  NoCheckUnderBuyer'
<1> SUFFICES ASSUME NEW b \in Accounts, job'[b] = "running",
                    NEW p \in Orders, Holds(p, b)'
             PROVE  FALSE
  BY DEF NoCheckUnderBuyer, Busy
<1>1. ~Busy(b)
  BY DEF ChecksStartFree, NoCheckUnderBuyer
<1>2. CASE NoGain
  BY <1>1, <1>2 DEF NoGain, Busy
<1>3. ASSUME NEW o \in Orders, NEW a \in Accounts, Gain(o, a)
      PROVE  FALSE
  \* what is allocated has no job, and none starts in the same transaction
  BY <1>1, <1>3 DEF Gain, Allocatable, Busy
<1> QED
  BY <1>2, <1>3 DEF GainsAtMostOne

\* No queued check logs in to an account while an order rents it or has it
\* reserved: what the pool hands out has no active job, and the worker fetches
\* no job of a kept account.
THEOREM NoCheckOfKeptAccount == Spec => []NoCheckUnderBuyer
<1>1. Init => NoCheckUnderBuyer
  BY DEF Init, NoCheckUnderBuyer
<1>2. TypeOK /\ NoCheckUnderBuyer /\ [Next]_vars => NoCheckUnderBuyer'
  BY StepGains, StepJobs, NoCheckStep
<1> QED
  BY <1>1, <1>2, TypeCorrect, PTL DEF Spec
=============================================================================
