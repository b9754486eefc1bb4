------------------------- MODULE RentalTerms_proofs -------------------------
(***************************************************************************)
(* Two promises about a rental's end, for every value of the constants:    *)
(* the paid term of a buyer who could not have got anything does not run   *)
(* out, and a refund that was recorded is final as long as the sweep does  *)
(* not write the status of a sale it saw confirmed.                        *)
(***************************************************************************)
EXTENDS RentalTypes_proofs

-----------------------------------------------------------------------------
(* No rental expires before its first send                                 *)

\* an operation past its boundary has counted an attempt
Counted == \A w \in Workers : At(w, "boundary") => task[w].n # 0

\* a delivery that was sent has counted one
SentCounted == \A o \in Orders : dstatus[o] = "sent" => ~InitialUnsent(o)

IExpiry == TypeOK /\ Counted /\ SentCounted /\ NoExpiryBeforeSend

LEMMA SameTasks == Counted /\ UNCHANGED task => Counted'
BY DEF Counted, At

LEMMA RentalServiceCounts == TypeOK /\ Counted /\ RentalServiceNext => Counted'
<1> SUFFICES ASSUME TypeOK, Counted, RentalServiceNext PROVE Counted'
  OBVIOUS
<1>1. ASSUME NEW w \in Workers, NEW o \in Orders, NEW a \in Accounts,
             FulfillNew(w, o, a)
      PROVE  Counted'
  BY <1>1 DEF FulfillNew, Counted, TypeOK, TaskTypes, At, Begin, Delivering,
     Step
<1>2. ASSUME NEW w \in Workers, NEW o \in Orders, NEW a \in Accounts,
             Reallocate(w, o, a)
      PROVE  Counted'
  BY <1>2 DEF Reallocate, Counted, TypeOK, TaskTypes, At, Begin
<1>3. ASSUME NEW w \in Workers, NEW o \in Orders, FulfillAgain(w, o)
      PROVE  Counted'
  BY <1>3 DEF FulfillAgain, Counted, TypeOK, TaskTypes, At, Begin, Delivering,
     Step
<1>4. ASSUME NEW w \in Workers, NEW o \in Orders, FulfillNothing(w, o)
      PROVE  Counted'
  BY <1>4 DEF FulfillNothing, Counted, TypeOK, TaskTypes, At, Finish, Step,
     Idle
<1>5. ASSUME NEW w \in Workers, NEW o \in Orders, DeliverRefused(w, o)
      PROVE  Counted'
  BY <1>5 DEF DeliverRefused, Counted, TypeOK, TaskTypes, At, Finish, Step,
     Idle
<1>6. ASSUME NEW w \in Workers, NEW o \in Orders, DeliverManual(w, o)
      PROVE  Counted'
  BY <1>6 DEF DeliverManual, Counted, TypeOK, TaskTypes, At, Finish, Step, Idle
<1>7. ASSUME NEW w \in Workers, NEW o \in Orders, DeliverBoundary(w, o)
      PROVE  Counted'
  BY <1>7 DEF DeliverBoundary, Counted, TypeOK, TaskTypes, At, DeliveryTypes,
     Begin
<1>8. ASSUME NEW w \in Workers, NEW o \in Orders, DeliverSent(w, o)
      PROVE  Counted'
  BY <1>8 DEF DeliverSent, Counted, TypeOK, TaskTypes, At, Begin, Finish, Step,
     Idle
<1>9. ASSUME NEW w \in Workers, NEW o \in Orders, DeliverFailed(w, o)
      PROVE  Counted'
  BY <1>9 DEF DeliverFailed, Counted, TypeOK, TaskTypes, At, Finish, Step, Idle
<1>10. ASSUME NEW w \in Workers, NEW o \in Orders, DeliverCrash(w, o)
      PROVE  Counted'
  BY <1>10 DEF DeliverCrash, Counted, TypeOK, TaskTypes, At, Finish, Step, Idle
<1>11. ASSUME NEW w \in Workers, NEW o \in Orders, SweepClose(w, o)
      PROVE  Counted'
  BY <1>11 DEF SweepClose, Counted, TypeOK, TaskTypes, At, Finish, Step, Idle
<1>12. ASSUME NEW w \in Workers, NEW o \in Orders, OperatorRetry(w, o)
      PROVE  Counted'
  BY <1>12 DEF OperatorRetry, Counted, TypeOK, TaskTypes, At, Begin, Step, Idle
\* the other actions leave the operations in flight alone
<1>13. ASSUME NEW o \in Orders,
             DeliveryDue(o)
      PROVE  Counted'
  BY <1>13, SameTasks DEF DeliveryDue
<1> QED
  BY <1>1, <1>2, <1>3, <1>4, <1>5, <1>6, <1>7, <1>8, <1>9, <1>10,
     <1>11, <1>12, <1>13
  DEF RentalServiceNext

LEMMA OrderProcessorCounts ==
    TypeOK /\ Counted /\ OrderProcessorNext => Counted'
<1> SUFFICES ASSUME TypeOK, Counted, OrderProcessorNext PROVE Counted'
  OBVIOUS
<1>1. ASSUME NEW w \in Workers, NEW o \in Orders, NewSale(w, o)
      PROVE  Counted'
  BY <1>1 DEF NewSale, Counted, TypeOK, TaskTypes, At, Begin, Step, Idle
<1>2. ASSUME NEW w \in Workers, NEW o \in Orders, RefundEnded(w, o)
      PROVE  Counted'
  BY <1>2 DEF RefundEnded, Counted, TypeOK, TaskTypes, At, Finish, Step, Idle
<1>3. ASSUME NEW w \in Workers, NEW o \in Orders, RefundBusy(w, o)
      PROVE  Counted'
  BY <1>3 DEF RefundBusy, Counted, TypeOK, TaskTypes, At, Finish, Step, Idle
<1>4. ASSUME NEW w \in Workers, NEW o \in Orders, RefundClaim(w, o)
      PROVE  Counted'
  BY <1>4 DEF RefundClaim, Counted, TypeOK, TaskTypes, At, Begin, Step
<1>5. ASSUME NEW w \in Workers, NEW o \in Orders, NEW ok \in BOOLEAN,
             RefundKick(w, o, ok)
      PROVE  Counted'
  BY <1>5 DEF RefundKick, Counted, TypeOK, TaskTypes, At, Begin
<1>6. ASSUME NEW w \in Workers, NEW o \in Orders, RefundFinalize(w, o)
      PROVE  Counted'
  BY <1>6 DEF RefundFinalize, Counted, TypeOK, TaskTypes, At, Finish, Step,
     Idle
\* the other actions leave the operations in flight alone
<1>7. ASSUME NEW o \in Orders,
             SaleClosed(o)
      PROVE  Counted'
  BY <1>7, SameTasks DEF SaleClosed
<1>8. ASSUME NEW o \in Orders, NEW end \in SaleEnds,
             RemoteEnds(o, end)
      PROVE  Counted'
  BY <1>8, SameTasks DEF RemoteEnds
<1> QED
  BY <1>1, <1>2, <1>3, <1>4, <1>5, <1>6, <1>7, <1>8
  DEF OrderProcessorNext

LEMMA RentalExpiryCounts == TypeOK /\ Counted /\ RentalExpiryNext => Counted'
<1> SUFFICES ASSUME TypeOK, Counted, RentalExpiryNext PROVE Counted'
  OBVIOUS
<1>1. ASSUME NEW w \in Workers, NEW o \in Orders, ClaimOverdue(w, o)
      PROVE  Counted'
  BY <1>1 DEF ClaimOverdue, Counted, TypeOK, TaskTypes, At, Begin, Step, Idle
<1>2. ASSUME NEW w \in Workers, NEW o \in Orders, ExpireFinalize(w, o)
      PROVE  Counted'
  BY <1>2 DEF ExpireFinalize, Counted, TypeOK, TaskTypes, At, Finish, Step,
     Idle
<1>3. ASSUME NEW w \in Workers, NEW o \in Orders, NEW ok \in BOOLEAN,
             ExpireKick(w, o, ok)
      PROVE  Counted'
  BY <1>3 DEF ExpireKick, Counted, TypeOK, TaskTypes, At, Begin
<1>4. ASSUME NEW w \in Workers, NEW o \in Orders, NoticeClaim(w, o)
      PROVE  Counted'
  BY <1>4 DEF NoticeClaim, Counted, TypeOK, TaskTypes, At, Begin, Step, Idle
<1>5. ASSUME NEW w \in Workers, NEW o \in Orders,
             NEW ok \in BOOLEAN, NEW accepted \in BOOLEAN,
             NoticeSend(w, o, ok, accepted)
      PROVE  Counted'
  BY <1>5 DEF NoticeSend, Counted, TypeOK, TaskTypes, At, Finish, Step, Idle
\* the other actions leave the operations in flight alone
<1>6. ASSUME NEW o \in Orders,
             ReleaseStaleReservation(o) \/ TermPasses(o) \/ LeaseExpires(o)
      PROVE  Counted'
  BY <1>6, SameTasks DEF ReleaseStaleReservation, TermPasses, LeaseExpires
<1> QED
  BY <1>1, <1>2, <1>3, <1>4, <1>5, <1>6
  DEF RentalExpiryNext

LEMMA CommandHandlersCounts ==
    TypeOK /\ Counted /\ CommandHandlersNext => Counted'
<1> SUFFICES ASSUME TypeOK, Counted, CommandHandlersNext PROVE Counted'
  OBVIOUS
<1>1. ASSUME NEW w \in Workers, NEW o \in Orders, CodeClaim(w, o)
      PROVE  Counted'
  BY <1>1 DEF CodeClaim, Counted, TypeOK, TaskTypes, At, Begin, Step, Idle
<1>2. ASSUME NEW w \in Workers, NEW o \in Orders, CodeSend(w, o)
      PROVE  Counted'
  BY <1>2 DEF CodeSend, Counted, TypeOK, TaskTypes, At, Finish, Step, Idle
<1>3. ASSUME NEW w \in Workers, NEW o \in Orders, CodeRefused(w, o)
      PROVE  Counted'
  BY <1>3 DEF CodeRefused, Counted, TypeOK, TaskTypes, At, Finish, Step, Idle
<1>4. ASSUME NEW w \in Workers, NEW o \in Orders, ReplaceStart(w, o)
      PROVE  Counted'
  BY <1>4 DEF ReplaceStart, Counted, TypeOK, TaskTypes, At, Begin, Step, Idle
<1>5. ASSUME NEW w \in Workers, NEW o \in Orders, ReplaceDeclined(w, o)
      PROVE  Counted'
  BY <1>5 DEF ReplaceDeclined, Counted, TypeOK, TaskTypes, At, Finish, Step,
     Idle
<1>6. ASSUME NEW w \in Workers, NEW o \in Orders, ReplaceChecked(w, o)
      PROVE  Counted'
  BY <1>6 DEF ReplaceChecked, Counted, TypeOK, TaskTypes, At, Begin
<1>7. ASSUME NEW w \in Workers, NEW o \in Orders, NEW a \in Accounts,
             ReplaceClaim(w, o, a)
      PROVE  Counted'
  BY <1>7 DEF ReplaceClaim, Counted, TypeOK, TaskTypes, At, Begin
<1>8. ASSUME NEW w \in Workers, NEW o \in Orders, ReplaceNoAccount(w, o)
      PROVE  Counted'
  BY <1>8 DEF ReplaceNoAccount, Counted, TypeOK, TaskTypes, At, Finish, Step,
     Idle
<1>9. ASSUME NEW w \in Workers, NEW o \in Orders, ReplaceRefused(w, o)
      PROVE  Counted'
  BY <1>9 DEF ReplaceRefused, Counted, TypeOK, TaskTypes, At, Finish, Step,
     Idle
<1>10. ASSUME NEW w \in Workers, NEW o \in Orders, NEW ok \in BOOLEAN,
             ReplaceKick(w, o, ok)
      PROVE  Counted'
  BY <1>10 DEF ReplaceKick, Counted, TypeOK, TaskTypes, At, Begin
<1>11. ASSUME NEW w \in Workers, NEW o \in Orders, ReplaceSwitch(w, o)
      PROVE  Counted'
  BY <1>11 DEF ReplaceSwitch, Counted, TypeOK, TaskTypes, At, Begin, Step
<1>12. ASSUME NEW w \in Workers, NEW o \in Orders, ReplaceGiveUp(w, o)
      PROVE  Counted'
  BY <1>12 DEF ReplaceGiveUp, Counted, TypeOK, TaskTypes, At, Finish, Step,
     Idle
\* the other actions leave the operations in flight alone
<1>13. ASSUME NEW w \in Workers, NEW o \in Orders,
             CommandTooLate(w, o)
      PROVE  Counted'
  BY <1>13, SameTasks DEF CommandTooLate
<1> QED
  BY <1>1, <1>2, <1>3, <1>4, <1>5, <1>6, <1>7, <1>8, <1>9, <1>10,
     <1>11, <1>12, <1>13
  DEF CommandHandlersNext

LEMMA AccountChecksCounts == TypeOK /\ Counted /\ AccountChecksNext => Counted'
<1> SUFFICES ASSUME TypeOK, Counted, AccountChecksNext PROVE Counted'
  OBVIOUS
\* the other actions leave the operations in flight alone
<1>1. ASSUME NEW a \in Accounts,
             EnqueueCheck(a) \/ StartCheck(a) \/ FinishRerun(a) \/
             RequeueCheck(a) \/ Recheck(a) \/ Suspend(a)
      PROVE  Counted'
  BY <1>1, SameTasks DEF EnqueueCheck, StartCheck, FinishRerun, RequeueCheck,
     Recheck, Suspend, restVars
<1>2. ASSUME NEW a \in Accounts, NEW s \in AccountStatus,
             FinishCheck(a, s)
      PROVE  Counted'
  BY <1>2, SameTasks DEF FinishCheck, restVars
<1> QED
  BY <1>1, <1>2
  DEF AccountChecksNext

LEMMA StepCounts == TypeOK /\ Counted /\ [Next]_vars => Counted'
<1> SUFFICES ASSUME TypeOK, Counted, [Next]_vars PROVE Counted'
  OBVIOUS
<1>1. CASE UNCHANGED vars
  BY <1>1, SameTasks DEF vars
<1>2. ASSUME NEW w \in Workers, Abandon(w)
      PROVE  Counted'
  BY <1>2 DEF Abandon, Counted, TypeOK, TaskTypes, At, Finish, Idle, Step
<1> QED
  BY <1>1, <1>2, RentalServiceCounts, OrderProcessorCounts, RentalExpiryCounts,
     CommandHandlersCounts, AccountChecksCounts DEF Next

\* The attempts of a delivery never go back to none: a retry by the operator
\* keeps one, and a replacement sends under its own template.
StaysCounted == \A o \in Orders : ~InitialUnsent(o) => ~InitialUnsent(o)'

LEMMA SameAttempts == UNCHANGED <<template, attempts>> => StaysCounted
BY DEF StaysCounted, InitialUnsent

LEMMA RentalServiceAttempts == TypeOK /\ RentalServiceNext => StaysCounted
<1> SUFFICES ASSUME TypeOK, RentalServiceNext PROVE StaysCounted
  OBVIOUS
<1>1. ASSUME NEW w \in Workers, NEW o \in Orders, DeliverBoundary(w, o)
      PROVE  StaysCounted
  BY <1>1 DEF DeliverBoundary, StaysCounted, InitialUnsent, TypeOK,
     DeliveryTypes
<1>2. ASSUME NEW w \in Workers, NEW o \in Orders, OperatorRetry(w, o)
      PROVE  StaysCounted
  BY <1>2, RowsAssumption DEF OperatorRetry, StaysCounted, InitialUnsent,
     TypeOK, DeliveryTypes
\* the other actions count no attempt
<1>3. ASSUME NEW w \in Workers, NEW o \in Orders, NEW a \in Accounts,
             FulfillNew(w, o, a) \/ Reallocate(w, o, a)
      PROVE  StaysCounted
  BY <1>3, SameAttempts DEF FulfillNew, Reallocate, deliveryVars
<1>4. ASSUME NEW w \in Workers, NEW o \in Orders,
             FulfillAgain(w, o) \/ FulfillNothing(w, o) \/
             DeliverRefused(w, o) \/ DeliverManual(w, o) \/
             DeliverSent(w, o) \/ DeliverFailed(w, o) \/ DeliverCrash(w, o) \/
             SweepClose(w, o)
      PROVE  StaysCounted
  BY <1>4, SameAttempts DEF FulfillAgain, FulfillNothing, DeliverRefused,
     DeliverManual, DeliverSent, DeliverFailed, DeliverCrash, SweepClose,
     deliveryVars
<1>5. ASSUME NEW o \in Orders,
             DeliveryDue(o)
      PROVE  StaysCounted
  BY <1>5, SameAttempts DEF DeliveryDue
<1> QED
  BY <1>1, <1>2, <1>3, <1>4, <1>5
  DEF RentalServiceNext

LEMMA OrderProcessorAttempts == TypeOK /\ OrderProcessorNext => StaysCounted
<1> SUFFICES ASSUME TypeOK, OrderProcessorNext PROVE StaysCounted
  OBVIOUS
\* the other actions count no attempt
<1>1. ASSUME NEW w \in Workers, NEW o \in Orders,
             NewSale(w, o) \/ RefundEnded(w, o) \/ RefundBusy(w, o) \/
             RefundClaim(w, o) \/ RefundFinalize(w, o)
      PROVE  StaysCounted
  BY <1>1, SameAttempts DEF NewSale, RefundEnded, RefundBusy, RefundClaim,
     RefundFinalize, deliveryVars
<1>2. ASSUME NEW w \in Workers, NEW o \in Orders, NEW ok \in BOOLEAN,
             RefundKick(w, o, ok)
      PROVE  StaysCounted
  BY <1>2, SameAttempts DEF RefundKick, deliveryVars
<1>3. ASSUME NEW o \in Orders,
             SaleClosed(o)
      PROVE  StaysCounted
  BY <1>3, SameAttempts DEF SaleClosed, deliveryVars
<1>4. ASSUME NEW o \in Orders, NEW end \in SaleEnds,
             RemoteEnds(o, end)
      PROVE  StaysCounted
  BY <1>4, SameAttempts DEF RemoteEnds, deliveryVars
<1> QED
  BY <1>1, <1>2, <1>3, <1>4
  DEF OrderProcessorNext

LEMMA RentalExpiryAttempts == TypeOK /\ RentalExpiryNext => StaysCounted
<1> SUFFICES ASSUME TypeOK, RentalExpiryNext PROVE StaysCounted
  OBVIOUS
\* the other actions count no attempt
<1>1. ASSUME NEW w \in Workers, NEW o \in Orders,
             ClaimOverdue(w, o) \/ ExpireFinalize(w, o) \/
             NoticeClaim(w, o)
      PROVE  StaysCounted
  BY <1>1, SameAttempts DEF ClaimOverdue, ExpireFinalize,
     NoticeClaim, deliveryVars
<1>2. ASSUME NEW w \in Workers, NEW o \in Orders, NEW ok \in BOOLEAN,
             ExpireKick(w, o, ok)
      PROVE  StaysCounted
  BY <1>2, SameAttempts DEF ExpireKick, deliveryVars
<1>3. ASSUME NEW w \in Workers, NEW o \in Orders,
             NEW ok \in BOOLEAN, NEW accepted \in BOOLEAN,
             NoticeSend(w, o, ok, accepted)
      PROVE  StaysCounted
  BY <1>3, SameAttempts DEF NoticeSend, deliveryVars
<1>4. ASSUME NEW o \in Orders,
             ReleaseStaleReservation(o) \/ TermPasses(o) \/ LeaseExpires(o)
      PROVE  StaysCounted
  BY <1>4, SameAttempts DEF ReleaseStaleReservation, TermPasses, LeaseExpires,
     deliveryVars
<1> QED
  BY <1>1, <1>2, <1>3, <1>4
  DEF RentalExpiryNext

LEMMA CommandHandlersAttempts == TypeOK /\ CommandHandlersNext => StaysCounted
<1> SUFFICES ASSUME TypeOK, CommandHandlersNext PROVE StaysCounted
  OBVIOUS
<1>1. ASSUME NEW w \in Workers, NEW o \in Orders, ReplaceSwitch(w, o)
      PROVE  StaysCounted
  BY <1>1 DEF ReplaceSwitch, StaysCounted, InitialUnsent, TypeOK, DeliveryTypes
\* the other actions count no attempt
<1>2. ASSUME NEW w \in Workers, NEW o \in Orders,
             CommandTooLate(w, o) \/ CodeClaim(w, o) \/ CodeSend(w, o) \/
             CodeRefused(w, o) \/ ReplaceStart(w, o) \/
             ReplaceDeclined(w, o) \/ ReplaceChecked(w, o) \/
             ReplaceNoAccount(w, o) \/ ReplaceRefused(w, o) \/
             ReplaceGiveUp(w, o)
      PROVE  StaysCounted
  BY <1>2, SameAttempts DEF CommandTooLate, CodeClaim, CodeSend, CodeRefused,
     ReplaceStart, ReplaceDeclined, ReplaceChecked, ReplaceNoAccount,
     ReplaceRefused, ReplaceGiveUp, deliveryVars
<1>3. ASSUME NEW w \in Workers, NEW o \in Orders, NEW a \in Accounts,
             ReplaceClaim(w, o, a)
      PROVE  StaysCounted
  BY <1>3, SameAttempts DEF ReplaceClaim, deliveryVars
<1>4. ASSUME NEW w \in Workers, NEW o \in Orders, NEW ok \in BOOLEAN,
             ReplaceKick(w, o, ok)
      PROVE  StaysCounted
  BY <1>4, SameAttempts DEF ReplaceKick, deliveryVars
<1> QED
  BY <1>1, <1>2, <1>3, <1>4
  DEF CommandHandlersNext

LEMMA AccountChecksAttempts == TypeOK /\ AccountChecksNext => StaysCounted
<1> SUFFICES ASSUME TypeOK, AccountChecksNext PROVE StaysCounted
  OBVIOUS
\* the other actions count no attempt
<1>1. ASSUME NEW a \in Accounts,
             EnqueueCheck(a) \/ StartCheck(a) \/ FinishRerun(a) \/
             RequeueCheck(a) \/ Recheck(a) \/ Suspend(a)
      PROVE  StaysCounted
  BY <1>1, SameAttempts DEF EnqueueCheck, StartCheck, FinishRerun,
     RequeueCheck, Recheck, Suspend, deliveryVars, restVars
<1>2. ASSUME NEW a \in Accounts, NEW s \in AccountStatus,
             FinishCheck(a, s)
      PROVE  StaysCounted
  BY <1>2, SameAttempts DEF FinishCheck, deliveryVars, restVars
<1> QED
  BY <1>1, <1>2
  DEF AccountChecksNext

LEMMA StepAttempts == TypeOK /\ [Next]_vars => StaysCounted
<1> SUFFICES ASSUME TypeOK, [Next]_vars PROVE StaysCounted
  OBVIOUS
<1>1. CASE UNCHANGED vars
  BY <1>1, SameAttempts DEF vars, deliveryVars
<1>2. ASSUME NEW w \in Workers, Abandon(w)
      PROVE  StaysCounted
  BY <1>2, SameAttempts DEF Abandon, deliveryVars
<1> QED
  BY <1>1, <1>2, RentalServiceAttempts, OrderProcessorAttempts,
     RentalExpiryAttempts,
     CommandHandlersAttempts, AccountChecksAttempts DEF Next

LEMMA SameDelivery ==
    ASSUME SentCounted, StaysCounted, UNCHANGED dstatus
    PROVE  SentCounted'
BY DEF SentCounted, StaysCounted

LEMMA RentalServiceSends ==
    IExpiry /\ StaysCounted /\ RentalServiceNext => SentCounted'
<1> SUFFICES ASSUME IExpiry, StaysCounted, RentalServiceNext PROVE SentCounted'
  OBVIOUS
<1>1. ASSUME NEW w \in Workers, NEW o \in Orders, NEW a \in Accounts,
             FulfillNew(w, o, a)
      PROVE  SentCounted'
  BY <1>1 DEF FulfillNew, SentCounted, StaysCounted, IExpiry, TypeOK,
     DeliveryTypes
<1>2. ASSUME NEW w \in Workers, NEW o \in Orders, FulfillAgain(w, o)
      PROVE  SentCounted'
  BY <1>2 DEF FulfillAgain, SentCounted, StaysCounted, IExpiry, TypeOK,
     DeliveryTypes
<1>3. ASSUME NEW w \in Workers, NEW o \in Orders, DeliverRefused(w, o)
      PROVE  SentCounted'
  BY <1>3 DEF DeliverRefused, SentCounted, StaysCounted, IExpiry, TypeOK,
     DeliveryTypes
<1>4. ASSUME NEW w \in Workers, NEW o \in Orders, DeliverManual(w, o)
      PROVE  SentCounted'
  BY <1>4 DEF DeliverManual, SentCounted, StaysCounted, IExpiry, TypeOK,
     DeliveryTypes
<1>5. ASSUME NEW w \in Workers, NEW o \in Orders, DeliverSent(w, o)
      PROVE  SentCounted'
  BY <1>5 DEF DeliverSent, SentCounted, StaysCounted, IExpiry, TypeOK,
     DeliveryTypes, ReadyToSend, StillMine, Counted, At, InitialUnsent
<1>6. ASSUME NEW w \in Workers, NEW o \in Orders, DeliverFailed(w, o)
      PROVE  SentCounted'
  BY <1>6 DEF DeliverFailed, SentCounted, StaysCounted, IExpiry, TypeOK,
     DeliveryTypes
<1>7. ASSUME NEW w \in Workers, NEW o \in Orders, OperatorRetry(w, o)
      PROVE  SentCounted'
  BY <1>7 DEF OperatorRetry, SentCounted, StaysCounted, IExpiry, TypeOK,
     DeliveryTypes
\* the other actions send nothing
<1>8. ASSUME NEW w \in Workers, NEW o \in Orders, NEW a \in Accounts,
             Reallocate(w, o, a)
      PROVE  SentCounted'
  BY <1>8, SameDelivery DEF Reallocate, deliveryVars, IExpiry
<1>9. ASSUME NEW w \in Workers, NEW o \in Orders,
             FulfillNothing(w, o) \/ DeliverBoundary(w, o) \/
             DeliverCrash(w, o) \/ SweepClose(w, o)
      PROVE  SentCounted'
  BY <1>9, SameDelivery DEF FulfillNothing, DeliverBoundary, DeliverCrash,
     SweepClose, deliveryVars, IExpiry
<1>10. ASSUME NEW o \in Orders,
             DeliveryDue(o)
      PROVE  SentCounted'
  BY <1>10, SameDelivery DEF DeliveryDue, IExpiry
<1> QED
  BY <1>1, <1>2, <1>3, <1>4, <1>5, <1>6, <1>7, <1>8, <1>9, <1>10
  DEF RentalServiceNext

LEMMA OrderProcessorSends ==
    IExpiry /\ StaysCounted /\ OrderProcessorNext => SentCounted'
<1> SUFFICES ASSUME IExpiry, StaysCounted, OrderProcessorNext PROVE SentCounted'
  OBVIOUS
\* the other actions send nothing
<1>1. ASSUME NEW w \in Workers, NEW o \in Orders,
             NewSale(w, o) \/ RefundEnded(w, o) \/ RefundBusy(w, o) \/
             RefundClaim(w, o) \/ RefundFinalize(w, o)
      PROVE  SentCounted'
  BY <1>1, SameDelivery DEF NewSale, RefundEnded, RefundBusy, RefundClaim,
     RefundFinalize, deliveryVars, IExpiry
<1>2. ASSUME NEW w \in Workers, NEW o \in Orders, NEW ok \in BOOLEAN,
             RefundKick(w, o, ok)
      PROVE  SentCounted'
  BY <1>2, SameDelivery DEF RefundKick, deliveryVars, IExpiry
<1>3. ASSUME NEW o \in Orders,
             SaleClosed(o)
      PROVE  SentCounted'
  BY <1>3, SameDelivery DEF SaleClosed, deliveryVars, IExpiry
<1>4. ASSUME NEW o \in Orders, NEW end \in SaleEnds,
             RemoteEnds(o, end)
      PROVE  SentCounted'
  BY <1>4, SameDelivery DEF RemoteEnds, deliveryVars, IExpiry
<1> QED
  BY <1>1, <1>2, <1>3, <1>4
  DEF OrderProcessorNext

LEMMA RentalExpirySends ==
    IExpiry /\ StaysCounted /\ RentalExpiryNext => SentCounted'
<1> SUFFICES ASSUME IExpiry, StaysCounted, RentalExpiryNext PROVE SentCounted'
  OBVIOUS
\* the other actions send nothing
<1>1. ASSUME NEW w \in Workers, NEW o \in Orders,
             ClaimOverdue(w, o) \/ ExpireFinalize(w, o) \/
             NoticeClaim(w, o)
      PROVE  SentCounted'
  BY <1>1, SameDelivery DEF ClaimOverdue, ExpireFinalize,
     NoticeClaim, deliveryVars, IExpiry
<1>2. ASSUME NEW w \in Workers, NEW o \in Orders, NEW ok \in BOOLEAN,
             ExpireKick(w, o, ok)
      PROVE  SentCounted'
  BY <1>2, SameDelivery DEF ExpireKick, deliveryVars, IExpiry
<1>3. ASSUME NEW w \in Workers, NEW o \in Orders,
             NEW ok \in BOOLEAN, NEW accepted \in BOOLEAN,
             NoticeSend(w, o, ok, accepted)
      PROVE  SentCounted'
  BY <1>3, SameDelivery DEF NoticeSend, deliveryVars, IExpiry
<1>4. ASSUME NEW o \in Orders,
             ReleaseStaleReservation(o) \/ TermPasses(o) \/ LeaseExpires(o)
      PROVE  SentCounted'
  BY <1>4, SameDelivery DEF ReleaseStaleReservation, TermPasses, LeaseExpires,
     deliveryVars, IExpiry
<1> QED
  BY <1>1, <1>2, <1>3, <1>4
  DEF RentalExpiryNext

LEMMA CommandHandlersSends ==
    IExpiry /\ StaysCounted /\ CommandHandlersNext => SentCounted'
<1> SUFFICES ASSUME IExpiry, StaysCounted, CommandHandlersNext
             PROVE SentCounted'
  OBVIOUS
<1>1. ASSUME NEW w \in Workers, NEW o \in Orders, ReplaceSwitch(w, o)
      PROVE  SentCounted'
  BY <1>1 DEF ReplaceSwitch, SentCounted, StaysCounted, IExpiry, TypeOK,
     DeliveryTypes
\* the other actions send nothing
<1>2. ASSUME NEW w \in Workers, NEW o \in Orders,
             CommandTooLate(w, o) \/ CodeClaim(w, o) \/ CodeSend(w, o) \/
             CodeRefused(w, o) \/ ReplaceStart(w, o) \/
             ReplaceDeclined(w, o) \/ ReplaceChecked(w, o) \/
             ReplaceNoAccount(w, o) \/ ReplaceRefused(w, o) \/
             ReplaceGiveUp(w, o)
      PROVE  SentCounted'
  BY <1>2, SameDelivery DEF CommandTooLate, CodeClaim, CodeSend, CodeRefused,
     ReplaceStart, ReplaceDeclined, ReplaceChecked, ReplaceNoAccount,
     ReplaceRefused, ReplaceGiveUp, deliveryVars, IExpiry
<1>3. ASSUME NEW w \in Workers, NEW o \in Orders, NEW a \in Accounts,
             ReplaceClaim(w, o, a)
      PROVE  SentCounted'
  BY <1>3, SameDelivery DEF ReplaceClaim, deliveryVars, IExpiry
<1>4. ASSUME NEW w \in Workers, NEW o \in Orders, NEW ok \in BOOLEAN,
             ReplaceKick(w, o, ok)
      PROVE  SentCounted'
  BY <1>4, SameDelivery DEF ReplaceKick, deliveryVars, IExpiry
<1> QED
  BY <1>1, <1>2, <1>3, <1>4
  DEF CommandHandlersNext

LEMMA AccountChecksSends ==
    IExpiry /\ StaysCounted /\ AccountChecksNext => SentCounted'
<1> SUFFICES ASSUME IExpiry, StaysCounted, AccountChecksNext PROVE SentCounted'
  OBVIOUS
\* the other actions send nothing
<1>1. ASSUME NEW a \in Accounts,
             EnqueueCheck(a) \/ StartCheck(a) \/ FinishRerun(a) \/
             RequeueCheck(a) \/ Recheck(a) \/ Suspend(a)
      PROVE  SentCounted'
  BY <1>1, SameDelivery DEF EnqueueCheck, StartCheck, FinishRerun,
     RequeueCheck, Recheck, Suspend, deliveryVars, restVars, IExpiry
<1>2. ASSUME NEW a \in Accounts, NEW s \in AccountStatus,
             FinishCheck(a, s)
      PROVE  SentCounted'
  BY <1>2, SameDelivery DEF FinishCheck, deliveryVars, restVars, IExpiry
<1> QED
  BY <1>1, <1>2
  DEF AccountChecksNext

LEMMA StepSends == IExpiry /\ StaysCounted /\ [Next]_vars => SentCounted'
<1> SUFFICES ASSUME IExpiry, StaysCounted, [Next]_vars PROVE SentCounted'
  OBVIOUS
<1>1. CASE UNCHANGED vars
  BY <1>1, SameDelivery DEF vars, deliveryVars, IExpiry
<1>2. ASSUME NEW w \in Workers, Abandon(w)
      PROVE  SentCounted'
  BY <1>2, SameDelivery DEF Abandon, deliveryVars, IExpiry
<1> QED
  BY <1>1, <1>2, RentalServiceSends, OrderProcessorSends, RentalExpirySends,
     CommandHandlersSends, AccountChecksSends DEF Next

LEMMA SameRental ==
    ASSUME NoExpiryBeforeSend, StaysCounted, UNCHANGED rstatus
    PROVE  NoExpiryBeforeSend'
BY DEF NoExpiryBeforeSend, StaysCounted

LEMMA RentalServiceEnds ==
    IExpiry /\ StaysCounted /\ RentalServiceNext => NoExpiryBeforeSend'
<1> SUFFICES ASSUME IExpiry, StaysCounted, RentalServiceNext
             PROVE NoExpiryBeforeSend'
  OBVIOUS
<1>1. ASSUME NEW w \in Workers, NEW o \in Orders, NEW a \in Accounts,
             FulfillNew(w, o, a)
      PROVE  NoExpiryBeforeSend'
  BY <1>1 DEF FulfillNew, NoExpiryBeforeSend, StaysCounted, IExpiry, TypeOK,
     RentalTypes
\* the other actions end no rental
<1>2. ASSUME NEW w \in Workers, NEW o \in Orders, NEW a \in Accounts,
             Reallocate(w, o, a)
      PROVE  NoExpiryBeforeSend'
  BY <1>2, SameRental DEF Reallocate, IExpiry
<1>3. ASSUME NEW w \in Workers, NEW o \in Orders,
             FulfillAgain(w, o) \/ FulfillNothing(w, o) \/
             DeliverRefused(w, o) \/ DeliverManual(w, o) \/
             DeliverBoundary(w, o) \/ DeliverSent(w, o) \/
             DeliverFailed(w, o) \/ DeliverCrash(w, o) \/ SweepClose(w, o) \/
             OperatorRetry(w, o)
      PROVE  NoExpiryBeforeSend'
  BY <1>3, SameRental DEF FulfillAgain, FulfillNothing, DeliverRefused,
     DeliverManual, DeliverBoundary, DeliverSent, DeliverFailed, DeliverCrash,
     SweepClose, OperatorRetry, rentalVars, IExpiry
<1>4. ASSUME NEW o \in Orders,
             DeliveryDue(o)
      PROVE  NoExpiryBeforeSend'
  BY <1>4, SameRental DEF DeliveryDue, rentalVars, IExpiry
<1> QED
  BY <1>1, <1>2, <1>3, <1>4
  DEF RentalServiceNext

LEMMA OrderProcessorEnds ==
    IExpiry /\ StaysCounted /\ OrderProcessorNext => NoExpiryBeforeSend'
<1> SUFFICES ASSUME IExpiry, StaysCounted, OrderProcessorNext
             PROVE NoExpiryBeforeSend'
  OBVIOUS
<1>1. ASSUME NEW w \in Workers, NEW o \in Orders, RefundEnded(w, o)
      PROVE  NoExpiryBeforeSend'
  BY <1>1 DEF RefundEnded, NoExpiryBeforeSend, StaysCounted, IExpiry, TypeOK,
     RentalTypes
<1>2. ASSUME NEW w \in Workers, NEW o \in Orders, RefundFinalize(w, o)
      PROVE  NoExpiryBeforeSend'
  BY <1>2 DEF RefundFinalize, NoExpiryBeforeSend, StaysCounted, IExpiry,
     TypeOK, RentalTypes
\* the other actions end no rental
<1>3. ASSUME NEW w \in Workers, NEW o \in Orders,
             NewSale(w, o) \/ RefundBusy(w, o) \/ RefundClaim(w, o)
      PROVE  NoExpiryBeforeSend'
  BY <1>3, SameRental DEF NewSale, RefundBusy, RefundClaim, rentalVars, IExpiry
<1>4. ASSUME NEW w \in Workers, NEW o \in Orders, NEW ok \in BOOLEAN,
             RefundKick(w, o, ok)
      PROVE  NoExpiryBeforeSend'
  BY <1>4, SameRental DEF RefundKick, rentalVars, IExpiry
<1>5. ASSUME NEW o \in Orders,
             SaleClosed(o)
      PROVE  NoExpiryBeforeSend'
  BY <1>5, SameRental DEF SaleClosed, rentalVars, IExpiry
<1>6. ASSUME NEW o \in Orders, NEW end \in SaleEnds,
             RemoteEnds(o, end)
      PROVE  NoExpiryBeforeSend'
  BY <1>6, SameRental DEF RemoteEnds, rentalVars, IExpiry
<1> QED
  BY <1>1, <1>2, <1>3, <1>4, <1>5, <1>6
  DEF OrderProcessorNext

LEMMA RentalExpiryEnds ==
    IExpiry /\ StaysCounted /\ RentalExpiryNext => NoExpiryBeforeSend'
<1> SUFFICES ASSUME IExpiry, StaysCounted, RentalExpiryNext
             PROVE NoExpiryBeforeSend'
  OBVIOUS
<1>1. ASSUME NEW w \in Workers, NEW o \in Orders, ClaimOverdue(w, o)
      PROVE  NoExpiryBeforeSend'
  BY <1>1 DEF ClaimOverdue, NoExpiryBeforeSend, StaysCounted, IExpiry, TypeOK,
     RentalTypes, Overdue, SentCounted
<1>2. ASSUME NEW w \in Workers, NEW o \in Orders, ExpireFinalize(w, o)
      PROVE  NoExpiryBeforeSend'
  BY <1>2 DEF ExpireFinalize, NoExpiryBeforeSend, StaysCounted, IExpiry,
     TypeOK, RentalTypes, ExpireMatches
\* the other actions end no rental
<1>3. ASSUME NEW w \in Workers, NEW o \in Orders, NEW ok \in BOOLEAN,
             ExpireKick(w, o, ok)
      PROVE  NoExpiryBeforeSend'
  BY <1>3, SameRental DEF ExpireKick, rentalVars, IExpiry
<1>4. ASSUME NEW w \in Workers, NEW o \in Orders,
             NoticeClaim(w, o)
      PROVE  NoExpiryBeforeSend'
  BY <1>4, SameRental DEF NoticeClaim, rentalVars, IExpiry
<1>5. ASSUME NEW w \in Workers, NEW o \in Orders,
             NEW ok \in BOOLEAN, NEW accepted \in BOOLEAN,
             NoticeSend(w, o, ok, accepted)
      PROVE  NoExpiryBeforeSend'
  BY <1>5, SameRental DEF NoticeSend, rentalVars, IExpiry
<1>6. ASSUME NEW o \in Orders,
             ReleaseStaleReservation(o) \/ TermPasses(o) \/ LeaseExpires(o)
      PROVE  NoExpiryBeforeSend'
  BY <1>6, SameRental DEF ReleaseStaleReservation, TermPasses, LeaseExpires,
     rentalVars, IExpiry
<1> QED
  BY <1>1, <1>2, <1>3, <1>4, <1>5, <1>6
  DEF RentalExpiryNext

LEMMA CommandHandlersEnds ==
    IExpiry /\ StaysCounted /\ CommandHandlersNext => NoExpiryBeforeSend'
<1> SUFFICES ASSUME IExpiry, StaysCounted, CommandHandlersNext
             PROVE NoExpiryBeforeSend'
  OBVIOUS
<1>1. ASSUME NEW w \in Workers, NEW o \in Orders, CommandTooLate(w, o)
      PROVE  NoExpiryBeforeSend'
  BY <1>1 DEF CommandTooLate, NoExpiryBeforeSend, StaysCounted, IExpiry,
     TypeOK, RentalTypes, CloseOnCommand, SentCounted
<1>2. ASSUME NEW w \in Workers, NEW o \in Orders, CodeRefused(w, o)
      PROVE  NoExpiryBeforeSend'
  BY <1>2 DEF CodeRefused, NoExpiryBeforeSend, StaysCounted, IExpiry, TypeOK,
     RentalTypes, CloseOnCommand, SentCounted
<1>3. ASSUME NEW w \in Workers, NEW o \in Orders, ReplaceRefused(w, o)
      PROVE  NoExpiryBeforeSend'
  BY <1>3 DEF ReplaceRefused, NoExpiryBeforeSend, StaysCounted, IExpiry,
     TypeOK, RentalTypes, CloseOnCommand, SentCounted
<1>4. ASSUME NEW w \in Workers, NEW o \in Orders, ReplaceGiveUp(w, o)
      PROVE  NoExpiryBeforeSend'
  BY <1>4 DEF ReplaceGiveUp, NoExpiryBeforeSend, StaysCounted, IExpiry, TypeOK,
     RentalTypes, CloseOnCommand, SentCounted
\* the other actions end no rental
<1>5. ASSUME NEW w \in Workers, NEW o \in Orders,
             CodeClaim(w, o) \/ CodeSend(w, o) \/ ReplaceStart(w, o) \/
             ReplaceDeclined(w, o) \/ ReplaceChecked(w, o) \/
             ReplaceNoAccount(w, o) \/ ReplaceSwitch(w, o)
      PROVE  NoExpiryBeforeSend'
  BY <1>5, SameRental DEF CodeClaim, CodeSend, ReplaceStart, ReplaceDeclined,
     ReplaceChecked, ReplaceNoAccount, ReplaceSwitch, rentalVars, IExpiry
<1>6. ASSUME NEW w \in Workers, NEW o \in Orders, NEW a \in Accounts,
             ReplaceClaim(w, o, a)
      PROVE  NoExpiryBeforeSend'
  BY <1>6, SameRental DEF ReplaceClaim, rentalVars, IExpiry
<1>7. ASSUME NEW w \in Workers, NEW o \in Orders, NEW ok \in BOOLEAN,
             ReplaceKick(w, o, ok)
      PROVE  NoExpiryBeforeSend'
  BY <1>7, SameRental DEF ReplaceKick, rentalVars, IExpiry
<1> QED
  BY <1>1, <1>2, <1>3, <1>4, <1>5, <1>6, <1>7
  DEF CommandHandlersNext

LEMMA AccountChecksEnds ==
    IExpiry /\ StaysCounted /\ AccountChecksNext => NoExpiryBeforeSend'
<1> SUFFICES ASSUME IExpiry, StaysCounted, AccountChecksNext
             PROVE NoExpiryBeforeSend'
  OBVIOUS
\* the other actions end no rental
<1>1. ASSUME NEW a \in Accounts,
             EnqueueCheck(a) \/ StartCheck(a) \/ FinishRerun(a) \/
             RequeueCheck(a) \/ Recheck(a) \/ Suspend(a)
      PROVE  NoExpiryBeforeSend'
  BY <1>1, SameRental DEF EnqueueCheck, StartCheck, FinishRerun, RequeueCheck,
     Recheck, Suspend, rentalVars, restVars, IExpiry
<1>2. ASSUME NEW a \in Accounts, NEW s \in AccountStatus,
             FinishCheck(a, s)
      PROVE  NoExpiryBeforeSend'
  BY <1>2, SameRental DEF FinishCheck, rentalVars, restVars, IExpiry
<1> QED
  BY <1>1, <1>2
  DEF AccountChecksNext

LEMMA StepEnds == IExpiry /\ StaysCounted /\ [Next]_vars => NoExpiryBeforeSend'
<1> SUFFICES ASSUME IExpiry, StaysCounted, [Next]_vars PROVE NoExpiryBeforeSend'
  OBVIOUS
<1>1. CASE UNCHANGED vars
  BY <1>1, SameRental DEF vars, rentalVars, IExpiry
<1>2. ASSUME NEW w \in Workers, Abandon(w)
      PROVE  NoExpiryBeforeSend'
  BY <1>2, SameRental DEF Abandon, rentalVars, IExpiry
<1> QED
  BY <1>1, <1>2, RentalServiceEnds, OrderProcessorEnds, RentalExpiryEnds,
     CommandHandlersEnds, AccountChecksEnds DEF Next

\* The paid term of a rental ends only if its credentials may have been sent: an
\* order nobody could deliver is still owed, however long the retries take.
THEOREM UnsentNeverExpires == Spec => []NoExpiryBeforeSend
<1>1. Init => IExpiry
  BY TypeInit DEF Init, IExpiry, Counted, At, Idle, Step, SentCounted,
     NoExpiryBeforeSend
<1>2. IExpiry /\ [Next]_vars => IExpiry'
  <2> SUFFICES ASSUME IExpiry, [Next]_vars PROVE IExpiry'
    OBVIOUS
  <2>1. StaysCounted
    BY StepAttempts DEF IExpiry
  <2>2. TypeOK' /\ Counted'
    BY TypeStep, StepCounts DEF IExpiry
  <2> QED
    BY <2>1, <2>2, StepSends, StepEnds DEF IExpiry
<1>3. IExpiry => NoExpiryBeforeSend
  BY DEF IExpiry
<1> QED
  BY <1>1, <1>2, <1>3, PTL DEF Spec

-----------------------------------------------------------------------------
(* A refund is final                                                       *)

RefundKept ==
    \A o \in Orders : KeepsRefund(o) \/ \E w \in Workers : SweepClose(w, o)

LEMMA SameOrders == UNCHANGED ostatus => RefundKept
BY DEF RefundKept, KeepsRefund, Refunding

LEMMA RentalServiceRefunds == TypeOK /\ RentalServiceNext => RefundKept
<1> SUFFICES ASSUME TypeOK, RentalServiceNext PROVE RefundKept
  OBVIOUS
<1>1. ASSUME NEW w \in Workers, NEW o \in Orders, SweepClose(w, o)
      PROVE  RefundKept
  <2>1. \A p \in Orders \ {o} : ostatus'[p] = ostatus[p]
    BY <1>1 DEF SweepClose, TypeOK, SaleTypes
  <2> QED
    BY <1>1, <2>1 DEF RefundKept, KeepsRefund, Refunding
\* the other actions do not write the order
<1>2. ASSUME NEW w \in Workers, NEW o \in Orders, NEW a \in Accounts,
             FulfillNew(w, o, a) \/ Reallocate(w, o, a)
      PROVE  RefundKept
  BY <1>2, SameOrders DEF FulfillNew, Reallocate, saleVars
<1>3. ASSUME NEW w \in Workers, NEW o \in Orders,
             FulfillAgain(w, o) \/ FulfillNothing(w, o) \/
             DeliverRefused(w, o) \/ DeliverManual(w, o) \/
             DeliverBoundary(w, o) \/ DeliverSent(w, o) \/
             DeliverFailed(w, o) \/ DeliverCrash(w, o) \/
             OperatorRetry(w, o)
      PROVE  RefundKept
  BY <1>3, SameOrders DEF FulfillAgain, FulfillNothing, DeliverRefused,
     DeliverManual, DeliverBoundary, DeliverSent, DeliverFailed, DeliverCrash,
     OperatorRetry, saleVars
<1>4. ASSUME NEW o \in Orders,
             DeliveryDue(o)
      PROVE  RefundKept
  BY <1>4, SameOrders DEF DeliveryDue, saleVars
<1> QED
  BY <1>1, <1>2, <1>3, <1>4
  DEF RentalServiceNext

LEMMA OrderProcessorRefunds == TypeOK /\ OrderProcessorNext => RefundKept
<1> SUFFICES ASSUME TypeOK, OrderProcessorNext PROVE RefundKept
  OBVIOUS
<1>1. ASSUME NEW w \in Workers, NEW o \in Orders, NewSale(w, o)
      PROVE  RefundKept
  BY <1>1 DEF NewSale, RefundKept, KeepsRefund, Refunding, TypeOK, SaleTypes
<1>2. ASSUME NEW w \in Workers, NEW o \in Orders, RefundEnded(w, o)
      PROVE  RefundKept
  BY <1>2 DEF RefundEnded, RefundKept, KeepsRefund, Refunding, TypeOK,
     SaleTypes, SeesRefund
<1>3. ASSUME NEW w \in Workers, NEW o \in Orders, RefundBusy(w, o)
      PROVE  RefundKept
  BY <1>3 DEF RefundBusy, RefundKept, KeepsRefund, Refunding, TypeOK, SaleTypes,
     SeesRefund
<1>4. ASSUME NEW w \in Workers, NEW o \in Orders, RefundClaim(w, o)
      PROVE  RefundKept
  BY <1>4 DEF RefundClaim, RefundKept, KeepsRefund, Refunding, TypeOK,
     SaleTypes, SeesRefund
<1>5. ASSUME NEW w \in Workers, NEW o \in Orders, RefundFinalize(w, o)
      PROVE  RefundKept
  BY <1>5 DEF RefundFinalize, RefundKept, KeepsRefund, Refunding, TypeOK,
     SaleTypes, RefundMatches
<1>6. ASSUME NEW o \in Orders, SaleClosed(o)
      PROVE  RefundKept
  BY <1>6 DEF SaleClosed, RefundKept, KeepsRefund, Refunding, TypeOK, SaleTypes
\* the other actions do not write the order
<1>7. ASSUME NEW w \in Workers, NEW o \in Orders, NEW ok \in BOOLEAN,
             RefundKick(w, o, ok)
      PROVE  RefundKept
  BY <1>7, SameOrders DEF RefundKick, saleVars
<1>8. ASSUME NEW o \in Orders, NEW end \in SaleEnds,
             RemoteEnds(o, end)
      PROVE  RefundKept
  BY <1>8, SameOrders DEF RemoteEnds
<1> QED
  BY <1>1, <1>2, <1>3, <1>4, <1>5, <1>6, <1>7, <1>8
  DEF OrderProcessorNext

LEMMA RentalExpiryRefunds == TypeOK /\ RentalExpiryNext => RefundKept
<1> SUFFICES ASSUME TypeOK, RentalExpiryNext PROVE RefundKept
  OBVIOUS
\* the other actions do not write the order
<1>1. ASSUME NEW w \in Workers, NEW o \in Orders,
             ClaimOverdue(w, o) \/ ExpireFinalize(w, o) \/
             NoticeClaim(w, o)
      PROVE  RefundKept
  BY <1>1, SameOrders DEF ClaimOverdue, ExpireFinalize,
     NoticeClaim, saleVars
<1>2. ASSUME NEW w \in Workers, NEW o \in Orders, NEW ok \in BOOLEAN,
             ExpireKick(w, o, ok)
      PROVE  RefundKept
  BY <1>2, SameOrders DEF ExpireKick, saleVars
<1>3. ASSUME NEW w \in Workers, NEW o \in Orders,
             NEW ok \in BOOLEAN, NEW accepted \in BOOLEAN,
             NoticeSend(w, o, ok, accepted)
      PROVE  RefundKept
  BY <1>3, SameOrders DEF NoticeSend, saleVars
<1>4. ASSUME NEW o \in Orders,
             ReleaseStaleReservation(o) \/ TermPasses(o) \/ LeaseExpires(o)
      PROVE  RefundKept
  BY <1>4, SameOrders DEF ReleaseStaleReservation, TermPasses, LeaseExpires,
     saleVars
<1> QED
  BY <1>1, <1>2, <1>3, <1>4
  DEF RentalExpiryNext

LEMMA CommandHandlersRefunds == TypeOK /\ CommandHandlersNext => RefundKept
<1> SUFFICES ASSUME TypeOK, CommandHandlersNext PROVE RefundKept
  OBVIOUS
\* the other actions do not write the order
<1>1. ASSUME NEW w \in Workers, NEW o \in Orders,
             CommandTooLate(w, o) \/ CodeClaim(w, o) \/ CodeSend(w, o) \/
             CodeRefused(w, o) \/ ReplaceStart(w, o) \/
             ReplaceDeclined(w, o) \/ ReplaceChecked(w, o) \/
             ReplaceNoAccount(w, o) \/ ReplaceRefused(w, o) \/
             ReplaceSwitch(w, o) \/ ReplaceGiveUp(w, o)
      PROVE  RefundKept
  BY <1>1, SameOrders DEF CommandTooLate, CodeClaim, CodeSend, CodeRefused,
     ReplaceStart, ReplaceDeclined, ReplaceChecked, ReplaceNoAccount,
     ReplaceRefused, ReplaceSwitch, ReplaceGiveUp, saleVars
<1>2. ASSUME NEW w \in Workers, NEW o \in Orders, NEW a \in Accounts,
             ReplaceClaim(w, o, a)
      PROVE  RefundKept
  BY <1>2, SameOrders DEF ReplaceClaim, saleVars
<1>3. ASSUME NEW w \in Workers, NEW o \in Orders, NEW ok \in BOOLEAN,
             ReplaceKick(w, o, ok)
      PROVE  RefundKept
  BY <1>3, SameOrders DEF ReplaceKick, saleVars
<1> QED
  BY <1>1, <1>2, <1>3
  DEF CommandHandlersNext

LEMMA AccountChecksRefunds == TypeOK /\ AccountChecksNext => RefundKept
<1> SUFFICES ASSUME TypeOK, AccountChecksNext PROVE RefundKept
  OBVIOUS
\* the other actions do not write the order
<1>1. ASSUME NEW a \in Accounts,
             EnqueueCheck(a) \/ StartCheck(a) \/ FinishRerun(a) \/
             RequeueCheck(a) \/ Recheck(a) \/ Suspend(a)
      PROVE  RefundKept
  BY <1>1, SameOrders DEF EnqueueCheck, StartCheck, FinishRerun, RequeueCheck,
     Recheck, Suspend, saleVars, restVars
<1>2. ASSUME NEW a \in Accounts, NEW s \in AccountStatus,
             FinishCheck(a, s)
      PROVE  RefundKept
  BY <1>2, SameOrders DEF FinishCheck, saleVars, restVars
<1> QED
  BY <1>1, <1>2
  DEF AccountChecksNext

LEMMA StepRefunds == TypeOK /\ [Next]_vars => RefundKept
<1> SUFFICES ASSUME TypeOK, [Next]_vars PROVE RefundKept
  OBVIOUS
<1>1. CASE UNCHANGED vars
  BY <1>1, SameOrders DEF vars, saleVars
<1>2. ASSUME NEW w \in Workers, Abandon(w)
      PROVE  RefundKept
  BY <1>2, SameOrders DEF Abandon, saleVars
<1> QED
  BY <1>1, <1>2, RentalServiceRefunds, OrderProcessorRefunds,
     RentalExpiryRefunds,
     CommandHandlersRefunds, AccountChecksRefunds DEF Next

\* Once a refund is recorded no late event, duplicate callback or retried refund
\* takes it back, and no operation but one: the pending-orders sweep, which
\* completes the order it read before its delivery without reading it again.
THEOREM RefundStays == Spec => RefundsStand
<1>1. TypeOK /\ [Next]_vars => TypeOK'
  BY TypeStep
<1>2. TypeOK /\ [Next]_vars => RefundKept
  BY StepRefunds
<1>3. Spec => [][RefundKept]_vars
  BY TypeInit, <1>1, <1>2, PTL DEF Spec
<1> QED
  BY <1>3, PTL DEF RefundsStand, RefundKept

-----------------------------------------------------------------------------
(* A rental whose order is being refunded does not end as expired          *)

\* a rental has its order
OrderKnown == \A o \in Orders : ostatus[o] = "none" => rstatus[o] = "none"

IEnd == TypeOK /\ OrderKnown /\ RefundBeforeExpiry

\* what a step may do to an order and its rental, in terms of the two rows alone
EndOf(o) ==
    \/ ostatus'[o] = ostatus[o] /\ rstatus'[o] = rstatus[o]
    \* neither a refund is recorded nor a rental ends
    \/ ostatus[o] # "none" /\ ostatus'[o] = ostatus[o] /\ rstatus'[o] # "expired"
    \/ ~Refunding(o)' /\ ostatus'[o] # "none" /\ rstatus'[o] = rstatus[o]
    \* an ended rental and a refund exclude each other
    \/ ostatus'[o] # "none" /\ rstatus'[o] \in {"active", "expiry_pending", "refunded"}
    \/ ostatus[o] # "none" /\ ostatus'[o] = ostatus[o] /\ ~Refunding(o)
    \* there is no rental
    \/ ostatus'[o] # "none" /\ rstatus'[o] = "none"

Ends == \A o \in Orders : EndOf(o)

\* the order of an occupying rental is known
LEMMA OccupyingKnown ==
    ASSUME IEnd, NEW o \in Orders, rstatus[o] # "none"
    PROVE  ostatus[o] # "none"
  BY DEF IEnd, OrderKnown

LEMMA EndsKept == IEnd /\ Ends => OrderKnown' /\ RefundBeforeExpiry'
  BY DEF IEnd, Ends, EndOf, OrderKnown, RefundBeforeExpiry, Refunding

LEMMA SameEnds == UNCHANGED <<ostatus, rstatus>> => Ends
  BY DEF Ends, EndOf

\* an authorisation check that closes a rental closes an active one
LEMMA CommandEnds ==
    ASSUME IEnd, NEW o \in Orders, UNCHANGED ostatus,
           rstatus' = rstatus \/ CloseOnCommand(o)
    PROVE  Ends
  BY OccupyingKnown
  DEF CloseOnCommand, Ends, EndOf, IEnd, TypeOK, RentalTypes, SaleTypes

LEMMA RentalServiceExpiries == IEnd /\ RentalServiceNext => Ends
<1> SUFFICES ASSUME IEnd, RentalServiceNext PROVE Ends
  OBVIOUS
<1>1. ASSUME NEW w \in Workers, NEW o \in Orders, NEW a \in Accounts,
             FulfillNew(w, o, a)
      PROVE  Ends
  BY <1>1 DEF FulfillNew, Fulfillable, Ends, EndOf, saleVars, IEnd, TypeOK,
     RentalTypes, SaleTypes
<1>2. ASSUME NEW w \in Workers, NEW o \in Orders, SweepClose(w, o)
      PROVE  Ends
  BY <1>2 DEF SweepClose, Ends, EndOf, Refunding, rentalVars, IEnd, TypeOK,
     SaleTypes
\* the other actions leave both statuses alone
<1>3. ASSUME NEW w \in Workers, NEW o \in Orders, NEW a \in Accounts,
             Reallocate(w, o, a)
      PROVE  Ends
  BY <1>3, SameEnds DEF Reallocate, saleVars
<1>4. ASSUME NEW w \in Workers, NEW o \in Orders,
             FulfillAgain(w, o) \/ FulfillNothing(w, o) \/
             DeliverRefused(w, o) \/ DeliverManual(w, o) \/
             DeliverBoundary(w, o) \/ DeliverSent(w, o) \/
             DeliverFailed(w, o) \/ DeliverCrash(w, o) \/ OperatorRetry(w, o)
      PROVE  Ends
  BY <1>4, SameEnds DEF FulfillAgain, FulfillNothing, DeliverRefused,
     DeliverManual, DeliverBoundary, DeliverSent, DeliverFailed, DeliverCrash,
     OperatorRetry, saleVars, rentalVars
<1>5. ASSUME NEW o \in Orders, DeliveryDue(o)
      PROVE  Ends
  BY <1>5, SameEnds DEF DeliveryDue, saleVars, rentalVars
<1> QED
  BY <1>1, <1>2, <1>3, <1>4, <1>5 DEF RentalServiceNext

LEMMA OrderProcessorExpiries == IEnd /\ OrderProcessorNext => Ends
<1> SUFFICES ASSUME IEnd, OrderProcessorNext PROVE Ends
  OBVIOUS
\* a new order has no rental yet
<1>1. ASSUME NEW w \in Workers, NEW o \in Orders, NewSale(w, o)
      PROVE  Ends
  <2>1. rstatus[o] = "none" /\ UNCHANGED rstatus
    BY <1>1 DEF NewSale, IEnd, OrderKnown, rentalVars
  <2>2. ostatus'[o] # "none" /\ \A p \in Orders \ {o} : ostatus'[p] = ostatus[p]
    BY <1>1 DEF NewSale, IEnd, TypeOK, SaleTypes
  <2> QED
    BY <2>1, <2>2 DEF Ends, EndOf
<1>2. ASSUME NEW o \in Orders, SaleClosed(o)
      PROVE  Ends
  BY <1>2 DEF SaleClosed, Ends, EndOf, Refunding, rentalVars, IEnd, TypeOK,
     SaleTypes
<1>3. ASSUME NEW w \in Workers, NEW o \in Orders, RefundEnded(w, o)
      PROVE  Ends
  BY <1>3 DEF RefundEnded, Ends, EndOf, IEnd, TypeOK, SaleTypes, RentalTypes
\* the rental is still occupying the account
<1>4. ASSUME NEW w \in Workers, NEW o \in Orders,
             RefundBusy(w, o) \/ RefundClaim(w, o)
      PROVE  Ends
  BY <1>4 DEF RefundBusy, RefundClaim, Occupies, Ends, EndOf, rentalVars, IEnd,
     TypeOK, SaleTypes
<1>5. ASSUME NEW w \in Workers, NEW o \in Orders, RefundFinalize(w, o)
      PROVE  Ends
  BY <1>5 DEF RefundFinalize, Ends, EndOf, IEnd, TypeOK, SaleTypes, RentalTypes
<1>6. ASSUME NEW w \in Workers, NEW o \in Orders, NEW ok \in BOOLEAN,
             RefundKick(w, o, ok)
      PROVE  Ends
  BY <1>6, SameEnds DEF RefundKick, saleVars, rentalVars
<1>7. ASSUME NEW o \in Orders, NEW end \in SaleEnds, RemoteEnds(o, end)
      PROVE  Ends
  BY <1>7, SameEnds DEF RemoteEnds, rentalVars
<1> QED
  BY <1>1, <1>2, <1>3, <1>4, <1>5, <1>6, <1>7 DEF OrderProcessorNext

LEMMA RentalExpiryExpiries == IEnd /\ RentalExpiryNext => Ends
<1> SUFFICES ASSUME IEnd, RentalExpiryNext PROVE Ends
  OBVIOUS
<1>1. ASSUME NEW w \in Workers, NEW o \in Orders, ClaimOverdue(w, o)
      PROVE  Ends
  BY <1>1, OccupyingKnown DEF ClaimOverdue, Overdue, Occupies, Ends, EndOf,
     saleVars, IEnd, TypeOK, RentalTypes
\* the test for a refund is made under the lock that ends the rental
<1>2. ASSUME NEW w \in Workers, NEW o \in Orders, ExpireFinalize(w, o)
      PROVE  Ends
  BY <1>2, OccupyingKnown DEF ExpireFinalize, ExpireMatches, Ends, EndOf,
     saleVars, IEnd, TypeOK, RentalTypes
<1>3. ASSUME NEW w \in Workers, NEW o \in Orders, NEW ok \in BOOLEAN,
             ExpireKick(w, o, ok)
      PROVE  Ends
  BY <1>3, SameEnds DEF ExpireKick, saleVars, rentalVars
<1>4. ASSUME NEW w \in Workers, NEW o \in Orders, NoticeClaim(w, o)
      PROVE  Ends
  BY <1>4, SameEnds DEF NoticeClaim, saleVars, rentalVars
<1>5. ASSUME NEW w \in Workers, NEW o \in Orders,
             NEW ok \in BOOLEAN, NEW accepted \in BOOLEAN,
             NoticeSend(w, o, ok, accepted)
      PROVE  Ends
  BY <1>5, SameEnds DEF NoticeSend, saleVars, rentalVars
<1>6. ASSUME NEW o \in Orders,
             ReleaseStaleReservation(o) \/ TermPasses(o) \/ LeaseExpires(o)
      PROVE  Ends
  BY <1>6, SameEnds DEF ReleaseStaleReservation, TermPasses, LeaseExpires,
     saleVars, rentalVars
<1> QED
  BY <1>1, <1>2, <1>3, <1>4, <1>5, <1>6 DEF RentalExpiryNext

LEMMA CommandHandlersExpiries == IEnd /\ CommandHandlersNext => Ends
<1> SUFFICES ASSUME IEnd, CommandHandlersNext PROVE Ends
  OBVIOUS
<1>1. ASSUME NEW w \in Workers, NEW o \in Orders,
             CommandTooLate(w, o) \/ CodeRefused(w, o) \/
             ReplaceRefused(w, o) \/ ReplaceGiveUp(w, o)
      PROVE  Ends
  BY <1>1, CommandEnds DEF CommandTooLate, CodeRefused, ReplaceRefused,
     ReplaceGiveUp, saleVars
\* the other actions leave both statuses alone
<1>2. ASSUME NEW w \in Workers, NEW o \in Orders,
             CodeClaim(w, o) \/ CodeSend(w, o) \/ ReplaceStart(w, o) \/
             ReplaceDeclined(w, o) \/ ReplaceChecked(w, o) \/
             ReplaceNoAccount(w, o) \/ ReplaceSwitch(w, o)
      PROVE  Ends
  BY <1>2, SameEnds DEF CodeClaim, CodeSend, ReplaceStart, ReplaceDeclined,
     ReplaceChecked, ReplaceNoAccount, ReplaceSwitch, saleVars, rentalVars
<1>3. ASSUME NEW w \in Workers, NEW o \in Orders, NEW a \in Accounts,
             ReplaceClaim(w, o, a)
      PROVE  Ends
  BY <1>3, SameEnds DEF ReplaceClaim, saleVars, rentalVars
<1>4. ASSUME NEW w \in Workers, NEW o \in Orders, NEW ok \in BOOLEAN,
             ReplaceKick(w, o, ok)
      PROVE  Ends
  BY <1>4, SameEnds DEF ReplaceKick, saleVars, rentalVars
<1> QED
  BY <1>1, <1>2, <1>3, <1>4 DEF CommandHandlersNext

LEMMA AccountChecksExpiries == AccountChecksNext => Ends
  BY SameEnds DEF AccountChecksNext, EnqueueCheck, StartCheck, FinishCheck,
     FinishRerun, RequeueCheck, Recheck, Suspend, restVars, saleVars, rentalVars

\* A refund that arrives during the logout of an expiry takes the rental over;
\* with a refund recorded no rental is expired, and no terminal message is due.
THEOREM RefundWins == Spec => []RefundBeforeExpiry
<1>1. Init => IEnd
  BY TypeInit DEF Init, IEnd, OrderKnown, RefundBeforeExpiry
<1>2. IEnd /\ [Next]_vars => IEnd'
  <2> SUFFICES ASSUME IEnd, [Next]_vars PROVE IEnd'
    OBVIOUS
  <2>1. ASSUME UNCHANGED vars
        PROVE  Ends
    BY <2>1, SameEnds DEF vars, saleVars, rentalVars
  <2>2. ASSUME NEW w \in Workers, Abandon(w)
        PROVE  Ends
    BY <2>2, SameEnds DEF Abandon, saleVars, rentalVars
  <2>3. Ends
    BY <2>1, <2>2, RentalServiceExpiries, OrderProcessorExpiries,
       RentalExpiryExpiries, CommandHandlersExpiries, AccountChecksExpiries
    DEF Next
  <2> QED
    BY <2>3, EndsKept, TypeStep DEF IEnd
<1> QED
  BY <1>1, <1>2, PTL DEF Spec, IEnd
=============================================================================
