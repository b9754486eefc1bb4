------------------------ MODULE RentalTypes_proofs ------------------------
(***************************************************************************)
(* The rows and the operations in flight keep their types in every step of *)
(* the rental core, for every value of the constants.                      *)
(***************************************************************************)
EXTENDS RentalSystem, TLAPS

\* What a step leaves alone keeps its type.

LEMMA KeepTypes ==
    /\ SaleTypes /\ UNCHANGED saleVars => SaleTypes'
    /\ RentalTypes /\ UNCHANGED rentalVars => RentalTypes'
    /\ DeliveryTypes /\ UNCHANGED deliveryVars => DeliveryTypes'
    /\ LeaseTypes /\ UNCHANGED leaseVars => LeaseTypes'
    /\ NoticeTypes /\ UNCHANGED noticeVars => NoticeTypes'
    /\ AccountTypes /\ UNCHANGED accountVars => AccountTypes'
    /\ TaskTypes /\ UNCHANGED task => TaskTypes'
    /\ FaultTypes /\ UNCHANGED faults => FaultTypes'
    /\ AccessTypes /\ UNCHANGED access => AccessTypes'
<1>1. SaleTypes /\ UNCHANGED saleVars => SaleTypes'
  BY DEF SaleTypes, saleVars
<1>2. RentalTypes /\ UNCHANGED rentalVars => RentalTypes'
  BY DEF RentalTypes, rentalVars
<1>3. DeliveryTypes /\ UNCHANGED deliveryVars => DeliveryTypes'
  BY DEF DeliveryTypes, deliveryVars
<1>4. LeaseTypes /\ UNCHANGED leaseVars => LeaseTypes'
  BY DEF LeaseTypes, leaseVars
<1>5. NoticeTypes /\ UNCHANGED noticeVars => NoticeTypes'
  BY DEF NoticeTypes, noticeVars
<1>6. AccountTypes /\ UNCHANGED accountVars => AccountTypes'
  BY DEF AccountTypes, accountVars
<1>7. TaskTypes /\ UNCHANGED task => TaskTypes'
  BY DEF TaskTypes
<1>8. FaultTypes /\ UNCHANGED faults => FaultTypes'
  BY DEF FaultTypes
<1>9. AccessTypes /\ UNCHANGED access => AccessTypes'
  BY DEF AccessTypes
<1> QED
  BY <1>1, <1>2, <1>3, <1>4, <1>5, <1>6, <1>7, <1>8, <1>9

\* The helpers of the actions keep the type of what they write.

LEMMA StepTyped ==
    ASSUME NEW at \in Stages \ Reserving, NEW o \in Orders \cup {NoOrder},
           NEW a \in Accounts \cup {NoAccount}
    PROVE  Step(at, o, a) \in Tasks
BY DEF Step, Tasks, AccountStatus

LEMMA FinishTyped ==
    ASSUME TaskTypes, NEW w \in Workers, Finish(w)
    PROVE  TaskTypes'
<1>1. Idle \in Tasks
  BY StepTyped DEF Idle, Stages, Reserving
<1> QED
  BY <1>1 DEF Finish, TaskTypes

LEMMA BeginTyped ==
    ASSUME TaskTypes, NEW w \in Workers, NEW s \in Tasks, Begin(w, s)
    PROVE  TaskTypes'
BY DEF Begin, TaskTypes

LEMMA KickedTyped ==
    ASSUME TaskTypes, NEW w \in Workers, NEW at \in Stages, NEW ok \in BOOLEAN,
           at \in Reserving => task[w].at \in Reserving
    PROVE  [task[w] EXCEPT !.at = at, !.ok = ok] \in Tasks
BY DEF TaskTypes, Tasks

LEMMA MovedTyped ==
    ASSUME TaskTypes, NEW w \in Workers, NEW at \in Stages, NEW a \in Accounts
    PROVE  /\ at \notin Reserving
                => [task[w] EXCEPT !.at = at, !.acct = a] \in Tasks
           /\ [task[w] EXCEPT !.at = at, !.tgt = a] \in Tasks
<1>1. at \notin Reserving
        => [task[w] EXCEPT !.at = at, !.acct = a] \in Tasks
  BY DEF TaskTypes, Tasks
<1>2. [task[w] EXCEPT !.at = at, !.tgt = a] \in Tasks
  BY DEF TaskTypes, Tasks
<1> QED
  BY <1>1, <1>2

LEMMA BoundaryTyped ==
    ASSUME TaskTypes, NEW w \in Workers, NEW at \in Stages \ Reserving,
           NEW a \in Accounts \cup {NoAccount}, NEW n \in Nat
    PROVE  [task[w] EXCEPT !.at = at, !.acct = a, !.n = n] \in Tasks
BY DEF TaskTypes, Tasks

LEMMA CheckTyped ==
    ASSUME NEW o \in Orders, NEW a \in Accounts \cup {NoAccount},
           NEW s \in AccountStatus
    PROVE  [Step("check", o, a) EXCEPT !.was = s] \in Tasks
BY DEF Step, Tasks, Stages, Reserving

LEMMA TypeInit == Init => TypeOK
<1> SUFFICES ASSUME Init PROVE TypeOK
  OBVIOUS
<1>1. TaskTypes
  BY StepTyped DEF Init, TaskTypes, Idle, Stages, Reserving
<1> QED
  BY <1>1, RowsAssumption
     DEF Init, TypeOK, SaleTypes, RentalTypes, DeliveryTypes, LeaseTypes,
         NoticeTypes, AccountTypes, FaultTypes, AccessTypes, OrderStatus,
         RentalStatus, DeliveryStatus, AccountStatus

LEMMA RentalServiceTyped == TypeOK /\ RentalServiceNext => TypeOK'
<1> SUFFICES ASSUME TypeOK, RentalServiceNext PROVE TypeOK'
  OBVIOUS
<1> USE DEF TypeOK
<1>1. ASSUME NEW w \in Workers, NEW o \in Orders, NEW a \in Accounts,
             FulfillNew(w, o, a)
      PROVE  TypeOK'
  <2>1. RentalTypes'
    BY <1>1, RowsAssumption DEF FulfillNew, RentalTypes, RentalStatus
  <2>2. DeliveryTypes'
    BY <1>1 DEF FulfillNew, DeliveryTypes, DeliveryStatus
  <2>3. TaskTypes'
    BY <1>1, BeginTyped DEF FulfillNew, Delivering, WillClose, TaskTypes,
       Tasks, Stages, Reserving, Step, AccountStatus
  <2> QED
    BY <1>1, <2>1, <2>2, <2>3, KeepTypes DEF FulfillNew
<1>2. ASSUME NEW w \in Workers, NEW o \in Orders, NEW a \in Accounts,
             Reallocate(w, o, a)
      PROVE  TypeOK'
  <2>1. RentalTypes'
    BY <1>2, RowsAssumption DEF Reallocate, RentalTypes, RentalStatus
  <2>2. TaskTypes'
    BY <1>2, BeginTyped, MovedTyped DEF Reallocate, Stages, Reserving
  <2>3. FaultTypes'
    BY <1>2, RowsAssumption DEF Reallocate, FaultTypes, FaultUnless
  <2> QED
    BY <1>2, <2>1, <2>2, <2>3, KeepTypes DEF Reallocate
<1>3. ASSUME NEW w \in Workers, NEW o \in Orders, FulfillAgain(w, o)
      PROVE  TypeOK'
  <2>1. DeliveryTypes'
    BY <1>3 DEF FulfillAgain, DeliveryTypes, DeliveryStatus
  <2>2. TaskTypes'
    BY <1>3, BeginTyped DEF FulfillAgain, Delivering, WillClose, TaskTypes,
       Tasks, Stages, Reserving, Step, AccountStatus
  <2> QED
    BY <1>3, <2>1, <2>2, KeepTypes DEF FulfillAgain
<1>4. ASSUME NEW w \in Workers, NEW o \in Orders, FulfillNothing(w, o)
      PROVE  TypeOK'
  <2>1. TaskTypes'
    BY <1>4, FinishTyped DEF FulfillNothing
  <2> QED
    BY <1>4, <2>1, KeepTypes DEF FulfillNothing
<1>5. ASSUME NEW w \in Workers, NEW o \in Orders, DeliverRefused(w, o)
      PROVE  TypeOK'
  <2>1. DeliveryTypes'
    BY <1>5 DEF DeliverRefused, DeliveryTypes, DeliveryStatus
  <2>2. TaskTypes'
    BY <1>5, FinishTyped DEF DeliverRefused
  <2> QED
    BY <1>5, <2>1, <2>2, KeepTypes DEF DeliverRefused
<1>6. ASSUME NEW w \in Workers, NEW o \in Orders, DeliverManual(w, o)
      PROVE  TypeOK'
  <2>1. DeliveryTypes'
    BY <1>6 DEF DeliverManual, DeliveryTypes, DeliveryStatus
  <2>2. TaskTypes'
    BY <1>6, FinishTyped DEF DeliverManual
  <2>3. FaultTypes'
    BY <1>6, RowsAssumption DEF DeliverManual, FaultTypes, FaultUnless
  <2> QED
    BY <1>6, <2>1, <2>2, <2>3, KeepTypes DEF DeliverManual
<1>7. ASSUME NEW w \in Workers, NEW o \in Orders, DeliverBoundary(w, o)
      PROVE  TypeOK'
  <2>1. RentalTypes'
    BY <1>7, RowsAssumption DEF DeliverBoundary, RentalTypes, RentalStatus
  <2>2. DeliveryTypes'
    BY <1>7 DEF DeliverBoundary, DeliveryTypes, DeliveryStatus
  <2>3. TaskTypes'
    <3>1. racct[o] \in Accounts \cup {NoAccount} /\ attempts[o] + 1 \in Nat
      BY DEF RentalTypes, DeliveryTypes
    <3>2. [task[w] EXCEPT !.at = "boundary", !.acct = racct[o],
                          !.n = attempts[o] + 1] \in Tasks
      BY <3>1, BoundaryTyped DEF Stages, Reserving
    <3> QED
      BY <1>7, <3>2, BeginTyped DEF DeliverBoundary
  <2> QED
    BY <1>7, <2>1, <2>2, <2>3, KeepTypes DEF DeliverBoundary
<1>8. ASSUME NEW w \in Workers, NEW o \in Orders, DeliverSent(w, o)
      PROVE  TypeOK'
  <2>1. DeliveryTypes'
    BY <1>8 DEF DeliverSent, DeliveryTypes, DeliveryStatus
  <2>2. TaskTypes'
    BY <1>8, FinishTyped, BeginTyped, StepTyped DEF DeliverSent, Stages,
       Reserving, RentalTypes
  <2>3. AccessTypes'
    BY <1>8 DEF DeliverSent, AccessTypes, Disclosed
  <2> QED
    BY <1>8, <2>1, <2>2, <2>3, KeepTypes DEF DeliverSent
<1>9. ASSUME NEW w \in Workers, NEW o \in Orders, DeliverFailed(w, o)
      PROVE  TypeOK'
  <2>1. DeliveryTypes'
    BY <1>9 DEF DeliverFailed, DeliveryTypes, DeliveryStatus
  <2>2. TaskTypes'
    BY <1>9, FinishTyped DEF DeliverFailed
  <2>3. FaultTypes'
    BY <1>9, RowsAssumption DEF DeliverFailed, FaultTypes, FaultUnless
  <2>4. AccessTypes'
    BY <1>9 DEF DeliverFailed, AccessTypes, Disclosed, FaultUnless
  <2> QED
    BY <1>9, <2>1, <2>2, <2>3, <2>4, KeepTypes DEF DeliverFailed
<1>10. ASSUME NEW w \in Workers, NEW o \in Orders, DeliverCrash(w, o)
      PROVE  TypeOK'
  <2>1. TaskTypes'
    BY <1>10, FinishTyped DEF DeliverCrash
  <2>2. FaultTypes'
    BY <1>10, RowsAssumption DEF DeliverCrash, FaultTypes, FaultUnless
  <2>3. AccessTypes'
    BY <1>10 DEF DeliverCrash, AccessTypes, Disclosed, FaultUnless
  <2> QED
    BY <1>10, <2>1, <2>2, <2>3, KeepTypes DEF DeliverCrash
<1>11. ASSUME NEW w \in Workers, NEW o \in Orders, SweepClose(w, o)
      PROVE  TypeOK'
  <2>1. SaleTypes'
    BY <1>11, RowsAssumption DEF SweepClose, SaleTypes, OrderStatus
  <2>2. TaskTypes'
    BY <1>11, FinishTyped DEF SweepClose
  <2>3. AccountTypes'
    BY <1>11 DEF SweepClose, AccountTypes, Occupies, RentalTypes
  <2> QED
    BY <1>11, <2>1, <2>2, <2>3, KeepTypes DEF SweepClose
<1>12. ASSUME NEW w \in Workers, NEW o \in Orders, OperatorRetry(w, o)
      PROVE  TypeOK'
  <2>1. DeliveryTypes'
    BY <1>12, RowsAssumption DEF OperatorRetry, DeliveryTypes, DeliveryStatus
  <2>2. TaskTypes'
    BY <1>12, FinishTyped, BeginTyped, StepTyped DEF OperatorRetry, Stages,
       Reserving
  <2> QED
    BY <1>12, <2>1, <2>2, KeepTypes DEF OperatorRetry
<1>13. ASSUME NEW o \in Orders, DeliveryDue(o)
      PROVE  TypeOK'
  <2>1. DeliveryTypes'
    BY <1>13 DEF DeliveryDue, DeliveryTypes, DeliveryStatus
  <2>2. FaultTypes'
    BY <1>13, RowsAssumption DEF DeliveryDue, FaultTypes, FaultUnless
  <2> QED
    BY <1>13, <2>1, <2>2, KeepTypes DEF DeliveryDue
<1> QED
  BY <1>1, <1>2, <1>3, <1>4, <1>5, <1>6, <1>7, <1>8, <1>9, <1>10,
     <1>11, <1>12, <1>13 DEF RentalServiceNext

LEMMA OrderProcessorTyped == TypeOK /\ OrderProcessorNext => TypeOK'
<1> SUFFICES ASSUME TypeOK, OrderProcessorNext PROVE TypeOK'
  OBVIOUS
<1> USE DEF TypeOK
<1>1. ASSUME NEW w \in Workers, NEW o \in Orders, NewSale(w, o)
      PROVE  TypeOK'
  <2>1. SaleTypes'
    BY <1>1, RowsAssumption DEF NewSale, SaleTypes, OrderStatus
  <2>2. TaskTypes'
    BY <1>1, FinishTyped, BeginTyped, StepTyped DEF NewSale, Stages, Reserving,
       TaskTypes
  <2> QED
    BY <1>1, <2>1, <2>2, KeepTypes DEF NewSale
<1>2. ASSUME NEW w \in Workers, NEW o \in Orders, RefundEnded(w, o)
      PROVE  TypeOK'
  <2>1. SaleTypes'
    BY <1>2, RowsAssumption DEF RefundEnded, SaleTypes, OrderStatus
  <2>2. RentalTypes'
    BY <1>2, RowsAssumption DEF RefundEnded, RentalTypes, RentalStatus
  <2>3. LeaseTypes'
    BY <1>2, RowsAssumption DEF RefundEnded, LeaseTypes, DropLease, leaseVars
  <2>4. TaskTypes'
    BY <1>2, FinishTyped DEF RefundEnded
  <2> QED
    BY <1>2, <2>1, <2>2, <2>3, <2>4, KeepTypes DEF RefundEnded
<1>3. ASSUME NEW w \in Workers, NEW o \in Orders, RefundBusy(w, o)
      PROVE  TypeOK'
  <2>1. SaleTypes'
    BY <1>3, RowsAssumption DEF RefundBusy, SaleTypes, OrderStatus
  <2>2. AccountTypes'
    BY <1>3 DEF RefundBusy, AccountTypes, AccountStatus
  <2>3. TaskTypes'
    BY <1>3, FinishTyped DEF RefundBusy
  <2> QED
    BY <1>3, <2>1, <2>2, <2>3, KeepTypes DEF RefundBusy
<1>4. ASSUME NEW w \in Workers, NEW o \in Orders, RefundClaim(w, o)
      PROVE  TypeOK'
  <2>1. SaleTypes'
    BY <1>4, RowsAssumption DEF RefundClaim, SaleTypes, OrderStatus
  <2>2. LeaseTypes'
    BY <1>4, RowsAssumption DEF RefundClaim, LeaseTypes, TakeLease
  <2>3. AccountTypes'
    BY <1>4 DEF RefundClaim, AccountTypes, AccountStatus, SeesRefund, Occupies
  <2>4. TaskTypes'
    BY <1>4, BeginTyped, StepTyped DEF RefundClaim, Stages, Reserving,
       RentalTypes
  <2> QED
    BY <1>4, <2>1, <2>2, <2>3, <2>4, KeepTypes DEF RefundClaim
<1>5. ASSUME NEW w \in Workers, NEW o \in Orders, NEW ok \in BOOLEAN,
             RefundKick(w, o, ok)
      PROVE  TypeOK'
  <2>1. TaskTypes'
    BY <1>5, BeginTyped, KickedTyped DEF RefundKick, Stages, Reserving
  <2>2. FaultTypes'
    BY <1>5, RowsAssumption DEF RefundKick, FaultTypes, Logout, FaultUnless
  <2>3. AccessTypes'
    BY <1>5 DEF RefundKick, AccessTypes, Logout, FaultUnless
  <2> QED
    BY <1>5, <2>1, <2>2, <2>3, KeepTypes DEF RefundKick
<1>6. ASSUME NEW w \in Workers, NEW o \in Orders, RefundFinalize(w, o)
      PROVE  TypeOK'
  <2>1. SaleTypes'
    BY <1>6, RowsAssumption DEF RefundFinalize, SaleTypes, OrderStatus
  <2>2. RentalTypes'
    BY <1>6, RowsAssumption DEF RefundFinalize, RentalTypes, RentalStatus,
       RefundMatches, Occupies
  <2>3. LeaseTypes'
    BY <1>6, RowsAssumption DEF RefundFinalize, LeaseTypes, DropLease
  <2>4. AccountTypes'
    BY <1>6 DEF RefundFinalize, AccountTypes, AccountStatus, Enqueued
  <2>5. TaskTypes'
    BY <1>6, FinishTyped DEF RefundFinalize
  <2> QED
    BY <1>6, <2>1, <2>2, <2>3, <2>4, <2>5, KeepTypes DEF RefundFinalize
<1>7. ASSUME NEW o \in Orders, SaleClosed(o)
      PROVE  TypeOK'
  <2>1. SaleTypes'
    BY <1>7, RowsAssumption DEF SaleClosed, SaleTypes, OrderStatus
  <2> QED
    BY <1>7, <2>1, KeepTypes DEF SaleClosed
<1>8. ASSUME NEW o \in Orders, NEW end \in SaleEnds, RemoteEnds(o, end)
      PROVE  TypeOK'
  <2>1. SaleTypes'
    BY <1>8, RowsAssumption DEF RemoteEnds, SaleTypes, OrderStatus
  <2> QED
    BY <1>8, <2>1, KeepTypes DEF RemoteEnds
<1> QED
  BY <1>1, <1>2, <1>3, <1>4, <1>5, <1>6, <1>7, <1>8 DEF OrderProcessorNext

LEMMA RentalExpiryTyped == TypeOK /\ RentalExpiryNext => TypeOK'
<1> SUFFICES ASSUME TypeOK, RentalExpiryNext PROVE TypeOK'
  OBVIOUS
<1> USE DEF TypeOK
<1>1. ASSUME NEW w \in Workers, NEW o \in Orders, ClaimOverdue(w, o)
      PROVE  TypeOK'
  <2>1. RentalTypes'
    BY <1>1, RowsAssumption DEF ClaimOverdue, RentalTypes, RentalStatus,
       Overdue, Occupies
  <2>2. LeaseTypes'
    BY <1>1, RowsAssumption DEF ClaimOverdue, LeaseTypes, TakeLease
  <2>3. AccountTypes'
    BY <1>1 DEF ClaimOverdue, AccountTypes, AccountStatus
  <2>4. TaskTypes'
    BY <1>1, FinishTyped, BeginTyped, StepTyped DEF ClaimOverdue, Stages,
       Reserving, RentalTypes
  <2> QED
    BY <1>1, <2>1, <2>2, <2>3, <2>4, KeepTypes DEF ClaimOverdue
<1>2. ASSUME NEW w \in Workers, NEW o \in Orders, ExpireFinalize(w, o)
      PROVE  TypeOK'
  <2>1. RentalTypes'
    BY <1>2, RowsAssumption DEF ExpireFinalize, RentalTypes, RentalStatus,
       ExpireMatches
  <2>2. LeaseTypes'
    BY <1>2, RowsAssumption DEF ExpireFinalize, LeaseTypes, DropLease
  <2>3. TaskTypes'
    BY <1>2, FinishTyped DEF ExpireFinalize
  <2> QED
    BY <1>2, <2>1, <2>2, <2>3, KeepTypes DEF ExpireFinalize
<1>3. ASSUME NEW w \in Workers, NEW o \in Orders, NEW ok \in BOOLEAN,
             ExpireKick(w, o, ok)
      PROVE  TypeOK'
  <2>1. AccountTypes'
    BY <1>3 DEF ExpireKick, AccountTypes, AccountStatus, Enqueued
  <2>2. TaskTypes'
    BY <1>3, BeginTyped, KickedTyped DEF ExpireKick, Stages, Reserving
  <2>3. FaultTypes'
    BY <1>3, RowsAssumption DEF ExpireKick, FaultTypes, Logout, FaultUnless
  <2>4. AccessTypes'
    BY <1>3 DEF ExpireKick, AccessTypes, Logout, FaultUnless
  <2> QED
    BY <1>3, <2>1, <2>2, <2>3, <2>4, KeepTypes DEF ExpireKick
<1>4. ASSUME NEW w \in Workers, NEW o \in Orders, NoticeClaim(w, o)
      PROVE  TypeOK'
  <2>1. LeaseTypes'
    BY <1>4, RowsAssumption DEF NoticeClaim, LeaseTypes, TakeLease
  <2>2. TaskTypes'
    BY <1>4, FinishTyped, BeginTyped, StepTyped DEF NoticeClaim, Stages,
       Reserving
  <2> QED
    BY <1>4, <2>1, <2>2, KeepTypes DEF NoticeClaim
<1>5. ASSUME NEW w \in Workers, NEW o \in Orders,
             NEW ok \in BOOLEAN, NEW accepted \in BOOLEAN,
             NoticeSend(w, o, ok, accepted)
      PROVE  TypeOK'
  <2>1. LeaseTypes'
    BY <1>5, RowsAssumption DEF NoticeSend, LeaseTypes, DropLease
  <2>2. NoticeTypes'
    BY <1>5 DEF NoticeSend, NoticeTypes
  <2>3. TaskTypes'
    BY <1>5, FinishTyped DEF NoticeSend
  <2>4. FaultTypes'
    BY <1>5, RowsAssumption DEF NoticeSend, FaultTypes, FaultUnless
  <2> QED
    BY <1>5, <2>1, <2>2, <2>3, <2>4, KeepTypes DEF NoticeSend
<1>6. ASSUME NEW o \in Orders, ReleaseStaleReservation(o)
      PROVE  TypeOK'
  <2>1. LeaseTypes'
    BY <1>6, RowsAssumption DEF ReleaseStaleReservation, LeaseTypes, DropLease
  <2> QED
    BY <1>6, <2>1, KeepTypes DEF ReleaseStaleReservation
<1>7. ASSUME NEW o \in Orders, TermPasses(o)
      PROVE  TypeOK'
  <2>1. RentalTypes'
    BY <1>7, RowsAssumption DEF TermPasses, RentalTypes, RentalStatus
  <2> QED
    BY <1>7, <2>1, KeepTypes DEF TermPasses
<1>8. ASSUME NEW o \in Orders, LeaseExpires(o)
      PROVE  TypeOK'
  <2>1. LeaseTypes'
    BY <1>8, RowsAssumption DEF LeaseExpires, LeaseTypes
  <2>2. FaultTypes'
    BY <1>8, RowsAssumption DEF LeaseExpires, FaultTypes, FaultUnless
  <2> QED
    BY <1>8, <2>1, <2>2, KeepTypes DEF LeaseExpires
<1> QED
  BY <1>1, <1>2, <1>3, <1>4, <1>5, <1>6, <1>7, <1>8 DEF RentalExpiryNext

LEMMA CommandHandlersTyped == TypeOK /\ CommandHandlersNext => TypeOK'
<1> SUFFICES ASSUME TypeOK, CommandHandlersNext PROVE TypeOK'
  OBVIOUS
<1> USE DEF TypeOK
<1>1. ASSUME NEW w \in Workers, NEW o \in Orders, CommandTooLate(w, o)
      PROVE  TypeOK'
  <2>1. RentalTypes'
    BY <1>1, RowsAssumption DEF CommandTooLate, RentalTypes, RentalStatus,
       CloseOnCommand
  <2> QED
    BY <1>1, <2>1, KeepTypes DEF CommandTooLate
<1>2. ASSUME NEW w \in Workers, NEW o \in Orders, CodeClaim(w, o)
      PROVE  TypeOK'
  <2>1. TaskTypes'
    BY <1>2, FinishTyped, BeginTyped, StepTyped DEF CodeClaim, Stages,
       Reserving, RentalTypes
  <2> QED
    BY <1>2, <2>1, KeepTypes DEF CodeClaim
<1>3. ASSUME NEW w \in Workers, NEW o \in Orders, CodeSend(w, o)
      PROVE  TypeOK'
  <2>1. TaskTypes'
    BY <1>3, FinishTyped DEF CodeSend
  <2>2. AccessTypes'
    BY <1>3 DEF CodeSend, AccessTypes
  <2> QED
    BY <1>3, <2>1, <2>2, KeepTypes DEF CodeSend
<1>4. ASSUME NEW w \in Workers, NEW o \in Orders, CodeRefused(w, o)
      PROVE  TypeOK'
  <2>1. RentalTypes'
    BY <1>4, RowsAssumption DEF CodeRefused, RentalTypes, RentalStatus,
       CloseOnCommand
  <2>2. TaskTypes'
    BY <1>4, FinishTyped DEF CodeRefused
  <2> QED
    BY <1>4, <2>1, <2>2, KeepTypes DEF CodeRefused
<1>5. ASSUME NEW w \in Workers, NEW o \in Orders, ReplaceStart(w, o)
      PROVE  TypeOK'
  <2>1. LeaseTypes'
    BY <1>5, RowsAssumption DEF ReplaceStart, LeaseTypes, DropLease, leaseVars
  <2>2. TaskTypes'
    BY <1>5, BeginTyped, CheckTyped DEF ReplaceStart, RentalTypes,
       AccountTypes, Replaceable, Authorised
  <2> QED
    BY <1>5, <2>1, <2>2, KeepTypes DEF ReplaceStart
<1>6. ASSUME NEW w \in Workers, NEW o \in Orders, ReplaceDeclined(w, o)
      PROVE  TypeOK'
  <2>1. AccountTypes'
    BY <1>6 DEF ReplaceDeclined, AccountTypes, AccountStatus, Verdict,
       Undone
  <2>2. TaskTypes'
    BY <1>6, FinishTyped DEF ReplaceDeclined
  <2> QED
    BY <1>6, <2>1, <2>2, KeepTypes DEF ReplaceDeclined
<1>7. ASSUME NEW w \in Workers, NEW o \in Orders, ReplaceChecked(w, o)
      PROVE  TypeOK'
  <2>1. AccountTypes'
    BY <1>7 DEF ReplaceChecked, AccountTypes, AccountStatus, Verdict,
       Undone
  <2>2. TaskTypes'
    BY <1>7, BeginTyped DEF ReplaceChecked, TaskTypes, Tasks, Stages,
       Reserving, Step, AccountStatus
  <2> QED
    BY <1>7, <2>1, <2>2, KeepTypes DEF ReplaceChecked
<1>8. ASSUME NEW w \in Workers, NEW o \in Orders, NEW a \in Accounts,
             ReplaceClaim(w, o, a)
      PROVE  TypeOK'
  <2>1. LeaseTypes'
    BY <1>8, RowsAssumption DEF ReplaceClaim, LeaseTypes, TakeLease
  <2>2. AccountTypes'
    BY <1>8 DEF ReplaceClaim, AccountTypes, AccountStatus
  <2>3. TaskTypes'
    BY <1>8, BeginTyped, MovedTyped DEF ReplaceClaim, Stages, Reserving
  <2> QED
    BY <1>8, <2>1, <2>2, <2>3, KeepTypes DEF ReplaceClaim
<1>9. ASSUME NEW w \in Workers, NEW o \in Orders, ReplaceNoAccount(w, o)
      PROVE  TypeOK'
  <2>1. LeaseTypes'
    BY <1>9, RowsAssumption DEF ReplaceNoAccount, LeaseTypes, DropLease
  <2>2. TaskTypes'
    BY <1>9, FinishTyped DEF ReplaceNoAccount
  <2> QED
    BY <1>9, <2>1, <2>2, KeepTypes DEF ReplaceNoAccount
<1>10. ASSUME NEW w \in Workers, NEW o \in Orders, ReplaceRefused(w, o)
      PROVE  TypeOK'
  <2>1. RentalTypes'
    BY <1>10, RowsAssumption DEF ReplaceRefused, RentalTypes, RentalStatus,
       CloseOnCommand
  <2>2. TaskTypes'
    BY <1>10, FinishTyped DEF ReplaceRefused
  <2> QED
    BY <1>10, <2>1, <2>2, KeepTypes DEF ReplaceRefused
<1>11. ASSUME NEW w \in Workers, NEW o \in Orders, NEW ok \in BOOLEAN,
             ReplaceKick(w, o, ok)
      PROVE  TypeOK'
  <2>1. TaskTypes'
    BY <1>11, BeginTyped, KickedTyped DEF ReplaceKick, Stages, Reserving, At
  <2>2. FaultTypes'
    BY <1>11, RowsAssumption DEF ReplaceKick, FaultTypes, Logout, FaultUnless
  <2>3. AccessTypes'
    BY <1>11 DEF ReplaceKick, AccessTypes, Logout, FaultUnless
  <2> QED
    BY <1>11, <2>1, <2>2, <2>3, KeepTypes DEF ReplaceKick
<1>12. ASSUME NEW w \in Workers, NEW o \in Orders, ReplaceSwitch(w, o)
      PROVE  TypeOK'
  <2>1. RentalTypes'
    BY <1>12, RowsAssumption DEF ReplaceSwitch, RentalTypes, RentalStatus,
       Replaceable, ReplaceMatches, OwnsReplacement, At, TaskTypes, Tasks,
       Reserving, LeaseTypes
  <2>2. DeliveryTypes'
    BY <1>12 DEF ReplaceSwitch, DeliveryTypes, DeliveryStatus
  <2>3. LeaseTypes'
    BY <1>12, RowsAssumption DEF ReplaceSwitch, LeaseTypes, DropLease
  <2>4. AccountTypes'
    BY <1>12 DEF ReplaceSwitch, AccountTypes, AccountStatus, Enqueued
  <2>5. TaskTypes'
    BY <1>12, BeginTyped, StepTyped DEF ReplaceSwitch, Stages, Reserving,
       RentalTypes
  <2> QED
    BY <1>12, <2>1, <2>2, <2>3, <2>4, <2>5, KeepTypes DEF ReplaceSwitch
<1>13. ASSUME NEW w \in Workers, NEW o \in Orders, ReplaceGiveUp(w, o)
      PROVE  TypeOK'
  <2>1. RentalTypes'
    BY <1>13, RowsAssumption DEF ReplaceGiveUp, RentalTypes, RentalStatus,
       CloseOnCommand
  <2>2. LeaseTypes'
    BY <1>13, RowsAssumption DEF ReplaceGiveUp, LeaseTypes, DropLease,
       leaseVars
  <2>3. TaskTypes'
    BY <1>13, FinishTyped DEF ReplaceGiveUp
  <2> QED
    BY <1>13, <2>1, <2>2, <2>3, KeepTypes DEF ReplaceGiveUp
<1> QED
  BY <1>1, <1>2, <1>3, <1>4, <1>5, <1>6, <1>7, <1>8, <1>9, <1>10,
     <1>11, <1>12, <1>13 DEF CommandHandlersNext

LEMMA AccountChecksTyped == TypeOK /\ AccountChecksNext => TypeOK'
<1> SUFFICES ASSUME TypeOK, AccountChecksNext PROVE TypeOK'
  OBVIOUS
<1> USE DEF TypeOK
<1>1. ASSUME NEW a \in Accounts, EnqueueCheck(a)
      PROVE  TypeOK'
  <2>1. AccountTypes'
    BY <1>1 DEF EnqueueCheck, restVars, AccountTypes, AccountStatus, Enqueued
  <2> QED
    BY <1>1, <2>1, KeepTypes DEF EnqueueCheck, restVars
<1>2. ASSUME NEW a \in Accounts, StartCheck(a)
      PROVE  TypeOK'
  <2>1. AccountTypes'
    BY <1>2 DEF StartCheck, restVars, AccountTypes, AccountStatus
  <2> QED
    BY <1>2, <2>1, KeepTypes DEF StartCheck, restVars
<1>3. ASSUME NEW a \in Accounts, NEW s \in AccountStatus, FinishCheck(a, s)
      PROVE  TypeOK'
  <2>1. AccountTypes'
    BY <1>3 DEF FinishCheck, restVars, AccountTypes, AccountStatus
  <2> QED
    BY <1>3, <2>1, KeepTypes DEF FinishCheck, restVars
<1>4. ASSUME NEW a \in Accounts, FinishRerun(a)
      PROVE  TypeOK'
  <2>1. AccountTypes'
    BY <1>4 DEF FinishRerun, restVars, AccountTypes, AccountStatus
  <2> QED
    BY <1>4, <2>1, KeepTypes DEF FinishRerun, restVars
<1>5. ASSUME NEW a \in Accounts, RequeueCheck(a)
      PROVE  TypeOK'
  <2>1. AccountTypes'
    BY <1>5 DEF RequeueCheck, restVars, AccountTypes, AccountStatus
  <2> QED
    BY <1>5, <2>1, KeepTypes DEF RequeueCheck, restVars
<1>6. ASSUME NEW a \in Accounts, Recheck(a)
      PROVE  TypeOK'
  <2>1. AccountTypes'
    BY <1>6 DEF Recheck, restVars, AccountTypes, AccountStatus, Enqueued
  <2> QED
    BY <1>6, <2>1, KeepTypes DEF Recheck, restVars
<1>7. ASSUME NEW a \in Accounts, Suspend(a)
      PROVE  TypeOK'
  <2>1. AccountTypes'
    BY <1>7 DEF Suspend, restVars, AccountTypes, AccountStatus
  <2> QED
    BY <1>7, <2>1, KeepTypes DEF Suspend, restVars
<1> QED
  BY <1>1, <1>2, <1>3, <1>4, <1>5, <1>6, <1>7 DEF AccountChecksNext

LEMMA AbandonTyped ==
    ASSUME TypeOK, NEW w \in Workers, Abandon(w)
    PROVE  TypeOK'
<1>1. FaultTypes'
  BY RowsAssumption DEF Abandon, FaultUnless, TypeOK, FaultTypes
<1>2. TaskTypes'
  BY FinishTyped DEF Abandon, TypeOK
<1> QED
  BY <1>1, <1>2, KeepTypes DEF Abandon, TypeOK

LEMMA TypeStep == TypeOK /\ [Next]_vars => TypeOK'
<1> SUFFICES ASSUME TypeOK, [Next]_vars PROVE TypeOK'
  OBVIOUS
<1>1. CASE Next
  BY <1>1, RentalServiceTyped, OrderProcessorTyped, RentalExpiryTyped,
     CommandHandlersTyped, AccountChecksTyped, AbandonTyped DEF Next
<1>2. CASE UNCHANGED vars
  BY <1>2, KeepTypes DEF vars, TypeOK
<1> QED
  BY <1>1, <1>2

\* In every reachable state every row and every operation in flight has its type:
\* a status is one the code knows, an attempt count a number, an operation's
\* account and order ones that exist.
THEOREM TypeCorrect == Spec => []TypeOK
<1>1. Init => TypeOK
  BY TypeInit
<1>2. TypeOK /\ [Next]_vars => TypeOK'
  BY TypeStep
<1> QED
  BY <1>1, <1>2, PTL DEF Spec
=============================================================================
