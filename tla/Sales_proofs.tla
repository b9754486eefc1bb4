---------------------------- MODULE Sales_proofs ----------------------------
(***************************************************************************)
(* The sale, its Order and the confirmation of it, for every value of the  *)
(* constants: types; the confirmation is sent once, and only while the     *)
(* order is completed; no callback takes a refund back.                    *)
(***************************************************************************)
EXTENDS SalesSystem, TLAPS

OrderStatus == {"pending", "completed"} \cup Refunding

RowTypes ==
    /\ order \in OrderRow \cup {Nothing} /\ sale \in SaleRow \cup {Nothing}
    /\ order = Nothing <=> sale = Nothing
CallTypes ==
    /\ call \in [Calls -> {"idle", "sending", "failed", "failed_globally"}]
    /\ told \in 0..2 /\ unknown \in 0..MaxFaults
FaultTypes == faults \in 0..MaxFaults
RegistryTypes ==
    /\ remote \in SaleStatus /\ node \in Nodes /\ ours \in BOOLEAN
    /\ buried \in BOOLEAN /\ backfill \in {"open", "done"}
    /\ backoff \in BOOLEAN /\ booted \in BOOLEAN
    /\ candidate \in Candidate \cup {Nothing}
SyncTypes == sync \in Sync
EventTypes ==
    inbox \subseteq Kinds /\ handler \in [Slow -> Handling \cup {Nothing}]

\* a candidate that a sync will look at has an attempt left
HasAttempts(c) == c # Nothing /\ c.state = "pending" => c.attempts < MaxAttempts
CandidatesHaveAttempts ==
    HasAttempts(candidate) /\ HasAttempts(sync.candidate)

\* the Order that a sync in flight found is still there; what it inserted is not
\* there for anybody else
SyncRemembers ==
    sync.pc = "working" =>
      IF sync.promoted = "made"
      THEN order = Nothing /\ sync.order # Nothing /\ sync.sale # Nothing
      ELSE /\ sync.order # Nothing => order # Nothing
           /\ sync.order # Nothing <=> sync.sale # Nothing
SyncStarts == sync.pc # "working" => sync.promoted = "no"

\* each lost answer is one of the faults
LostAreFaults == unknown <= faults

ITypes ==
    /\ RowTypes /\ CallTypes /\ FaultTypes /\ RegistryTypes /\ SyncTypes /\ EventTypes
    /\ CandidatesHaveAttempts /\ SyncStarts /\ SyncRemembers /\ LostAreFaults

-----------------------------------------------------------------------------
(* What the operators return                                               *)

LEMMA Merging ==
    ASSUME NEW s \in SaleStatus, NEW t \in SaleStatus
    PROVE  Merged(s, t) \in SaleStatus
BY DEF Merged

LEMMA Reconciling ==
    ASSUME NEW s \in OrderStatus, NEW t
    PROVE  /\ Reconciled(s, t) \in OrderStatus
           /\ Reconciled(s, t) # s => \/ Reconciled(s, t) \in Refunding
                                      \/ s = "pending"
BY DEF Reconciled, OrderStatus, Refunding

\* a row with another status
LEMMA WithStatus ==
    ASSUME NEW o \in OrderRow, NEW s \in OrderStatus
    PROVE  LET n == [o EXCEPT !.status = s]
           IN n \in OrderRow /\ n.status = s /\ n.sent = o.sent
BY DEF OrderRow, OrderStatus, Refunding

LEMMA Settling ==
    ASSUME NEW o \in OrderRow
    PROVE  /\ Settled(o) \in OrderRow
           /\ Settled(o).status = o.status /\ Settled(o).sent = o.sent
BY DEF Settled, OrderRow

\* marking is about the confirmation only
LEMMA Marking ==
    ASSUME NEW o \in OrderRow, NEW s, NEW idle, NEW n \in MarkedDue(o, s, idle)
    PROVE  n \in OrderRow /\ n.status = o.status /\ n.sent = o.sent
<1> DEFINE pending == [o EXCEPT !.conf = "pending"]
           due == [o EXCEPT !.due = TRUE, !.conf = "pending",
                            !.attempts = 0, !.wait = FALSE]
<1>1. n = o \/ n = Settled(o) \/ n = pending \/ n = due
  BY DEF MarkedDue
<1>2. pending \in OrderRow /\ pending.status = o.status /\ pending.sent = o.sent
  BY DEF OrderRow
<1>3. 0 \in 0..MaxAttempts
  BY SalesAssumption
<1>4. due \in OrderRow /\ due.status = o.status /\ due.sent = o.sent
  BY <1>3 DEF OrderRow
<1> QED
  BY <1>1, <1>2, <1>4, Settling

LEMMA Failing ==
    ASSUME NEW o \in OrderRow, NEW global
    PROVE  /\ Failed(o, global) \in OrderRow
           /\ Failed(o, global).status = o.status
           /\ Failed(o, global).sent = o.sent
<1> DEFINE over == [o EXCEPT !.attempts = MaxAttempts, !.conf = "manual",
                             !.wait = FALSE]
           again(k) == [o EXCEPT !.attempts = k, !.conf = "failed", !.wait = TRUE]
           next == IF o.attempts = MaxAttempts THEN o.attempts ELSE o.attempts + 1
<1>1. o.attempts \in 0..MaxAttempts /\ MaxAttempts \in 0..MaxAttempts
  BY SalesAssumption DEF OrderRow
<1>2. next \in 0..MaxAttempts
  BY <1>1, SalesAssumption
<1>3. Failed(o, global) = over \/ Failed(o, global) = again(next)
  BY DEF Failed
<1>4. over \in OrderRow /\ over.status = o.status /\ over.sent = o.sent
  BY <1>1 DEF OrderRow
<1>5. \A k \in 0..MaxAttempts : /\ again(k) \in OrderRow
                                /\ again(k).status = o.status
                                /\ again(k).sent = o.sent
  BY DEF OrderRow
<1> QED
  BY <1>2, <1>3, <1>4, <1>5

\* what a callback makes of the Order: nothing of the confirmation sent, and a
\* refund only ever goes on
LEMMA Ending ==
    ASSUME NEW o \in OrderRow, NEW s, NEW status \in SaleStatus,
           NEW n \in Ended(o, s, status)
    PROVE  /\ n \in OrderRow /\ n.sent = o.sent
           /\ o.status \in Refunding => n.status \in Refunding
<1>1. CASE status = "refunded"
  <2>1. n \in WithRefund(o)
    BY <1>1 DEF Ended
  <2>2. CASE o.status = "refunded"
    BY <2>1, <2>2 DEF WithRefund
  <2>3. CASE o.status # "refunded"
    <3>1. PICK st \in Refunding : n = [o EXCEPT !.status = st]
      BY <2>1, <2>3 DEF WithRefund
    <3>2. st \in OrderStatus
      BY DEF OrderStatus
    <3> QED
      BY <3>1, <3>2, WithStatus
  <2> QED
    BY <2>2, <2>3
<1>2. CASE status = "completed"
  <2> DEFINE c == [o EXCEPT !.status = Closed(o)]
  <2>1. o.status \in OrderStatus
    BY DEF OrderRow, OrderStatus
  <2>2. Closed(o) \in OrderStatus
    BY <2>1 DEF Closed, OrderStatus
  <2>3. c \in OrderRow /\ c.status = Closed(o) /\ c.sent = o.sent
    BY <2>2, WithStatus
  <2>4. n \in WithClose(o, s)
    BY <1>2 DEF Ended
  <2>5. n \in MarkedDue(c, s, o.conf = "idle") \/ n = c
    BY <2>4 DEF WithClose
  <2> HIDE DEF c
  <2>6. n \in OrderRow /\ n.status = c.status /\ n.sent = c.sent
    BY <2>3, <2>5, Marking
  <2> QED
    BY <2>3, <2>6 DEF Closed
<1>3. CASE status = "paid"
  BY <1>3 DEF Ended
<1> QED
  BY <1>1, <1>2, <1>3 DEF SaleStatus

LEMMA Creating ==
    ASSUME NEW s \in OrderStatus, NEW n \in Nodes
    PROVE  NewOrder(s, n) \in OrderRow /\ ~NewOrder(s, n).sent
                                       /\ NewOrder(s, n).status = s
BY SalesAssumption DEF NewOrder, OrderRow, OrderStatus

LEMMA Starting ==
    ASSUME NEW s \in SaleStatus
    PROVE  Initial(s) \in OrderStatus
BY DEF Initial, SaleStatus, OrderStatus, Refunding

\* a candidate gives its attempts up one by one
LEMMA Deferring ==
    ASSUME ITypes, sync.candidate # Nothing, sync.candidate.state = "pending",
           NEW global
    PROVE  Deferred(global) \in Candidate /\ HasAttempts(Deferred(global))
<1>1. PICK c \in Candidate : c = sync.candidate
  BY DEF ITypes, SyncTypes, Sync
<1>2. c.attempts \in 0..MaxAttempts /\ c.attempts < MaxAttempts
  BY <1>1 DEF ITypes, CandidatesHaveAttempts, HasAttempts, Candidate
<1>3. c.attempts + 1 \in 0..MaxAttempts
  BY <1>2, SalesAssumption
<1> DEFINE spared == [c EXCEPT !.wait = TRUE]
           over == [c EXCEPT !.attempts = @ + 1, !.state = "failed", !.wait = FALSE]
           again == [c EXCEPT !.attempts = @ + 1, !.wait = TRUE]
<1>4. spared \in Candidate /\ spared.attempts = c.attempts
  BY DEF Candidate
<1>5. over \in Candidate /\ over.state = "failed"
  BY <1>3 DEF Candidate
<1>6. again \in Candidate /\ again.attempts = c.attempts + 1
  BY <1>3 DEF Candidate
<1>7. \/ Deferred(global) = spared
      \/ Deferred(global) = over
      \/ Deferred(global) = again /\ ~(c.attempts + 1 >= MaxAttempts)
  BY <1>1 DEF Deferred
<1> HIDE DEF spared, over, again
<1>8. ~(c.attempts + 1 >= MaxAttempts) => c.attempts + 1 < MaxAttempts
  BY <1>3, SalesAssumption
<1> QED
  BY <1>2, <1>4, <1>5, <1>6, <1>7, <1>8 DEF HasAttempts

LEMMA Ignoring ==
    ASSUME ITypes, sync.candidate # Nothing
    PROVE  Ignored \in Candidate /\ HasAttempts(Ignored)
<1>1. sync.candidate \in Candidate
  BY DEF ITypes, SyncTypes, Sync
<1> QED
  BY <1>1 DEF Ignored, Candidate, HasAttempts

\* what a sync remembers of the rows
LEMMA Remembering ==
    ASSUME ITypes
    PROVE  /\ Memory \in Remembered \cup {Nothing}
           /\ Memory = Nothing <=> order = Nothing
           /\ Working \in Sync
           /\ Working.pc = "working" /\ Working.promoted = sync.promoted
           /\ Working.order = Memory /\ Working.sale = sale
           /\ Working.candidate = sync.candidate
<1>1. Memory \in Remembered \cup {Nothing}
  BY DEF ITypes, RowTypes, Memory, OrderRow, Remembered
<1>2. Memory = Nothing <=> order = Nothing
  <2> DEFINE m == [status |-> order.status, chat |-> order.chat,
                   idle |-> order.conf = "idle"]
  <2>1. order # Nothing => m \in Remembered
    BY DEF ITypes, RowTypes, OrderRow, Remembered
  <2> QED
    BY <2>1, RememberedAssumption DEF Memory
<1>3. sync \in Sync /\ sale \in SaleRow \cup {Nothing}
  BY DEF ITypes, RowTypes, SyncTypes
<1>4. Working \in Sync /\ Working.order = Memory /\ Working.sale = sale
  BY <1>1, <1>3 DEF Working, Sync
<1>5. /\ Working.pc = "working" /\ Working.promoted = sync.promoted
      /\ Working.candidate = sync.candidate
  BY <1>3 DEF Working, Sync
<1> QED
  BY <1>1, <1>2, <1>4, <1>5

\* a sync moves its Order to a refund, or from pending
LEMMA SyncMoves ==
    ASSUME ITypes, sync.order # Nothing, sync.sale # Nothing
    PROVE  /\ SaleAfter \in SaleStatus
           /\ OrderAfter \in OrderStatus
           /\ OrderAfter # sync.order.status =>
                OrderAfter \in Refunding \/ sync.order.status = "pending"
<1>1. /\ sync.order \in Remembered /\ sync.sale \in SaleRow
      /\ sync.info \in SaleStatus /\ sync.seen \in SaleStatus \cup {"none"}
  BY DEF ITypes, SyncTypes, Sync
<1>2. sync.order.status \in OrderStatus /\ sync.sale.status \in SaleStatus
  BY <1>1 DEF Remembered, SaleRow, OrderStatus
<1>3. SaleAfterRecovery \in SaleStatus
  BY <1>1, <1>2, Merging DEF SaleAfterRecovery
<1>4. SaleAfter \in SaleStatus
  BY <1>1, <1>3, Merging DEF SaleAfter
<1> DEFINE s == sync.order.status
           r == IF sync.promoted = "no" THEN s ELSE Reconciled(s, sync.info)
<1>5. r \in OrderStatus /\ (r # s => r \in Refunding \/ s = "pending")
  BY <1>2, Reconciling
<1>6. OrderAfter = r \/ OrderAfter = Reconciled(r, SaleAfter)
  BY DEF OrderAfter
<1>7. /\ OrderAfter \in OrderStatus
      /\ OrderAfter # r => OrderAfter \in Refunding \/ r = "pending"
  BY <1>5, <1>6, Reconciling
<1>8. OrderAfter # s => OrderAfter \in Refunding \/ s = "pending"
  BY <1>5, <1>7 DEF Refunding
<1> QED
  BY <1>4, <1>7, <1>8
-----------------------------------------------------------------------------
(* What a step does to the Order, unless it sends the confirmation: the sent *)
(* marker stays, and the row is not written under a lock that a send holds.  *)

Undisturbed ==
    \/ order' = order
    \/ order = Nothing
    \/ OrderFree /\ order' # Nothing /\ order'.sent = order.sent
Forward ==
    order # Nothing =>
      /\ order' # Nothing
      /\ order.status \in Refunding =>
           \/ order'.status = order.status \/ order'.status \in Refunding
           \/ sync.order # Nothing /\ sync.order.status = "pending"
RowsGoOn == RowTypes' /\ Undisturbed /\ Forward

LEMMA RowsStay ==
    ASSUME RowTypes, UNCHANGED <<order, sale>>
    PROVE  RowsGoOn
BY DEF RowTypes, RowsGoOn, Undisturbed, Forward

\* both rows are there afterwards, and the Order is what an event makes of it
LEMMA RowsEnd ==
    ASSUME NEW o \in OrderRow, NEW s, NEW status \in SaleStatus,
           RowTypes, OrderFree, o = order \/ order = Nothing,
           sale' \in SaleRow, order' \in Ended(o, s, status)
    PROVE  RowsGoOn
<1>1. /\ order' \in OrderRow /\ order'.sent = o.sent
      /\ o.status \in Refunding => order'.status \in Refunding
  BY Ending
<1> QED
  BY <1>1, NothingAssumption DEF RowTypes, RowsGoOn, Undisturbed, Forward

LEMMA NewSaleRows ==
    ASSUME ITypes, NewSale
    PROVE  RowsGoOn
<1> DEFINE h == handler["new"]
           o == IF order = Nothing THEN NewOrder(Initial(h.status), h.chat) ELSE order
           s == [status |-> IF sale = Nothing THEN h.status
                            ELSE Merged(sale.status, h.status),
                 chat |-> h.chat]
<1>1. h # Nothing /\ OrderFree /\ sale' = s /\ order' \in Ended(o, s, h.status)
  BY DEF NewSale
<1>2. h \in Handling
  BY <1>1 DEF ITypes, EventTypes, Slow
<1>3. h.status \in SaleStatus /\ h.chat \in Nodes
  BY <1>2 DEF Handling
<1>4. o \in OrderRow /\ (o = order \/ order = Nothing)
  BY <1>3, Creating, Starting DEF ITypes, RowTypes
<1>5. sale = Nothing \/ sale.status \in SaleStatus
  BY DEF ITypes, RowTypes, SaleRow
<1>6. s \in SaleRow
  BY <1>3, <1>5, Merging DEF SaleRow
<1> HIDE DEF o, s, h
<1> QED
  BY <1>1, <1>3, <1>4, <1>6, RowsEnd DEF ITypes

LEMMA SaleEndsRows ==
    ASSUME ITypes, NEW k, NEW again, NEW status \in SaleStatus,
           SaleEnds(k, status, again)
    PROVE  RowsGoOn
<1>1. order \in OrderRow /\ sale \in SaleRow
  BY DEF SaleEnds, Known, Verified, ITypes, RowTypes
<1>2. sale' = [sale EXCEPT !.status = Merged(sale.status, status)]
  BY DEF SaleEnds
<1>3. sale.status \in SaleStatus
  BY <1>1 DEF SaleRow
<1>4. Merged(sale.status, status) \in SaleStatus
  BY <1>3, Merging
<1>5. sale' \in SaleRow
  BY <1>1, <1>2, <1>4 DEF SaleRow
<1>6. OrderFree /\ order' \in Ended(order, sale, status)
  BY DEF SaleEnds
<1> QED
  BY <1>1, <1>5, <1>6, RowsEnd DEF ITypes

\* only the chat moves
LEMMA RebindsRows ==
    ASSUME ITypes, Rebinds
    PROVE  RowsGoOn
<1> DEFINE h == handler["message"]
<1>1. h \in Handling
  BY DEF Rebinds, ITypes, EventTypes, Slow
<1>2. h.chat \in Nodes
  BY <1>1 DEF Handling
<1>3. CASE order = Nothing
  <2>1. sale = Nothing
    BY <1>3 DEF ITypes, RowTypes
  <2> QED
    BY <1>3, <2>1, RowsStay DEF Rebinds, ITypes
<1>4. CASE order # Nothing
  <2>1. order \in OrderRow /\ sale \in SaleRow
    BY <1>4 DEF ITypes, RowTypes
  <2>2. order' = [order EXCEPT !.chat = h.chat] /\ OrderFree
    BY <1>4 DEF Rebinds
  <2>3. /\ order' \in OrderRow
        /\ order'.status = order.status /\ order'.sent = order.sent
    BY <1>2, <2>1, <2>2 DEF OrderRow
  <2>4. sale' = sale \/ sale' = [sale EXCEPT !.chat = h.chat]
    BY DEF Rebinds
  <2>5. sale' \in SaleRow
    BY <1>2, <2>1, <2>4 DEF SaleRow
  <2> QED
    BY <2>2, <2>3, <2>5, NothingAssumption
       DEF RowTypes, RowsGoOn, Undisturbed, Forward
<1> QED
  BY <1>3, <1>4

LEMMA SweepsRows ==
    ASSUME ITypes, RefundSweeps
    PROVE  RowsGoOn
<1>1. order \in OrderRow /\ sale \in SaleRow
  BY DEF RefundSweeps, ITypes, RowTypes
<1>2. order' = [order EXCEPT !.status = "refunded"] /\ OrderFree /\ sale' = sale
  BY DEF RefundSweeps
<1>3. "refunded" \in OrderStatus /\ "refunded" \in Refunding
  BY DEF OrderStatus, Refunding
<1>4. order' \in OrderRow /\ order'.status = "refunded" /\ order'.sent = order.sent
  BY <1>1, <1>2, <1>3, WithStatus
<1> QED
  BY <1>1, <1>2, <1>3, <1>4, NothingAssumption
     DEF RowTypes, RowsGoOn, Undisturbed, Forward

\* the commit of a sync: what it read is there, or it made it
LEMMA CommitsRows ==
    ASSUME ITypes, NEW global, SyncCommits(global)
    PROVE  RowsGoOn
<1>1. sync.pc = "working" /\ SyncRemembers
  BY DEF SyncCommits, ITypes
<1>2. CASE sync.order = Nothing \/ sync.sale = Nothing
  BY <1>2, RowsStay DEF SyncCommits, ITypes
<1>3. CASE sync.order # Nothing /\ sync.sale # Nothing
  <2>1. sync.order \in Remembered /\ sync.sale \in SaleRow
    BY <1>3 DEF ITypes, SyncTypes, Sync
  <2>2. /\ sync.order.status \in OrderStatus /\ sync.order.chat \in Nodes
        /\ sync.sale.chat \in Nodes
    BY <2>1 DEF Remembered, SaleRow, OrderStatus
  <2>3. \A o, s : Confirms(o, s) = {o}
                  \/ Confirms(o, s) = MarkedDue(o, s, sync.order.idle)
    BY DEF Confirms
  <2>4. CASE sync.promoted = "made"
    <3> DEFINE o == NewOrder(sync.order.status, sync.order.chat)
    <3>1. o \in OrderRow
      BY <2>2, Creating
    <3>2. order' \in Confirms(o, sync.sale) /\ sale' = sync.sale
      BY <1>3, <2>4 DEF SyncCommits
    <3> HIDE DEF o
    <3>3. order' \in OrderRow
      BY <2>3, <3>1, <3>2, Marking
    <3>4. order = Nothing
      BY <1>1, <2>4 DEF SyncRemembers
    <3> QED
      BY <2>1, <3>2, <3>3, <3>4, NothingAssumption
         DEF RowTypes, RowsGoOn, Undisturbed, Forward
  <2>5. CASE sync.promoted # "made"
    <3>1. order \in OrderRow /\ sale \in SaleRow
      BY <1>1, <1>3, <2>5 DEF SyncRemembers, ITypes, RowTypes
    <3>2. /\ sale' = SaleWritten /\ order' \in Confirms(OrderWritten, SaleWritten)
          /\ order' # order => OrderFree
      BY <1>3, <2>5 DEF SyncCommits
    <3>3. sale.status \in SaleStatus /\ sale.chat \in Nodes
      BY <3>1 DEF SaleRow
    <3>4. sale' \in SaleRow
      BY <1>3, <2>2, <3>2, <3>3, SyncMoves DEF SaleWritten, Write, SaleRow
    <3>5. PICK st : st = Write(OrderAfter, sync.order.status, order.status)
      OBVIOUS
    <3>6. order.status \in OrderStatus
      BY <3>1 DEF OrderRow, OrderStatus
    <3>7. /\ st \in OrderStatus
          /\ st # order.status => st \in Refunding \/ sync.order.status = "pending"
      BY <1>3, <3>5, <3>6, SyncMoves DEF Write
    <3>8. OrderWritten = [order EXCEPT !.status = st]
      BY <3>5 DEF OrderWritten
    <3>9. OrderWritten \in OrderRow /\ OrderWritten.status = st
                                    /\ OrderWritten.sent = order.sent
      BY <3>1, <3>7, <3>8, WithStatus
    <3>10. order' \in OrderRow /\ order'.status = st /\ order'.sent = order.sent
      BY <2>3, <3>2, <3>9, Marking
    <3> QED
      BY <1>3, <3>1, <3>2, <3>4, <3>7, <3>10, NothingAssumption
         DEF RowTypes, RowsGoOn, Undisturbed, Forward
  <2> QED
    BY <2>4, <2>5
<1> QED
  BY <1>2, <1>3

-----------------------------------------------------------------------------
(* Types *)

\* what a sync remembers outlives every other step
LEMMA SyncKeeps ==
    ASSUME SyncStarts, SyncRemembers, UNCHANGED sync, Forward,
           order = Nothing => order' = Nothing \/ ~Inserting
    PROVE  SyncStarts' /\ SyncRemembers'
BY DEF SyncStarts, SyncRemembers, Forward, Inserting

LEMMA KeepSales ==
    /\ CallTypes /\ UNCHANGED noticeVars => CallTypes'
    /\ FaultTypes /\ UNCHANGED faults => FaultTypes'
    /\ RegistryTypes
         /\ UNCHANGED <<funpayVars, backfill, backoff, booted, candidate>>
       => RegistryTypes'
    /\ SyncTypes /\ UNCHANGED sync => SyncTypes'
    /\ EventTypes /\ UNCHANGED eventVars => EventTypes'
    /\ CandidatesHaveAttempts /\ UNCHANGED <<candidate, sync>>
       => CandidatesHaveAttempts'
    /\ FaultTypes /\ faults < MaxFaults /\ faults' = faults + 1 => FaultTypes'
<1>1. CallTypes /\ UNCHANGED noticeVars => CallTypes'
  BY DEF CallTypes, noticeVars
<1>2. FaultTypes /\ UNCHANGED faults => FaultTypes'
  BY DEF FaultTypes
<1>3. RegistryTypes
        /\ UNCHANGED <<funpayVars, backfill, backoff, booted, candidate>>
      => RegistryTypes'
  BY DEF RegistryTypes, funpayVars
<1>4. SyncTypes /\ UNCHANGED sync => SyncTypes'
  BY DEF SyncTypes
<1>5. EventTypes /\ UNCHANGED eventVars => EventTypes'
  BY DEF EventTypes, eventVars
<1>6. CandidatesHaveAttempts /\ UNCHANGED <<candidate, sync>>
      => CandidatesHaveAttempts'
  BY DEF CandidatesHaveAttempts, HasAttempts
<1>7. FaultTypes /\ faults < MaxFaults /\ faults' = faults + 1 => FaultTypes'
  BY SalesAssumption DEF FaultTypes
<1> QED
  BY <1>1, <1>2, <1>3, <1>4, <1>5, <1>6, <1>7

\* a lost answer is a fault: as many more of the one as of the other
LEMMA FaultsGrow ==
    ASSUME ITypes, UNCHANGED unknown,
           faults' = faults \/ (faults < MaxFaults /\ faults' = faults + 1)
    PROVE  FaultTypes' /\ LostAreFaults'
<1>1. faults \in 0..MaxFaults /\ unknown \in 0..MaxFaults /\ unknown <= faults
  BY DEF ITypes, FaultTypes, CallTypes, LostAreFaults
<1> QED
  BY <1>1, SalesAssumption DEF FaultTypes, LostAreFaults

\* FunPay's own steps and the events that begin a callback or are ignored
LEMMA FunPayTyped ==
    ASSUME ITypes,
           \/ \E status \in SaleStatus : Becomes(status)
           \/ Buries \/ \E n \in Nodes : Rotates(n)
           \/ \E again \in BOOLEAN : \/ \E k \in Slow : Begins(k, again)
                                     \/ \E k \in Kinds : SaleIgnored(k, again)
    PROVE  ITypes'
<1> USE DEF ITypes
<1>1. ASSUME NEW status \in SaleStatus, Becomes(status) PROVE ITypes'
  <2>1. UNCHANGED <<order, sale, faults, sync, candidate>> /\ UNCHANGED noticeVars
    BY <1>1 DEF Becomes
  <2>2. RegistryTypes' /\ EventTypes'
    BY <1>1 DEF Becomes, RegistryTypes, EventTypes, Kinds
  <2>3. UNCHANGED unknown
    BY <2>1 DEF noticeVars
  <2> QED
    BY <2>1, <2>2, <2>3, RowsStay, KeepSales, FaultsGrow, SyncKeeps DEF RowsGoOn
<1>2. ASSUME Buries PROVE ITypes'
  <2>1. UNCHANGED <<order, sale, sync, candidate>> /\ UNCHANGED noticeVars
    BY <1>2 DEF Buries
  <2>2. RegistryTypes' /\ EventTypes'
    BY <1>2 DEF Buries, RegistryTypes, EventTypes
  <2>3. UNCHANGED unknown /\ faults < MaxFaults /\ faults' = faults + 1
    BY <1>2 DEF noticeVars, Buries
  <2> QED
    BY <2>1, <2>2, <2>3, RowsStay, KeepSales, FaultsGrow, SyncKeeps DEF RowsGoOn
<1>3. ASSUME NEW n \in Nodes, Rotates(n) PROVE ITypes'
  <2>1. UNCHANGED <<order, sale, sync, candidate>> /\ UNCHANGED noticeVars
    BY <1>3 DEF Rotates
  <2>2. RegistryTypes' /\ EventTypes'
    BY <1>3 DEF Rotates, RegistryTypes, EventTypes, Kinds
  <2>3. UNCHANGED unknown /\ faults < MaxFaults /\ faults' = faults + 1
    BY <1>3 DEF noticeVars, Rotates
  <2> QED
    BY <2>1, <2>2, <2>3, RowsStay, KeepSales, FaultsGrow, SyncKeeps DEF RowsGoOn
<1>4. ASSUME NEW again \in BOOLEAN, NEW k \in Slow, Begins(k, again) PROVE ITypes'
  <2>1. UNCHANGED <<order, sale, sync, candidate>> /\ UNCHANGED noticeVars
        /\ UNCHANGED <<funpayVars, backfill, backoff, booted, candidate>>
    BY <1>4 DEF Begins, RegistryRest
  <2>2. EventTypes'
    <3>1. Known \in BOOLEAN
      BY DEF Known, Verified
    <3>2. /\ [known |-> TRUE, status |-> remote, chat |-> node] \in Handling
          /\ [known |-> Known, status |-> "paid", chat |-> node] \in Handling
      BY <3>1 DEF RegistryTypes, Handling, SaleStatus
    <3>3. PICK h \in Handling : handler' = [handler EXCEPT ![k] = h]
      BY <1>4, <3>2 DEF Begins
    <3>4. inbox' \subseteq Kinds
      BY <1>4 DEF Begins, Taken, EventTypes
    <3> QED
      BY <3>3, <3>4 DEF EventTypes
  <2>3. UNCHANGED unknown
        /\ (faults' = faults \/ (faults < MaxFaults /\ faults' = faults + 1))
    BY <1>4 DEF noticeVars, Begins, Taken
  <2> QED
    BY <2>1, <2>2, <2>3, RowsStay, KeepSales, FaultsGrow, SyncKeeps DEF RowsGoOn
<1>5. ASSUME NEW again \in BOOLEAN, NEW k \in Kinds, SaleIgnored(k, again)
      PROVE  ITypes'
  <2>1. UNCHANGED <<order, sale, sync, candidate>> /\ UNCHANGED noticeVars
        /\ UNCHANGED <<funpayVars, backfill, backoff, booted, candidate>>
    BY <1>5 DEF SaleIgnored, OnEvent, RegistryRest
  <2>2. EventTypes'
    BY <1>5 DEF SaleIgnored, OnEvent, Taken, EventTypes
  <2>3. UNCHANGED unknown
        /\ (faults' = faults \/ (faults < MaxFaults /\ faults' = faults + 1))
    BY <1>5 DEF noticeVars, SaleIgnored, OnEvent, Taken
  <2> QED
    BY <2>1, <2>2, <2>3, RowsStay, KeepSales, FaultsGrow, SyncKeeps DEF RowsGoOn
<1> QED
  BY <1>1, <1>2, <1>3, <1>4, <1>5

\* the callbacks and the refund sweep
LEMMA CallbacksTyped ==
    ASSUME ITypes,
           \/ NewSale \/ NewSaleRefused \/ Rebinds \/ RefundSweeps
           \/ \E k, status \in {"closed", "refunded", "completed"},
                 again \in BOOLEAN :
                 status # "closed" /\ SaleEnds(k, status, again)
    PROVE  ITypes'
<1> USE DEF ITypes
<1>1. ASSUME NEW k, Ends(k)
      PROVE  /\ UNCHANGED <<sync, faults, candidate>> /\ UNCHANGED noticeVars
             /\ UNCHANGED <<funpayVars, backfill, backoff, booted, candidate>>
             /\ UNCHANGED unknown /\ EventTypes'
  <2>1. UNCHANGED <<sync, faults, candidate>> /\ UNCHANGED noticeVars
        /\ UNCHANGED <<funpayVars, backfill, backoff, booted, candidate>>
    BY <1>1 DEF Ends, RegistryRest
  <2>2. handler' = [handler EXCEPT ![k] = Nothing] /\ inbox' = inbox
    BY <1>1 DEF Ends, Done
  <2> QED
    BY <2>1, <2>2 DEF EventTypes, noticeVars
<1>2. ASSUME NewSale PROVE ITypes'
  <2>1. RowsGoOn /\ Ends("new") /\ ~Inserting
    BY <1>2, NewSaleRows DEF NewSale
  <2> QED
    BY <1>1, <2>1, KeepSales, FaultsGrow, SyncKeeps DEF RowsGoOn
<1>3. ASSUME NewSaleRefused PROVE ITypes'
  <2>1. RowsGoOn /\ Ends("new") /\ UNCHANGED order
    BY <1>3, RowsStay DEF NewSaleRefused
  <2> QED
    BY <1>1, <2>1, KeepSales, FaultsGrow, SyncKeeps DEF RowsGoOn
<1>4. ASSUME Rebinds PROVE ITypes'
  <2>1. RowsGoOn /\ Ends("message") /\ (order = Nothing => order' = Nothing)
    BY <1>4, RebindsRows DEF Rebinds
  <2> QED
    BY <1>1, <2>1, KeepSales, FaultsGrow, SyncKeeps DEF RowsGoOn
<1>5. ASSUME RefundSweeps PROVE ITypes'
  <2>1. RowsGoOn /\ order # Nothing
    BY <1>5, SweepsRows DEF RefundSweeps
  <2>2. UNCHANGED <<sync, faults, candidate>> /\ UNCHANGED noticeVars
        /\ UNCHANGED <<funpayVars, backfill, backoff, booted, candidate>>
        /\ UNCHANGED unknown /\ UNCHANGED eventVars
    BY <1>5 DEF RefundSweeps, RegistryRest, noticeVars
  <2> QED
    BY <2>1, <2>2, KeepSales, FaultsGrow, SyncKeeps DEF RowsGoOn
<1>6. ASSUME NEW k, NEW again \in BOOLEAN, NEW status \in {"refunded", "completed"},
             SaleEnds(k, status, again)
      PROVE  ITypes'
  <2>1. RowsGoOn /\ order # Nothing
    BY <1>6, SaleEndsRows DEF SaleStatus, SaleEnds, Known, Verified
  <2>2. UNCHANGED <<sync, candidate>> /\ UNCHANGED noticeVars
        /\ UNCHANGED <<funpayVars, backfill, backoff, booted, candidate>>
        /\ UNCHANGED unknown
    BY <1>6 DEF SaleEnds, OnEvent, RegistryRest, noticeVars
  <2>3. EventTypes' /\ (faults' = faults \/ (faults < MaxFaults /\ faults' = faults + 1))
    BY <1>6 DEF SaleEnds, OnEvent, Taken, EventTypes
  <2> QED
    BY <2>1, <2>2, <2>3, KeepSales, FaultsGrow, SyncKeeps DEF RowsGoOn
<1> QED
  BY <1>2, <1>3, <1>4, <1>5, <1>6

\* a step of the sync that leaves the rows alone, and of the budget at most takes
\* one fault
LEMMA OnlySyncs ==
    ASSUME ITypes, NEW s \in Sync, HasAttempts(s.candidate),
           Only(s),
           faults' = faults \/ (faults < MaxFaults /\ faults' = faults + 1),
           s.pc = "working",
           IF s.promoted = "made"
           THEN order = Nothing /\ s.order # Nothing /\ s.sale # Nothing
           ELSE /\ s.order # Nothing => order # Nothing
                /\ s.order # Nothing <=> s.sale # Nothing,
           UNCHANGED eventVars
    PROVE  ITypes'
<1> USE DEF ITypes
<1>1. sync' = s /\ UNCHANGED <<order, sale, candidate>> /\ UNCHANGED noticeVars
      /\ UNCHANGED <<funpayVars, backfill, backoff, booted, candidate>>
      /\ UNCHANGED unknown
  BY DEF Only, noticeVars
<1>2. SyncTypes' /\ SyncStarts' /\ SyncRemembers'
  BY <1>1 DEF SyncTypes, SyncStarts, SyncRemembers
<1>3. CandidatesHaveAttempts'
  BY <1>1 DEF CandidatesHaveAttempts, HasAttempts
<1> QED
  BY <1>1, <1>2, <1>3, RowsStay, KeepSales, FaultsGrow DEF RowsGoOn

\* what a sync works with when its page is settled
LEMMA WorkingWith ==
    ASSUME ITypes, sync.pc # "working",
           NEW c \in Candidate \cup {Nothing}, HasAttempts(c), NEW t \in BOOLEAN,
           NEW s \in {Working, [Working EXCEPT !.candidate = c],
                      [Working EXCEPT !.candidate = c, !.throttled = t],
                      [Working EXCEPT !.promoted = "found", !.info = remote,
                                      !.candidate = c]}
    PROVE  /\ s \in Sync /\ HasAttempts(s.candidate) /\ s.pc = "working"
           /\ s.promoted # "made"
           /\ s.order # Nothing => order # Nothing
           /\ s.order # Nothing <=> s.sale # Nothing
<1>1. /\ Working \in Sync /\ Working.pc = "working" /\ Working.promoted = "no"
      /\ Working.order = Memory /\ Working.sale = sale
      /\ Working.candidate = sync.candidate
      /\ Memory = Nothing <=> order = Nothing
  BY Remembering DEF ITypes, SyncStarts
<1>2. HasAttempts(sync.candidate) /\ remote \in SaleStatus
      /\ (order = Nothing <=> sale = Nothing)
  BY DEF ITypes, CandidatesHaveAttempts, RegistryTypes, RowTypes
<1>3. PICK w \in Sync : w = Working
  BY <1>1
<1> DEFINE Like(x) == /\ x \in Sync /\ x.pc = w.pc
                      /\ x.promoted \in {"no", "found"}
                      /\ x.order = w.order /\ x.sale = w.sale
                      /\ x.candidate \in {c, w.candidate}
<1>4. Like([w EXCEPT !.candidate = c])
  BY <1>1, <1>3 DEF Sync
<1>5. Like([w EXCEPT !.candidate = c, !.throttled = t])
  BY <1>1, <1>3 DEF Sync
<1>6. Like([w EXCEPT !.promoted = "found", !.info = remote, !.candidate = c])
  BY <1>1, <1>2, <1>3 DEF Sync
<1>7. Like(w)
  BY <1>1, <1>3
<1>8. Like(s)
  BY <1>3, <1>4, <1>5, <1>6, <1>7
<1>9. HasAttempts(s.candidate)
  BY <1>1, <1>2, <1>3, <1>8
<1> QED
  BY <1>1, <1>2, <1>3, <1>8, <1>9

LEMMA SyncTyped ==
    ASSUME ITypes, UNCHANGED eventVars,
           \/ SyncReads \/ Rejects \/ Collides \/ Promotes
           \/ \E global \in BOOLEAN : PageFails(global)
    PROVE  ITypes'
<1>1. ASSUME SyncReads PROVE ITypes'
  <2>1. sync.pc # "working" /\ Only(Working) /\ UNCHANGED faults
    BY <1>1 DEF SyncReads
  <2>2. HasAttempts(Nothing)
    BY DEF HasAttempts
  <2> QED
    BY <2>1, <2>2, WorkingWith, OnlySyncs
<1>2. ASSUME Rejects PROVE ITypes'
  <2>1. sync.pc # "working" /\ UNCHANGED faults /\ sync.candidate # Nothing
    BY <1>2 DEF Rejects, Recovers
  <2>2. PICK s : s = [Working EXCEPT !.candidate = Ignored]
    OBVIOUS
  <2>3. Only(s)
    BY <1>2, <2>2 DEF Rejects
  <2>4. Ignored \in Candidate /\ HasAttempts(Ignored)
    BY <2>1, Ignoring
  <2>5. s \in Sync /\ HasAttempts(s.candidate) /\ s.pc = "working"
        /\ s.promoted # "made"
        /\ (s.order # Nothing => order # Nothing)
        /\ (s.order # Nothing <=> s.sale # Nothing)
    BY <2>1, <2>2, <2>4, WorkingWith
  <2> QED
    BY <2>1, <2>3, <2>5, OnlySyncs
<1>3. ASSUME Collides PROVE ITypes'
  <2>1. sync.pc # "working" /\ UNCHANGED faults /\ sync.candidate # Nothing
        /\ sync.candidate.state = "pending"
    BY <1>3 DEF Collides, Recovers
  <2>2. PICK s : s = [Working EXCEPT !.candidate = Deferred(FALSE)]
    OBVIOUS
  <2>3. Only(s)
    BY <1>3, <2>2 DEF Collides
  <2>4. Deferred(FALSE) \in Candidate /\ HasAttempts(Deferred(FALSE))
    BY <2>1, Deferring
  <2>5. s \in Sync /\ HasAttempts(s.candidate) /\ s.pc = "working"
        /\ s.promoted # "made"
        /\ (s.order # Nothing => order # Nothing)
        /\ (s.order # Nothing <=> s.sale # Nothing)
    BY <2>1, <2>2, <2>4, WorkingWith
  <2> QED
    BY <2>1, <2>3, <2>5, OnlySyncs
<1>4. ASSUME NEW global \in BOOLEAN, PageFails(global) PROVE ITypes'
  <2>1. sync.pc # "working" /\ sync.candidate # Nothing
        /\ sync.candidate.state = "pending"
        /\ faults < MaxFaults /\ faults' = faults + 1
    BY <1>4 DEF PageFails, Recovers
  <2>2. PICK s : s = [Working EXCEPT !.candidate = Deferred(global),
                                     !.throttled = global]
    OBVIOUS
  <2>3. Only(s)
    BY <1>4, <2>2 DEF PageFails
  <2>4. Deferred(global) \in Candidate /\ HasAttempts(Deferred(global))
    BY <2>1, Deferring
  <2>5. s \in Sync /\ HasAttempts(s.candidate) /\ s.pc = "working"
        /\ s.promoted # "made"
        /\ (s.order # Nothing => order # Nothing)
        /\ (s.order # Nothing <=> s.sale # Nothing)
    BY <2>1, <2>2, <2>4, WorkingWith
  <2> QED
    BY <2>1, <2>3, <2>5, OnlySyncs
<1>5. ASSUME Promotes, order = Nothing PROVE ITypes'
  <2> DEFINE made == [status |-> Initial(remote), chat |-> node, idle |-> TRUE]
             sold == [status |-> remote, chat |-> node]
             s == [Working EXCEPT !.promoted = "made", !.info = remote,
                     !.order = made, !.sale = sold, !.candidate = Nothing]
  <2>1. Only(s) /\ UNCHANGED faults
    BY <1>5 DEF Promotes
  <2>2. remote \in SaleStatus /\ node \in Nodes
    BY DEF ITypes, RegistryTypes
  <2>3. Initial(remote) \in OrderStatus
    BY <2>2, Starting
  <2>4. made \in Remembered /\ sold \in SaleRow
    BY <2>2, <2>3 DEF Remembered, SaleRow, OrderStatus
  <2>5. Working \in Sync /\ Working.pc = "working"
    BY Remembering
  <2> HIDE DEF made, sold
  <2>6. /\ s \in Sync /\ s.candidate = Nothing /\ s.pc = "working"
        /\ s.promoted = "made" /\ s.order = made /\ s.sale = sold
    BY <2>2, <2>4, <2>5 DEF Sync
  <2>7. HasAttempts(s.candidate)
    BY <2>6 DEF HasAttempts
  <2>8. made # Nothing /\ sold # Nothing
    BY <2>4, RememberedAssumption, NothingAssumption
  <2> HIDE DEF s
  <2> QED
    BY <1>5, <2>1, <2>6, <2>7, <2>8, OnlySyncs
<1>6. ASSUME Promotes, order # Nothing PROVE ITypes'
  <2>1. sync.pc # "working" /\ UNCHANGED faults
    BY <1>6 DEF Promotes
  <2>2. PICK s : s = [Working EXCEPT !.promoted = "found", !.info = remote,
                                     !.candidate = Nothing]
    OBVIOUS
  <2>3. Only(s)
    BY <1>6, <2>2 DEF Promotes
  <2>4. HasAttempts(Nothing)
    BY DEF HasAttempts
  <2>5. s \in Sync /\ HasAttempts(s.candidate) /\ s.pc = "working"
        /\ s.promoted # "made"
        /\ (s.order # Nothing => order # Nothing)
        /\ (s.order # Nothing <=> s.sale # Nothing)
    BY <2>1, <2>2, <2>4, WorkingWith
  <2> QED
    BY <2>1, <2>3, <2>5, OnlySyncs
<1> QED
  BY <1>1, <1>2, <1>3, <1>4, <1>5, <1>6

\* a sync begins, ends or is cut off; a wait is over
LEMMA NoSyncTyped ==
    NoSync \in Sync /\ NoSync.pc = "idle" /\ NoSync.promoted = "no"
                    /\ HasAttempts(NoSync.candidate)
BY DEF NoSync, Sync, SaleStatus, HasAttempts

LEMMA RegistryTyped ==
    ASSUME ITypes, UNCHANGED eventVars,
           \/ \E exact, history \in BOOLEAN : SyncFetches(exact, history)
           \/ \E global \in BOOLEAN : SyncCommits(global)
           \/ SyncAborts \/ BackoffEnds \/ CandidateDue
    PROVE  ITypes'
<1> USE DEF ITypes
<1>1. ASSUME NEW exact \in BOOLEAN, NEW history \in BOOLEAN,
             SyncFetches(exact, history)
      PROVE  ITypes'
  <2>1. UNCHANGED <<order, sale, candidate>> /\ UNCHANGED noticeVars
        /\ UNCHANGED <<funpayVars, backfill, backoff, booted, candidate>>
        /\ UNCHANGED unknown
        /\ (faults' = faults \/ (faults < MaxFaults /\ faults' = faults + 1))
    BY <1>1 DEF SyncFetches, noticeVars
  <2> DEFINE fresh == [state |-> "pending", attempts |-> 0, wait |-> FALSE]
  <2>2. fresh \in Candidate /\ HasAttempts(fresh)
    BY SalesAssumption DEF Candidate, HasAttempts
  <2>3. HasAttempts(Nothing) /\ HasAttempts(candidate)
    BY DEF HasAttempts, CandidatesHaveAttempts
  <2>4. PICK seen \in SaleStatus \cup {"none"}, h \in BOOLEAN :
          sync' = [NoSync EXCEPT !.pc = "fetched", !.seen = seen,
                                 !.candidate = Queued(seen), !.history = h]
    <3>1. (IF Visible(exact, history) THEN remote ELSE "none")
            \in SaleStatus \cup {"none"}
      BY DEF RegistryTypes
    <3>2. (~exact /\ history /\ backfill = "open") \in BOOLEAN
      OBVIOUS
    <3> QED
      BY <1>1, <3>1, <3>2 DEF SyncFetches
  <2>5. PICK c : c = Queued(seen)
    OBVIOUS
  <2>6. c \in Candidate \cup {Nothing} /\ HasAttempts(c)
    BY <2>2, <2>3, <2>5 DEF Queued, RegistryTypes
  <2>7. /\ sync' \in Sync /\ sync'.pc = "fetched" /\ sync'.promoted = "no"
        /\ sync'.candidate = c
    BY <2>4, <2>5, <2>6, NoSyncTyped DEF Sync
  <2>8. SyncTypes' /\ SyncStarts' /\ SyncRemembers'
    BY <2>7 DEF SyncTypes, SyncStarts, SyncRemembers
  <2>9. CandidatesHaveAttempts'
    BY <2>1, <2>3, <2>6, <2>7 DEF CandidatesHaveAttempts, HasAttempts
  <2> QED
    BY <2>1, <2>8, <2>9, RowsStay, KeepSales, FaultsGrow DEF RowsGoOn
<1>2. ASSUME sync' = NoSync PROVE SyncTypes' /\ SyncStarts' /\ SyncRemembers'
  BY <1>2, NoSyncTyped DEF SyncTypes, SyncStarts, SyncRemembers
<1>3. ASSUME NEW global \in BOOLEAN, SyncCommits(global) PROVE ITypes'
  <2>1. UNCHANGED noticeVars /\ UNCHANGED unknown /\ sync' = NoSync
        /\ UNCHANGED funpayVars /\ candidate' = sync.candidate
        /\ backfill' \in {backfill, "done"} /\ booted' = TRUE
        /\ backoff' = (backoff \/ sync.throttled \/ global)
        /\ (faults' = faults \/ (faults < MaxFaults /\ faults' = faults + 1))
    BY <1>3 DEF SyncCommits, noticeVars
  <2>2. RegistryTypes'
    BY <2>1 DEF RegistryTypes, funpayVars, SyncTypes, Sync
  <2>3. CandidatesHaveAttempts'
    BY <2>1, NoSyncTyped DEF CandidatesHaveAttempts, HasAttempts
  <2> QED
    BY <1>2, <1>3, <2>1, <2>2, <2>3, CommitsRows, KeepSales, FaultsGrow
       DEF RowsGoOn
<1>4. ASSUME SyncAborts PROVE ITypes'
  <2>1. UNCHANGED noticeVars /\ UNCHANGED unknown /\ sync' = NoSync
        /\ UNCHANGED <<order, sale, candidate>>
        /\ UNCHANGED <<funpayVars, backfill, backoff, booted, candidate>>
        /\ faults < MaxFaults /\ faults' = faults + 1
    BY <1>4 DEF SyncAborts, noticeVars
  <2>2. CandidatesHaveAttempts'
    BY <2>1, NoSyncTyped DEF CandidatesHaveAttempts, HasAttempts
  <2> QED
    BY <1>2, <2>1, <2>2, RowsStay, KeepSales, FaultsGrow DEF RowsGoOn
<1>5. ASSUME BackoffEnds PROVE ITypes'
  <2>1. UNCHANGED noticeVars /\ UNCHANGED unknown
        /\ UNCHANGED <<order, sale, sync, candidate, faults>>
    BY <1>5 DEF BackoffEnds, noticeVars
  <2>2. RegistryTypes'
    BY <1>5 DEF BackoffEnds, RegistryTypes, funpayVars
  <2> QED
    BY <2>1, <2>2, RowsStay, KeepSales, FaultsGrow, SyncKeeps DEF RowsGoOn
<1>6. ASSUME CandidateDue PROVE ITypes'
  <2>1. UNCHANGED noticeVars /\ UNCHANGED unknown
        /\ UNCHANGED <<order, sale, sync, faults>>
    BY <1>6 DEF CandidateDue, noticeVars
  <2>2. PICK c \in Candidate : c = candidate
    BY <1>6 DEF CandidateDue, RegistryTypes
  <2>3. candidate' = [c EXCEPT !.wait = FALSE]
    BY <1>6, <2>2 DEF CandidateDue
  <2>4. candidate' \in Candidate /\ candidate'.state = c.state
        /\ candidate'.attempts = c.attempts
    BY <2>2, <2>3 DEF Candidate
  <2>5. RegistryTypes'
    BY <1>6, <2>4 DEF CandidateDue, RegistryTypes, funpayVars
  <2>6. CandidatesHaveAttempts'
    BY <1>6, <2>1, <2>2, <2>4
       DEF CandidateDue, CandidatesHaveAttempts, HasAttempts
  <2> QED
    BY <2>1, <2>5, <2>6, RowsStay, KeepSales, FaultsGrow, SyncKeeps DEF RowsGoOn
<1> QED
  BY <1>1, <1>3, <1>4, <1>5, <1>6

-----------------------------------------------------------------------------
(* The confirmation *)

\* who sends has the lock of an Order that is completed and unsent
Sending ==
    \A c \in Calls : call[c] = "sending" =>
      order # Nothing /\ order.status = "completed" /\ ~order.sent
OneSender ==
    \A c, d \in Calls : call[c] = "sending" /\ call[d] = "sending" => c = d
\* a confirmation that reached the chat is recorded or was lost
ToldCount ==
    \/ told <= unknown
    \/ order # Nothing /\ order.sent /\ told <= 1 + unknown
ISends == Sending /\ OneSender /\ ToldCount
IInv == ITypes /\ ISends

LEMMA Undisturbs ==
    ASSUME ISends, RowTypes, UNCHANGED noticeVars, Undisturbed
    PROVE  ISends'
<1>1. UNCHANGED <<call, told, unknown>>
  BY DEF noticeVars
<1>2. CASE order' = order
  BY <1>1, <1>2 DEF ISends, Sending, OneSender, ToldCount
<1>3. CASE order = Nothing
  BY <1>1, <1>3 DEF ISends, Sending, OneSender, ToldCount
<1>4. CASE OrderFree /\ order' # Nothing /\ order'.sent = order.sent
  BY <1>1, <1>3, <1>4 DEF ISends, Sending, OneSender, ToldCount, OrderFree
<1> QED
  BY <1>2, <1>3, <1>4 DEF Undisturbed

\* nobody sends a new message where nobody holds the lock
LEMMA FreeSends ==
    ASSUME ISends, OrderFree, order # Nothing, order' # Nothing,
           order'.sent = order.sent, UNCHANGED <<told, unknown>>,
           \A c \in Calls : call'[c] = "sending" => call[c] = "sending"
    PROVE  ISends'
BY DEF ISends, Sending, OneSender, ToldCount, OrderFree

LEMMA NotifyRows ==
    ASSUME ITypes, order # Nothing, order' \in OrderRow,
           order'.status = order.status, UNCHANGED <<sale, sync>>
    PROVE  RowTypes' /\ Forward /\ SyncTypes' /\ SyncStarts' /\ SyncRemembers'
<1>1. RowTypes' /\ Forward
  BY NothingAssumption DEF ITypes, RowTypes, Forward
<1> QED
  BY <1>1, KeepSales, SyncKeeps DEF ITypes

\* whatever a call does with the Order, the rest of the world stands still
LEMMA NotifyTyped ==
    ASSUME ITypes, order # Nothing, order' \in OrderRow,
           order'.status = order.status, UNCHANGED sale,
           UNCHANGED registryVars, UNCHANGED eventVars,
           CallTypes', FaultTypes', LostAreFaults'
    PROVE  ITypes'
<1>1. UNCHANGED <<sync, candidate>>
      /\ UNCHANGED <<funpayVars, backfill, backoff, booted, candidate>>
  BY DEF registryVars, funpayVars
<1> QED
  BY <1>1, NotifyRows, KeepSales DEF ITypes

LEMMA NotificationsTyped ==
    ASSUME IInv, NotificationsNext, UNCHANGED registryVars, UNCHANGED eventVars
    PROVE  IInv'
<1> USE DEF IInv
<1>1. /\ call \in [Calls -> {"idle", "sending", "failed", "failed_globally"}]
      /\ told \in 0..2 /\ unknown \in 0..MaxFaults /\ faults \in 0..MaxFaults
      /\ unknown <= faults
      /\ order # Nothing => order \in OrderRow
  BY DEF ITypes, CallTypes, FaultTypes, LostAreFaults, RowTypes
<1>2. ASSUME UNCHANGED <<told, unknown, faults>>,
             call' \in [Calls -> {"idle", "sending", "failed", "failed_globally"}]
      PROVE  CallTypes' /\ FaultTypes' /\ LostAreFaults'
  BY <1>1, <1>2 DEF CallTypes, FaultTypes, LostAreFaults
<1>3. ASSUME NEW c \in Calls, NotifyIntends(c) PROVE IInv'
  <2>1. /\ order # Nothing /\ OrderFree /\ UNCHANGED <<sale, faults, call, told, unknown>>
        /\ order' \in MarkedDue(order, sale, order.conf = "idle")
    BY <1>3 DEF NotifyIntends, Open, noticeVars
  <2>2. order' \in OrderRow /\ order'.status = order.status /\ order'.sent = order.sent
    BY <1>1, <2>1, Marking
  <2>3. order' # Nothing
    BY <2>2, NothingAssumption
  <2> QED
    BY <1>1, <1>2, <2>1, <2>2, <2>3, NotifyTyped, FreeSends
<1>4. ASSUME NEW c \in Calls, NotifySettles(c) PROVE IInv'
  <2>1. /\ order # Nothing /\ OrderFree /\ UNCHANGED <<sale, faults, call, told, unknown>>
        /\ order' = Settled(order)
    BY <1>4 DEF NotifySettles, Open, noticeVars
  <2>2. order' \in OrderRow /\ order'.status = order.status /\ order'.sent = order.sent
    BY <1>1, <2>1, Settling
  <2>3. order' # Nothing
    BY <2>2, NothingAssumption
  <2> QED
    BY <1>1, <1>2, <2>1, <2>2, <2>3, NotifyTyped, FreeSends
<1>5. ASSUME NEW c \in Calls, NotifyLocks(c) PROVE IInv'
  <2>1. /\ order # Nothing /\ OrderFree /\ order.status = "completed" /\ ~order.sent
        /\ UNCHANGED <<sale, faults, order, told, unknown>>
        /\ call' = [call EXCEPT ![c] = "sending"]
    BY <1>5 DEF NotifyLocks, Open, Due, Unsent
  <2>2. call' \in [Calls -> {"idle", "sending", "failed", "failed_globally"}]
    BY <1>1, <2>1
  <2>3. ISends'
    BY <1>1, <2>1 DEF ISends, Sending, OneSender, ToldCount, OrderFree
  <2> QED
    BY <1>1, <1>2, <2>1, <2>2, <2>3, NotifyTyped
<1>6. ASSUME NEW c \in Calls, NotifySends(c) PROVE IInv'
  <2>1. /\ call[c] = "sending" /\ Reaches /\ UNCHANGED <<sale, unknown, faults>>
        /\ call' = [call EXCEPT ![c] = "idle"]
        /\ order' = [Settled(order) EXCEPT !.sent = TRUE]
    BY <1>6 DEF NotifySends
  <2>2. order # Nothing /\ ~order.sent
    BY <2>1 DEF ISends, Sending
  <2>3. PICK o \in OrderRow : o = Settled(order) /\ o.status = order.status
    BY <1>1, <2>2, Settling
  <2>4. order' = [o EXCEPT !.sent = TRUE]
    BY <2>1, <2>3
  <2>5. order' \in OrderRow /\ order'.status = order.status /\ order'.sent
    BY <2>3, <2>4 DEF OrderRow
  <2>6. told' \in 0..2 /\ told' <= told + 1
    BY <1>1, <2>1 DEF Reaches
  <2>7. CallTypes' /\ FaultTypes' /\ LostAreFaults'
    BY <1>1, <2>1, <2>6 DEF CallTypes, FaultTypes, LostAreFaults
  <2>8. told <= unknown
    BY <2>2 DEF ISends, ToldCount
  <2>9. order' # Nothing /\ told' <= 1 + unknown'
    <3>1. order' # Nothing
      BY <2>5, NothingAssumption
    <3>2. told' <= 1 + unknown'
      BY <1>1, <2>1, <2>6, <2>8, SalesAssumption
    <3> QED
      BY <3>1, <3>2
  <2>10. \A d \in Calls : call'[d] # "sending"
    BY <1>1, <2>1 DEF ISends, OneSender
  <2>11. ISends'
    BY <2>5, <2>9, <2>10 DEF ISends, Sending, OneSender, ToldCount
  <2> QED
    BY <2>1, <2>2, <2>5, <2>7, <2>11, NotifyTyped
<1>7. ASSUME NEW c \in Calls, NEW reached \in BOOLEAN,
             NEW outcome \in {"failed", "failed_globally", "idle"},
             NotifyFails(c, reached, outcome)
      PROVE  IInv'
  <2>1. /\ call[c] = "sending" /\ UNCHANGED <<order, sale>>
        /\ faults < MaxFaults /\ faults' = faults + 1
        /\ call' = [call EXCEPT ![c] = outcome]
        /\ \/ Reaches /\ unknown' = unknown + 1
           \/ UNCHANGED <<told, unknown>>
    BY <1>7 DEF NotifyFails
  <2>2. order # Nothing /\ ~order.sent
    BY <2>1 DEF ISends, Sending
  <2>3. told <= unknown
    BY <2>2 DEF ISends, ToldCount
  <2>4. /\ told' \in 0..2 /\ told' <= unknown'
        /\ unknown' \in 0..MaxFaults /\ unknown' <= faults'
        /\ faults' \in 0..MaxFaults
    BY <1>1, <2>1, <2>3, SalesAssumption DEF Reaches
  <2>5. CallTypes' /\ FaultTypes' /\ LostAreFaults'
    BY <1>1, <2>1, <2>4 DEF CallTypes, FaultTypes, LostAreFaults
  <2>6. \A d \in Calls : call'[d] = "sending" => call[d] = "sending"
    BY <1>1, <2>1
  <2>7. ISends'
    BY <2>1, <2>4, <2>6 DEF ISends, Sending, OneSender, ToldCount
  <2> QED
    BY <1>1, <2>1, <2>2, <2>5, <2>7, NotifyTyped
<1>8. ASSUME NEW c \in Calls, NotifyRecords(c) PROVE IInv'
  <2>1. /\ OrderFree /\ UNCHANGED <<sale, told, unknown, faults>>
        /\ call' = [call EXCEPT ![c] = "idle"]
        /\ \/ order' = order
           \/ order # Nothing /\ order' = Settled(order)
           \/ order # Nothing /\ \E global \in BOOLEAN : order' = Failed(order, global)
    BY <1>8 DEF NotifyRecords, Open
  <2>2. call' \in [Calls -> {"idle", "sending", "failed", "failed_globally"}]
        /\ \A d \in Calls : call'[d] = "sending" => call[d] = "sending"
    BY <1>1, <2>1
  <2>3. CASE order = Nothing
    <3>1. UNCHANGED <<order, sale, sync, candidate>>
          /\ UNCHANGED <<funpayVars, backfill, backoff, booted, candidate>>
      BY <2>1, <2>3 DEF registryVars, funpayVars
    <3>2. ITypes'
      BY <1>2, <2>1, <2>2, <3>1, RowsStay, KeepSales, SyncKeeps DEF ITypes, RowsGoOn
    <3>3. ISends'
      BY <2>1, <2>2, <2>3, <3>1 DEF ISends, Sending, OneSender, ToldCount
    <3> QED
      BY <3>2, <3>3
  <2>4. CASE order # Nothing
    <3>1. order' \in OrderRow /\ order'.status = order.status /\ order'.sent = order.sent
      BY <1>1, <2>1, <2>4, Settling, Failing
    <3>2. order' # Nothing
      BY <3>1, NothingAssumption
    <3> QED
      BY <1>2, <2>1, <2>2, <2>4, <3>1, <3>2, NotifyTyped, FreeSends
  <2> QED
    BY <2>3, <2>4
<1>9. ASSUME NoticeDue PROVE IInv'
  <2>1. /\ order # Nothing /\ order' = [order EXCEPT !.wait = FALSE]
        /\ UNCHANGED <<sale, faults, call, told, unknown>>
    BY <1>9 DEF NoticeDue, noticeVars
  <2>2. order' \in OrderRow /\ order'.status = order.status /\ order'.sent = order.sent
    BY <1>1, <2>1 DEF OrderRow
  <2>3. order' # Nothing
    BY <2>2, NothingAssumption
  <2>4. ISends'
    BY <2>1, <2>2, <2>3 DEF ISends, Sending, OneSender, ToldCount
  <2> QED
    BY <1>1, <1>2, <2>1, <2>2, <2>4, NotifyTyped
<1> QED
  BY <1>3, <1>4, <1>5, <1>6, <1>7, <1>8, <1>9 DEF NotificationsNext, NotifyStep

-----------------------------------------------------------------------------
(* Every step *)

\* the steps that have nothing to do with the confirmation
QuietStep ==
    \/ RegistryStep /\ UNCHANGED eventVars
    \/ \E status \in {"completed", "refunded"} : Becomes(status)
    \/ Buries \/ \E n \in Nodes : Rotates(n)
    \/ \E k \in Slow, again \in BOOLEAN : Begins(k, again)
    \/ \E again \in BOOLEAN :
         \/ \E k \in {"closed", "refunded"} : SaleIgnored(k, again)
         \/ SaleEnds("closed", "completed", again)
         \/ SaleEnds("refunded", "refunded", again)
    \/ CallbackEnds \/ RefundSweeps

\* what they do with the Order
LEMMA QuietSteps ==
    ASSUME ITypes, QuietStep
    PROVE  RowsGoOn /\ UNCHANGED noticeVars
<1>1. ASSUME RegistryStep PROVE RowsGoOn /\ UNCHANGED noticeVars
  <2>1. ASSUME NEW global \in BOOLEAN, SyncCommits(global)
        PROVE  RowsGoOn /\ UNCHANGED noticeVars
    BY <2>1, CommitsRows DEF SyncCommits
  <2>2. ASSUME \/ SyncReads \/ Rejects \/ Collides \/ Promotes
               \/ SyncAborts \/ BackoffEnds \/ CandidateDue
               \/ \E exact, history \in BOOLEAN : SyncFetches(exact, history)
               \/ \E global \in BOOLEAN : PageFails(global)
        PROVE  UNCHANGED <<order, sale>> /\ UNCHANGED noticeVars
    BY <2>2 DEF SyncReads, Rejects, Collides, Promotes, Only, SyncAborts,
                BackoffEnds, CandidateDue, SyncFetches, PageFails
  <2> QED
    BY <1>1, <2>1, <2>2, RowsStay DEF RegistryStep, SyncGoesOn, ITypes
<1>2. ASSUME \/ \E status \in {"completed", "refunded"} : Becomes(status)
             \/ Buries \/ \E n \in Nodes : Rotates(n)
             \/ \E k \in Slow, again \in BOOLEAN : Begins(k, again)
             \/ \E k \in {"closed", "refunded"}, again \in BOOLEAN :
                  SaleIgnored(k, again)
             \/ NewSaleRefused
      PROVE  RowsGoOn /\ UNCHANGED noticeVars
  <2>1. UNCHANGED <<order, sale>> /\ UNCHANGED noticeVars
    BY <1>2 DEF Becomes, Buries, Rotates, Begins, SaleIgnored, OnEvent,
                NewSaleRefused, Ends
  <2> QED
    BY <2>1, RowsStay DEF ITypes
<1>3. ASSUME NEW k, NEW status \in SaleStatus, NEW again, SaleEnds(k, status, again)
      PROVE  RowsGoOn /\ UNCHANGED noticeVars
  BY <1>3, SaleEndsRows DEF SaleEnds, OnEvent
<1>4. ASSUME NewSale \/ Rebinds \/ RefundSweeps
      PROVE  RowsGoOn /\ UNCHANGED noticeVars
  BY <1>4, NewSaleRows, RebindsRows, SweepsRows
     DEF NewSale, Rebinds, RefundSweeps, Ends
<1> QED
  BY <1>1, <1>2, <1>3, <1>4 DEF QuietStep, CallbackEnds, SaleStatus

LEMMA QuietTyped ==
    ASSUME ITypes, QuietStep
    PROVE  ITypes'
<1>1. ASSUME RegistryStep, UNCHANGED eventVars PROVE ITypes'
  BY <1>1, SyncTyped, RegistryTyped DEF RegistryStep, SyncGoesOn
<1>2. ASSUME \/ \E status \in {"completed", "refunded"} : Becomes(status)
             \/ Buries \/ \E n \in Nodes : Rotates(n)
             \/ \E k \in Slow, again \in BOOLEAN : Begins(k, again)
             \/ \E k \in {"closed", "refunded"}, again \in BOOLEAN :
                  SaleIgnored(k, again)
      PROVE  ITypes'
  BY <1>2, FunPayTyped DEF SaleStatus, Kinds
<1>3. ASSUME NEW again \in BOOLEAN,
             \/ SaleEnds("closed", "completed", again)
             \/ SaleEnds("refunded", "refunded", again)
      PROVE  ITypes'
  BY <1>3, CallbacksTyped
<1>4. ASSUME CallbackEnds \/ RefundSweeps PROVE ITypes'
  BY <1>4, CallbacksTyped DEF CallbackEnds
<1> QED
  BY <1>1, <1>2, <1>3, <1>4 DEF QuietStep

LEMMA RestartKeeps ==
    ASSUME IInv, Restart
    PROVE  IInv' /\ UNCHANGED <<order, sale, told>>
<1> USE DEF IInv
<1>1. /\ faults < MaxFaults /\ faults' = faults + 1
      /\ booted' = FALSE /\ sync' = NoSync
      /\ call' = [c \in Calls |-> "idle"] /\ handler' = [k \in Slow |-> Nothing]
      /\ UNCHANGED <<order, sale, told, unknown, backfill, backoff, candidate, inbox>>
      /\ UNCHANGED funpayVars
  BY DEF Restart
<1>2. RowTypes' /\ FaultTypes' /\ LostAreFaults'
  BY <1>1, RowsStay, FaultsGrow DEF RowsGoOn, ITypes
<1>3. CallTypes' /\ RegistryTypes' /\ EventTypes'
  BY <1>1 DEF ITypes, CallTypes, RegistryTypes, funpayVars, EventTypes
<1>4. SyncTypes' /\ SyncStarts' /\ SyncRemembers' /\ CandidatesHaveAttempts'
  BY <1>1, NoSyncTyped
     DEF ITypes, SyncTypes, SyncStarts, SyncRemembers, CandidatesHaveAttempts,
         HasAttempts
<1>5. ISends'
  BY <1>1 DEF ISends, Sending, OneSender, ToldCount
<1> QED
  BY <1>1, <1>2, <1>3, <1>4, <1>5 DEF ITypes

\* the steps of Next: those of the confirmation, those that send nothing, and
\* a restart
LEMMA Steps ==
    ASSUME Next
    PROVE  \/ NotificationsNext /\ UNCHANGED registryVars /\ UNCHANGED eventVars
           \/ QuietStep
           \/ Restart
BY DEF Next, Slow, QuietStep

LEMMA SalesInit == Init => IInv
<1> SUFFICES ASSUME Init PROVE IInv
  OBVIOUS
<1>1. RowTypes /\ CallTypes /\ FaultTypes /\ LostAreFaults
  BY SalesAssumption DEF Init, RowTypes, CallTypes, FaultTypes, LostAreFaults
<1>2. RegistryTypes
  BY SalesAssumption DEF Init, RegistryTypes, SaleStatus
<1>3. SyncTypes /\ SyncStarts /\ SyncRemembers /\ CandidatesHaveAttempts
  BY NoSyncTyped
     DEF Init, SyncTypes, SyncStarts, SyncRemembers, CandidatesHaveAttempts,
         HasAttempts
<1>4. EventTypes
  BY DEF Init, EventTypes, Kinds
<1>5. ISends
  BY DEF Init, ISends, Sending, OneSender, ToldCount
<1> QED
  BY <1>1, <1>2, <1>3, <1>4, <1>5 DEF IInv, ITypes

LEMMA SalesStep == IInv /\ [Next]_vars => IInv'
<1> SUFFICES ASSUME IInv, [Next]_vars PROVE IInv'
  OBVIOUS
<1>1. CASE UNCHANGED vars
  <2>1. UNCHANGED <<order, sale, faults, sync, candidate>> /\ UNCHANGED noticeVars
        /\ UNCHANGED <<funpayVars, backfill, backoff, booted, candidate>>
        /\ UNCHANGED unknown /\ UNCHANGED eventVars
    BY <1>1 DEF vars, registryVars, funpayVars, noticeVars, eventVars
  <2>2. ITypes'
    BY <2>1, RowsStay, KeepSales, SyncKeeps, FaultsGrow DEF IInv, ITypes, RowsGoOn
  <2>3. ISends'
    BY <2>1, Undisturbs DEF Undisturbed, IInv, ITypes
  <2> QED
    BY <2>2, <2>3 DEF IInv
<1>2. CASE Next
  <2>1. ASSUME NotificationsNext, UNCHANGED registryVars, UNCHANGED eventVars
        PROVE  IInv'
    BY <2>1, NotificationsTyped
  <2>2. ASSUME ITypes', RowsGoOn, UNCHANGED noticeVars PROVE IInv'
    BY <2>2, Undisturbs DEF IInv, ITypes, RowsGoOn
  <2> QED
    BY <1>2, <2>1, <2>2, Steps, QuietSteps, QuietTyped, RestartKeeps DEF IInv
<1> QED
  BY <1>1, <1>2

LEMMA SalesHeld == Spec => []IInv
BY SalesInit, SalesStep, PTL DEF Spec

\* Every row, call, candidate and sync keeps its shape through all callbacks,
\* syncs, sends and restarts, attempts never leave their budgets, and an Order and
\* its sale are there together or not at all.
THEOREM SalesTypes == Spec => []SalesTypeOK
<1>1. IInv => SalesTypeOK
  BY DEF IInv, ITypes, RowTypes, CallTypes, FaultTypes, RegistryTypes, SyncTypes,
         EventTypes, SalesTypeOK
<1> QED
  BY <1>1, SalesHeld, PTL

\* notify_confirmed sends the confirmation once, however many callbacks, sweeps and
\* processes call it: more messages reach the chat only for answers that were lost.
THEOREM ConfirmedOnce == Spec => []ToldOnce
<1>1. IInv => ToldOnce
  BY SalesAssumption DEF IInv, ITypes, CallTypes, ISends, ToldCount, ToldOnce
<1> QED
  BY <1>1, SalesHeld, PTL

\* The confirmation reaches the chat only while the order is completed: the lock
\* that notify_confirmed holds across its send keeps a refund out.
THEOREM ConfirmedWhileCompleted == Spec => ToldWhileCompleted
<1>1. IInv /\ [Next]_vars => [told' # told => order.status = "completed"]_vars
  <2> SUFFICES ASSUME IInv, Next, told' # told
               PROVE  order.status = "completed"
    OBVIOUS
  <2>1. NotificationsNext
    <3>1. UNCHANGED noticeVars => UNCHANGED told
      BY DEF noticeVars
    <3> QED
      BY <3>1, Steps, QuietSteps, RestartKeeps DEF IInv
  <2>2. \E c \in Calls : call[c] = "sending"
    BY <2>1 DEF NotificationsNext, NotifyStep, NotifyIntends, NotifySettles,
                NotifyLocks, NotifySends, NotifyFails, NotifyRecords, NoticeDue,
                noticeVars
  <2> QED
    BY <2>2 DEF IInv, ISends, Sending
<1> QED
  BY <1>1, SalesHeld, PTL DEF Spec, ToldWhileCompleted

\* Nothing that a callback, a sweep, a notification or a restart does takes a refund
\* back, whatever the order of events; a sync may, that remembers a pending row.
THEOREM RefundsStick == Spec => RefundSticks
<1> DEFINE Sticks == order # Nothing /\ order'.status # order.status
                       /\ order.status \in Refunding
                     => \/ order'.status \in Refunding
                        \/ sync.order # Nothing /\ sync.order.status = "pending"
<1>1. IInv /\ [Next]_vars => [Sticks]_vars
  <2> SUFFICES ASSUME IInv, Next PROVE Sticks
    OBVIOUS
  <2>1. ASSUME NotificationsNext, order # Nothing PROVE order'.status = order.status
    <3>1. order \in OrderRow
      BY <2>1 DEF IInv, ITypes, RowTypes
    <3>2. ASSUME NEW c \in Calls, NotifyIntends(c) PROVE order'.status = order.status
      BY <3>1, <3>2, Marking DEF NotifyIntends
    <3>3. ASSUME NEW c \in Calls, NotifySends(c) PROVE order'.status = order.status
      <4>1. PICK o \in OrderRow : o = Settled(order) /\ o.status = order.status
        BY <3>1, Settling
      <4>2. order' = [o EXCEPT !.sent = TRUE]
        BY <3>3, <4>1 DEF NotifySends
      <4> QED
        BY <4>1, <4>2 DEF OrderRow
    <3>4. ASSUME NoticeDue PROVE order'.status = order.status
      <4>1. order' = [order EXCEPT !.wait = FALSE]
        BY <3>4 DEF NoticeDue
      <4> QED
        BY <3>1, <4>1 DEF OrderRow
    <3>5. ASSUME NEW c \in Calls, NotifyRecords(c) PROVE order'.status = order.status
      <4>1. \/ order' = order \/ order' = Settled(order)
            \/ \E global \in BOOLEAN : order' = Failed(order, global)
        BY <3>5 DEF NotifyRecords
      <4> QED
        BY <3>1, <4>1, Settling, Failing
    <3>6. ASSUME NEW c \in Calls, NotifySettles(c) \/ NotifyLocks(c)
          PROVE  order'.status = order.status
      BY <3>1, <3>6, Settling DEF NotifySettles, NotifyLocks
    <3>7. ASSUME NEW c \in Calls, NEW reached, NEW outcome,
                 NotifyFails(c, reached, outcome)
          PROVE  order'.status = order.status
      BY <3>7 DEF NotifyFails
    <3> QED
      BY <2>1, <3>2, <3>3, <3>4, <3>5, <3>6, <3>7 DEF NotificationsNext, NotifyStep
  <2>2. RowsGoOn => Sticks
    BY DEF RowsGoOn, Forward
  <2> QED
    BY <2>1, <2>2, Steps, QuietSteps, RestartKeeps DEF IInv
<1> QED
  BY <1>1, SalesHeld, PTL DEF Spec, RefundSticks
=============================================================================
