-------------------------- MODULE Storefront_proofs --------------------------
(***************************************************************************)
(* The shop, for any number of requests, changes and mishaps: types; every *)
(* offer on sale is a lot's own, is not a held lot's, carries the marker   *)
(* while the listener runs and shows the price its row has; a capacity     *)
(* change that is remembered has a loop to serve it; and when nothing is   *)
(* left to do the automatic lot is on sale exactly if it has capacity.     *)
(***************************************************************************)
EXTENDS Storefront, SequenceTheorems, FiniteSetTheorems, WellFoundedInduction,
        TLAPS

-----------------------------------------------------------------------------
(* The invariant *)

\* a job is between its decision and its commit
Working == IF holder = Nothing THEN FALSE ELSE holder.at # "load"
On(lot) == IF Working THEN holder.work.lot = lot ELSE FALSE
\* a save has been accepted and is not in the row yet
Pending(lot) ==
    IF On(lot) THEN holder.at = "commit" /\ holder.work.call = "save" ELSE FALSE
\* an offer has been put on sale and the row does not say so yet
Selling(lot, id) ==
    IF On(lot) THEN /\ holder.at = "commit"
                    /\ holder.work.on
                    /\ holder.work.new.offer = id
    ELSE FALSE

\* the reasons only a published lot has
OfferReasons == {"none", "auto_no_account", "auto_no_config",
                 "auto_template_error"}
RowFits(lot, row) ==
    /\ row.status = "absent" => row = NoRow
    /\ ~Bound(row) => ~row.marked /\ row.status # "active"
    /\ ~Bound(row) /\ row.status # "absent" => row.reason \notin OfferReasons
    /\ lot = AutoLot => row.status # "deleted"
IRows == \A l \in Lots : RowFits(l, rows[l])

\* a bound offer is the lot's own and carries the marker its row records
IBound ==
    \A l \in Lots :
        Bound(rows[l]) => /\ rows[l].offer \in DOMAIN offers
                          /\ offers[rows[l].offer].lot = l
                          /\ rows[l].marked => offers[rows[l].offer].marked

\* A request names a row that exists; one that has read an unbound row finds no
\* legacy offer there, since only a save binds a row and a save marks it.
Legacy(row) == Bound(row) /\ ~row.marked
ReqFits(q) ==
    /\ q.at \notin {"idle", "done"} => q.lot \in Lots /\ rows[q.lot].status # "absent"
    /\ q.at = "read" =>
         /\ q.kind \in {"on", "off", "delete"}
         /\ q.seen \in Row
         /\ q.seen.status # "absent"
         /\ Legacy(rows[q.lot]) => Bound(q.seen)
    /\ q.kind = "create" => q.lot = ManualLot /\ ~Legacy(rows[ManualLot])
    /\ q.at = "failed" => q.kind = "create"
    /\ q.at = "delete" \/ q.kind = "delete" => q.lot = ManualLot
IReqs == \A i \in Slots : ReqFits(reqs[i])

\* what a job may still have to do
TodoFits(step, job) ==
    /\ job.by = "reconf" => step.stage = "marker"
    /\ IF job.by = "request"
       THEN /\ step.stage \in Requests
            /\ rows[step.lot].status # "absent"
            /\ step.stage = "delete" => step.lot = ManualLot
       ELSE step.stage \in Stages
IJob ==
    holder # Nothing =>
        /\ holder.at = "load" <=> holder.work = Nothing
        /\ holder.by # "reconf" => gateway
        /\ \A k \in DOMAIN holder.todo : TodoFits(holder.todo[k], holder)
        /\ holder.by = "request" =>
             holder.slot \in Slots /\ reqs[holder.slot].at = "runs"

\* A work, by itself: only the operator puts a held or an unbound lot on sale,
\* what is paused unpublished gets no reason of a published lot, and only a
\* save changes the wording of a bound lot or binds one.
WorkFits(w, operator) ==
    /\ w.new.status # "absent" /\ (w.lot = AutoLot => w.new.status # "deleted")
    /\ w.new.status = "active" <=> w.on
    /\ w.on /\ ~operator => /\ Bound(w.old)
                            /\ ~Held(w.old)
                            /\ w.old.status # "deleted"
    /\ w.call # "save" => w.new.offer = w.old.offer /\ w.new.marked = w.old.marked
    /\ w.call = "none" => ~Bound(w.old) /\ ~w.on
    /\ w.call \in {"toggle", "delete"} => Bound(w.old) /\ w.new.text = w.old.text
    /\ w.call = "toggle" /\ w.on => w.old.marked
    /\ w.call = "delete" => ~w.on
    /\ ~Bound(w.old) /\ ~w.on => w.new.reason \notin OfferReasons
    /\ w.then = "bind" => w.call = "none"
    /\ w.then = "activate" => w.call = "save"
    /\ w.then # "end" => /\ ~w.on
                         /\ w.new.status = "paused"
                         /\ w.new.reason = "auto_publish_pending"
    /\ w.then # "end" => w.lot = AutoLot /\ ~operator

\* Routes write over the status of the row in hand, never over its offer, and
\* a legacy row they do not touch at all.
Matches(w, row) ==
    /\ row.offer = w.old.offer /\ row.text = w.old.text
    /\ row.marked = w.old.marked
    /\ w.lot \notin crossed \/ Legacy(w.old) \/ row.status = "absent" => row = w.old
    /\ row.status = "absent" => w.lot = AutoLot

\* before the call the row in memory has the old offer; after it, what FunPay has
Unsent(w) ==
    w.call # "none" /\ w.new.offer = w.old.offer /\ w.new.marked = w.old.marked
Sent(w) ==
    /\ w.call = "save" =>
         /\ Bound(w.new) /\ w.new.marked
         /\ w.new.offer \in DOMAIN offers
         /\ offers[w.new.offer] = Form(w.lot, w.new, w.on)
         /\ Bound(w.old) => w.new.offer = w.old.offer
    /\ w.call \in {"toggle", "delete"} => offers[w.new.offer].on = w.on

IWork ==
    Working =>
        /\ holder.todo # << >> /\ Head(holder.todo).lot = holder.work.lot
        /\ WorkFits(holder.work, holder.by = "request")
        /\ Matches(holder.work, rows[holder.work.lot])
        /\ holder.at = "call" => Unsent(holder.work)
        /\ holder.at = "commit" => Sent(holder.work)

Lost == unrecorded \cup crossed
\* an offer on sale is its lot's, and the lot is active or about to be
IOn ==
    \A id \in DOMAIN offers :
        LET l == offers[id].lot
        IN  offers[id].on /\ l \notin Lost =>
                \/ rows[l].offer = id /\ rows[l].status = "active"
                \/ Selling(l, id)

IPrice ==
    \A l \in Lots :
        Bound(rows[l]) /\ l \notin unrecorded /\ ~Pending(l) =>
            offers[rows[l].offer].text = rows[l].text

\* An offer on sale without the marker is one of an older release, not heard by
\* a listener, and whoever connects still has to come to it.
Waits(lot) ==
    holder # Nothing => \E k \in DOMAIN holder.todo : holder.todo[k].lot = lot
IMark ==
    \A id \in DOMAIN offers :
        LET l == offers[id].lot
        IN  offers[id].on /\ ~offers[id].marked =>
                /\ ~gateway
                /\ rows[l].offer = id /\ rows[l].status = "active"
                /\ ~rows[l].marked
                /\ Waits(l)

\* an offer is a lot's, or is being saved for it, or cost a mishap
Has(lot) == IF Bound(rows[lot]) \/ Pending(lot) THEN 1 ELSE 0
ICount == Len(offers) <= Has(AutoLot) + Has(ManualLot) + mishaps

ISound == /\ IRows /\ IBound /\ IReqs /\ IJob /\ IWork
          /\ IOn /\ IPrice /\ IMark /\ ICount
IInv == StoreTypeOK /\ RequestHasLoop /\ ISound

-----------------------------------------------------------------------------
(* Lemmas about the operators *)

\* a set of numbers that is not empty has its Min among its elements
LEMMA MinNat ==
    ASSUME NEW S \in SUBSET Nat, S # {}
    PROVE  Min(S) \in S /\ \A y \in S : Min(S) <= y
<1> DEFINE T == {1..x : x \in S}
<1>1. T \subseteq FiniteSubsetsOf(Nat)
  <2>1. ASSUME NEW x \in S PROVE 1..x \in FiniteSubsetsOf(Nat)
    <3>1. IsFiniteSet(1..x)
      BY FS_Interval
    <3>2. 1..x \subseteq Nat
      OBVIOUS
    <3> QED
      BY <3>1, <3>2 DEF FiniteSubsetsOf
  <2> QED
    BY <2>1
<1>2. T # {}
  OBVIOUS
<1>3. PICK t \in T : \A u \in T : ~ (<<u, t>> \in StrictSubsetOrdering(Nat))
  <2> HIDE DEF T
  <2> QED
  BY <1>1, <1>2, FS_StrictSubsetOrderingWellFounded, WFMin
<1>4. PICK x \in S : t = 1..x
  OBVIOUS
<1>5. ASSUME NEW y \in S, y < x PROVE FALSE
  <2> DEFINE p == <<1..y, 1..x>>
  <2>1. 1..y \in T
    OBVIOUS
  <2>2. p[1] \subseteq p[2] /\ p[1] # p[2]
    <3>1. 1..y \subseteq 1..x /\ x \in 1..x /\ x \notin 1..y
      BY <1>5
    <3> QED
      BY <3>1
  <2>3. p \in (SUBSET Nat) \X (SUBSET Nat)
    OBVIOUS
  <2>4. p \in StrictSubsetOrdering(Nat)
    <3> HIDE DEF p
    <3> QED
      BY <2>2, <2>3 DEF StrictSubsetOrdering
  <2> QED
    BY <2>1, <2>4, <1>3, <1>4
<1>6. \A y \in S : x =< y
  BY <1>5
<1> QED
  BY <1>6 DEF Min

\* the values a row is given
LEMMA RowMade ==
    ASSUME NEW row \in Row
    PROVE  /\ \A reason \in AutoReasons \cup HandReasons :
                /\ Paused(row, reason) \in Row
                /\ Paused(row, reason).status = "paused"
                /\ Paused(row, reason).reason = reason
                /\ Paused(row, reason).offer = row.offer
                /\ Paused(row, reason).marked = row.marked
                /\ Paused(row, reason).text = row.text
           /\ Active(row) \in Row
           /\ Active(row).status = "active" /\ Active(row).reason = "none"
           /\ Active(row).offer = row.offer /\ Active(row).marked = row.marked
           /\ Active(row).text = row.text
<1>1. PICK r \in Row : r = row
  OBVIOUS
<1>2. ASSUME NEW reason \in AutoReasons \cup HandReasons
      PROVE  /\ Paused(r, reason) \in Row
             /\ Paused(r, reason).status = "paused"
             /\ Paused(r, reason).reason = reason
             /\ Paused(r, reason).offer = r.offer
             /\ Paused(r, reason).marked = r.marked
             /\ Paused(r, reason).text = r.text
  BY DEF Paused, Row
<1>3. /\ Active(r) \in Row
      /\ Active(r).status = "active" /\ Active(r).reason = "none"
      /\ Active(r).offer = r.offer /\ Active(r).marked = r.marked
      /\ Active(r).text = r.text
  BY DEF Active, Row, AutoReasons
<1> QED
  BY <1>1, <1>2, <1>3

\* the row of a matrix lot with the price and wording of today
LEMMA RowRepriced ==
    ASSUME NEW row \in Row, price \in Editions
    PROVE  /\ Repriced(row) \in Row
           /\ Repriced(row).status = row.status
           /\ Repriced(row).reason = row.reason
           /\ Repriced(row).offer = row.offer
           /\ Repriced(row).marked = row.marked
           /\ Repriced(row).text = price
BY DEF Repriced, Row

\* the row of a lot that does not exist yet
LEMMA NoRowIsRow ==
    /\ NoRow \in Row /\ ~Bound(NoRow) /\ ~NoRow.marked
    /\ NoRow.status = "absent" /\ NoRow.reason = "none"
BY DEF NoRow, Row, Bound, AutoReasons, Editions

\* two rows with the same fields are the same
LEMMA RowEqual ==
    ASSUME NEW x \in Row, NEW y \in Row,
           x.status = y.status, x.reason = y.reason, x.offer = y.offer,
           x.marked = y.marked, x.text = y.text
    PROVE  x = y
BY DEF Row

\* a commit, field by field
LEMMA RowWritten ==
    ASSUME NEW row \in Row, NEW loaded \in Row, NEW changed \in Row
    PROVE  LET r == Written(row, loaded, changed)
           IN  /\ r \in Row
               /\ r.status \in {row.status, changed.status}
               /\ changed.status # loaded.status => r.status = changed.status
               /\ changed.status = loaded.status => r.status = row.status
               /\ r.reason \in {row.reason, changed.reason}
               /\ row.offer = loaded.offer => r.offer = changed.offer
               /\ row.marked = loaded.marked => r.marked = changed.marked
               /\ row.text = loaded.text => r.text = changed.text
               /\ changed.offer = loaded.offer => r.offer = row.offer
               /\ changed.marked = loaded.marked => r.marked = row.marked
               /\ changed.text = loaded.text => r.text = row.text
               /\ row = loaded => r = changed
<1> DEFINE r == Written(row, loaded, changed)
<1>1. DOMAIN row = {"status", "reason", "offer", "marked", "text"}
  BY DEF Row
<1>2. \A f \in DOMAIN row :
         r[f] = IF changed[f] # loaded[f] THEN changed[f] ELSE row[f]
  BY DEF Written
<1>3. /\ r.status = IF changed.status # loaded.status THEN changed.status
                    ELSE row.status
      /\ r.reason = IF changed.reason # loaded.reason THEN changed.reason
                    ELSE row.reason
      /\ r.offer = IF changed.offer # loaded.offer THEN changed.offer
                   ELSE row.offer
      /\ r.marked = IF changed.marked # loaded.marked THEN changed.marked
                    ELSE row.marked
      /\ r.text = IF changed.text # loaded.text THEN changed.text
                  ELSE row.text
  BY <1>1, <1>2
<1>4. r = [status |-> r.status, reason |-> r.reason, offer |-> r.offer,
           marked |-> r.marked, text |-> r.text]
  BY <1>1 DEF Written
<1>5. r \in Row
  <2> HIDE DEF r
  <2>1. /\ r.status \in {"absent", "active", "paused", "deleted"}
        /\ r.reason \in AutoReasons \cup HandReasons
        /\ r.offer \in Nat /\ r.marked \in BOOLEAN /\ r.text \in Editions
    BY <1>3 DEF Row
  <2> QED
    BY <2>1, <1>4 DEF Row
<1>6. row = loaded => r = changed
  <2> SUFFICES ASSUME row = loaded PROVE r = changed
    OBVIOUS
  <2>1. /\ r.status = changed.status /\ r.reason = changed.reason
        /\ r.offer = changed.offer /\ r.marked = changed.marked
        /\ r.text = changed.text
    <3> HIDE DEF r
    <3> QED
      BY <1>3
  <2> HIDE DEF r
  <2> QED
    BY <1>5, <2>1, RowEqual
<1> HIDE DEF r
<1>7. r \in Row /\ (row = loaded => r = changed)
  BY <1>5, <1>6
<1>8. /\ r.status \in {row.status, changed.status}
      /\ changed.status # loaded.status => r.status = changed.status
      /\ changed.status = loaded.status => r.status = row.status
      /\ r.reason \in {row.reason, changed.reason}
      /\ row.offer = loaded.offer => r.offer = changed.offer
      /\ row.marked = loaded.marked => r.marked = changed.marked
      /\ row.text = loaded.text => r.text = changed.text
      /\ changed.offer = loaded.offer => r.offer = row.offer
      /\ changed.marked = loaded.marked => r.marked = row.marked
      /\ changed.text = loaded.text => r.text = row.text
  BY <1>3
<1> USE DEF r
<1> QED
  BY <1>7, <1>8

-----------------------------------------------------------------------------
(* What the stages and the requests decide *)

\* a work as it is decided: on the row as loaded, nothing sent
Begun(w, lot, operator) ==
    /\ w \in WorkRow
    /\ w.lot = lot /\ w.old = rows[lot]
    /\ w.new.offer = w.old.offer /\ w.new.marked = w.old.marked
    /\ WorkFits(w, operator)

\* PauseWork, for a reason that fits an unpublished row or a published one
LEMMA PauseFits ==
    ASSUME NEW lot \in Lots, rows[lot] \in Row,
           NEW reason \in AutoReasons \cup HandReasons,
           Bound(rows[lot]) \/ reason \notin OfferReasons,
           NEW operator \in BOOLEAN
    PROVE  Begun(PauseWork(lot, reason), lot, operator)
<1> DEFINE call == IF Bound(rows[lot]) THEN "toggle" ELSE "none"
           new == Paused(rows[lot], reason)
<1>1. PICK w : w = Work(lot, call, FALSE, new, "end")
  OBVIOUS
<1>2. /\ new \in Row /\ new.status = "paused" /\ new.reason = reason
      /\ new.offer = rows[lot].offer /\ new.marked = rows[lot].marked
      /\ new.text = rows[lot].text
  BY RowMade
<1>3. /\ w \in WorkRow
      /\ w.lot = lot /\ w.call = call /\ w.on = FALSE
      /\ w.old = rows[lot] /\ w.new = new /\ w.then = "end"
  <2>1. call \in {"none", "toggle"}
    OBVIOUS
  <2> HIDE DEF new, call
  <2> QED
    BY <1>1, <1>2, <2>1 DEF Work, WorkRow
<1> HIDE DEF new
<1>4. Begun(w, lot, operator)
  BY <1>2, <1>3 DEF Begun, WorkFits
<1> QED
  BY <1>1, <1>4 DEF PauseWork, new

\* saving a published row as it is
LEMMA ResaveFits ==
    ASSUME NEW lot \in Lots, rows[lot] \in Row, RowFits(lot, rows[lot]),
           Bound(rows[lot]), rows[lot].status # "deleted"
    PROVE  Begun(Work(lot, "save", rows[lot].status = "active", rows[lot], "end"),
                 lot, FALSE)
<1>1. PICK on \in BOOLEAN : on = (rows[lot].status = "active")
  OBVIOUS
<1>2. PICK w : w = Work(lot, "save", on, rows[lot], "end")
  OBVIOUS
<1>3. /\ w \in WorkRow
      /\ w.lot = lot /\ w.call = "save" /\ w.on = on
      /\ w.old = rows[lot] /\ w.new = rows[lot] /\ w.then = "end"
  BY <1>2 DEF Work, WorkRow
<1>4. rows[lot].status # "absent"
  BY NoRowIsRow DEF RowFits
<1>5. Begun(w, lot, FALSE)
  <2>1. (w.new.status = "active") <=> w.on
    BY <1>1, <1>3
  <2> QED
    BY <1>3, <1>4, <2>1 DEF Begun, WorkFits, RowFits, Held
<1> QED
  BY <1>1, <1>2, <1>5

\* the branches of the matrix stage, for the automatic lot
LEMMA MatrixFits ==
    ASSUME rows[AutoLot] \in Row, RowFits(AutoLot, rows[AutoLot]), price \in Editions,
           NEW stock, NEW w \in MatrixWork(AutoLot, stock)
    PROVE  Begun(w, AutoLot, FALSE)
<1> DEFINE row == rows[AutoLot]
           new == Repriced(row)
           touched == Changed(row) \/ stock
<1>1. AutoLot \in Lots /\ price # 0 /\ row \in Row
  BY DEF Lots, Editions
<1>2. /\ new \in Row /\ new.status = row.status /\ new.reason = row.reason
      /\ new.offer = row.offer /\ new.marked = row.marked /\ new.text = price
  BY <1>1, RowRepriced
<1> HIDE DEF new
<1>3. PICK p : p = Paused(new, "auto_publish_pending")
  OBVIOUS
<1>4. /\ p \in Row /\ p.status = "paused" /\ p.reason = "auto_publish_pending"
      /\ p.offer = row.offer /\ p.marked = row.marked /\ p.text = price
  <2>1. "auto_publish_pending" \in AutoReasons \cup HandReasons
    BY DEF AutoReasons
  <2>2. /\ Paused(new, "auto_publish_pending") \in Row
        /\ Paused(new, "auto_publish_pending").status = "paused"
        /\ Paused(new, "auto_publish_pending").reason = "auto_publish_pending"
        /\ Paused(new, "auto_publish_pending").offer = new.offer
        /\ Paused(new, "auto_publish_pending").marked = new.marked
        /\ Paused(new, "auto_publish_pending").text = new.text
    BY <1>2, <2>1, RowMade
  <2> QED
    BY <1>2, <1>3, <2>2
<1>5. PICK a : a = Active(new)
  OBVIOUS
<1>6. /\ a \in Row /\ a.status = "active" /\ a.reason = "none"
      /\ a.offer = row.offer /\ a.marked = row.marked /\ a.text = price
  BY <1>2, <1>5, RowMade
<1>7. PICK n : n = Paused(new, "auto_no_account")
  OBVIOUS
<1>8. /\ n \in Row /\ n.status = "paused" /\ n.reason = "auto_no_account"
      /\ n.offer = row.offer /\ n.marked = row.marked /\ n.text = price
  <2>1. "auto_no_account" \in AutoReasons \cup HandReasons
    BY DEF AutoReasons
  <2>2. /\ Paused(new, "auto_no_account") \in Row
        /\ Paused(new, "auto_no_account").status = "paused"
        /\ Paused(new, "auto_no_account").reason = "auto_no_account"
        /\ Paused(new, "auto_no_account").offer = new.offer
        /\ Paused(new, "auto_no_account").marked = new.marked
        /\ Paused(new, "auto_no_account").text = new.text
    BY <1>2, <2>1, RowMade
  <2> QED
    BY <1>2, <1>7, <2>2
<1>9. /\ NewLot \in Row /\ NewLot.status = "paused"
      /\ NewLot.reason = "auto_publish_pending" /\ NewLot.offer = 0
      /\ NewLot.marked = FALSE
  <2>1. /\ Repriced(NoRow) \in Row /\ Repriced(NoRow).offer = 0
        /\ Repriced(NoRow).marked = FALSE
    BY NoRowIsRow, RowRepriced DEF Bound
  <2> QED
    BY <2>1, RowMade DEF NewLot, AutoReasons
<1>10. CASE row.status = "absent"
  <2>1. w = Work(AutoLot, "none", FALSE, NewLot, "bind")
    BY <1>10 DEF MatrixWork
  <2>2. /\ w \in WorkRow
        /\ w.lot = AutoLot /\ w.call = "none" /\ w.on = FALSE
        /\ w.old = row /\ w.new = NewLot /\ w.then = "bind"
    BY <2>1, <1>1, <1>9 DEF Work, WorkRow
  <2>3. row.offer = 0 /\ row.marked = FALSE
    BY <1>10, NoRowIsRow DEF RowFits, Bound
  <2> QED
    BY <2>2, <2>3, <1>9 DEF Begun, WorkFits, Bound, OfferReasons
<1>11. CASE row.status # "absent" /\ HasCapacity /\ AutoPaused(row)
  <2>1. row.status = "paused" /\ row.reason \in AutoReasons /\ ~Held(row)
    BY <1>11 DEF AutoPaused, Held, AutoReasons, HandReasons
  <2>2. CASE row.reason = "auto_publish_pending"
    <3>1. w = BindWork(AutoLot, new)
      BY <1>1, <1>11, <2>2 DEF MatrixWork, new
    <3>2. PICK v : v = Work(AutoLot, "save", FALSE, p, "activate")
      OBVIOUS
    <3>3. /\ v \in WorkRow
          /\ v.lot = AutoLot /\ v.call = "save" /\ v.on = FALSE
          /\ v.old = row /\ v.new = p /\ v.then = "activate"
      BY <3>2, <1>1, <1>4 DEF Work, WorkRow
    <3>4. w = [v EXCEPT !.old = row]
      BY <3>1, <3>2, <1>3 DEF BindWork
    <3>5. w = v
      BY <3>3, <3>4 DEF WorkRow
    <3> QED
      BY <3>3, <3>5, <1>4 DEF Begun, WorkFits, OfferReasons
  <2>3. CASE row.reason # "auto_publish_pending"
    <3> DEFINE call == SaveOr(ActivateCall(row), row, stock)
    <3>1. w = Work(AutoLot, call, TRUE, a, "end")
      BY <1>1, <1>5, <1>11, <2>3 DEF MatrixWork, new
    <3>2. /\ call \in {"save", "toggle"}
          /\ call = "toggle" => row.marked /\ row.text = price
      BY DEF SaveOr, ActivateCall, Changed
    <3> HIDE DEF call
    <3>3. /\ w \in WorkRow
          /\ w.lot = AutoLot /\ w.call = call /\ w.on = TRUE
          /\ w.old = row /\ w.new = a /\ w.then = "end"
      BY <3>1, <3>2, <1>1, <1>6 DEF Work, WorkRow
    <3>4. Bound(row)
      <4>1. row.reason \in OfferReasons
        BY <2>1, <2>3 DEF OfferReasons, AutoReasons
      <4> QED
        BY <4>1, <1>11 DEF RowFits
    <3> QED
      BY <3>2, <3>3, <3>4, <1>6, <2>1 DEF Begun, WorkFits, Bound
  <2> QED
    BY <2>2, <2>3
<1>12. CASE row.status = "active"
  <2>1. Bound(row) /\ ~Held(row)
    BY <1>12 DEF RowFits, Held
  <2>2. CASE HasCapacity
    <3>1. w = Work(AutoLot, "save", TRUE, new, "end")
      BY <1>1, <1>12, <2>2 DEF MatrixWork, AutoPaused, new
    <3>2. /\ w \in WorkRow
          /\ w.lot = AutoLot /\ w.call = "save" /\ w.on = TRUE
          /\ w.old = row /\ w.new = new /\ w.then = "end"
      BY <3>1, <1>1, <1>2 DEF Work, WorkRow
    <3> QED
      BY <3>2, <2>1, <1>2, <1>12 DEF Begun, WorkFits
  <2>3. CASE ~HasCapacity
    <3> DEFINE call == SaveOr("toggle", row, stock)
    <3>1. w = Work(AutoLot, call, FALSE, n, "end")
      BY <1>1, <1>7, <1>12, <2>3 DEF MatrixWork, new
    <3>2. call \in {"save", "toggle"} /\ (call = "toggle" => row.text = price)
      BY DEF SaveOr, Changed
    <3> HIDE DEF call
    <3>3. /\ w \in WorkRow
          /\ w.lot = AutoLot /\ w.call = call /\ w.on = FALSE
          /\ w.old = row /\ w.new = n /\ w.then = "end"
      BY <3>1, <3>2, <1>1, <1>8 DEF Work, WorkRow
    <3> QED
      BY <3>2, <3>3, <2>1, <1>8 DEF Begun, WorkFits
  <2> QED
    BY <2>2, <2>3
<1>13. CASE row.status \notin {"absent", "active"} /\ ~(HasCapacity /\ AutoPaused(row))
  <2> DEFINE call == IF Bound(row) THEN "save" ELSE "none"
  <2>1. w = Work(AutoLot, call, FALSE, new, "end")
    BY <1>1, <1>13 DEF MatrixWork, new
  <2>2. call \in {"save", "none"}
    OBVIOUS
  <2> HIDE DEF call
  <2>3. /\ w \in WorkRow
        /\ w.lot = AutoLot /\ w.call = call /\ w.on = FALSE
        /\ w.old = row /\ w.new = new /\ w.then = "end"
    BY <2>1, <2>2, <1>1, <1>2 DEF Work, WorkRow
  <2>4. row.status # "deleted" /\ (~Bound(row) => row.reason \notin OfferReasons)
    BY <1>13 DEF RowFits
  <2> QED
    BY <2>3, <2>4, <1>2, <1>13 DEF Begun, WorkFits, call
<1> QED
  BY <1>10, <1>11, <1>12, <1>13

\* what a stage of a pass finds to do fits the row it has loaded
LEMMA StageFits ==
    ASSUME NEW stage \in Stages, NEW lot \in Lots, rows[lot] \in Row,
           RowFits(lot, rows[lot]), price \in Editions \cup {0, Nothing},
           NEW stock, NEW full, NEW w \in StageWork(stage, lot, stock, full)
    PROVE  /\ Begun(w, lot, FALSE)
           /\ rows[lot].status = "absent" => lot = AutoLot
<1> DEFINE row == rows[lot]
<1>1. row.status = "active" => Bound(row)
  BY DEF RowFits
<1>2. row.status = "absent" => ~Bound(row)
  BY NoRowIsRow DEF RowFits
<1>3. CASE stage = "invalid"
  <2> DEFINE reason == IF lot = AutoLot THEN "auto_no_config" ELSE "catalog_unavailable"
  <2>1. w = PauseWork(lot, reason) /\ row.status = "active"
    BY <1>3 DEF StageWork, InvalidApplies
  <2>2. reason \in AutoReasons \cup HandReasons
    BY DEF AutoReasons, HandReasons
  <2> HIDE DEF reason
  <2> QED
    BY <2>1, <2>2, <1>1, PauseFits
<1>4. CASE stage = "marker"
  <2>1. /\ w = Work(lot, "save", row.status = "active", row, "end")
        /\ Bound(row) /\ row.status # "deleted"
    BY <1>4 DEF StageWork, MarkerApplies
  <2> QED
    BY <2>1, <1>2, ResaveFits
<1>5. CASE stage = "orphan"
  <2>1. w = PauseWork(lot, "auto_no_config") /\ row.status = "active"
    BY <1>5 DEF StageWork, OrphanApplies
  <2>2. "auto_no_config" \in AutoReasons \cup HandReasons
    BY DEF AutoReasons
  <2> QED
    BY <2>1, <2>2, <1>1, PauseFits
<1>6. CASE stage = "refresh"
  <2>1. /\ w = Work(lot, "save", row.status = "active", row, "end")
        /\ Bound(row) /\ row.status # "deleted"
    BY <1>6 DEF StageWork, RefreshApplies
  <2> QED
    BY <2>1, <1>2, ResaveFits
<1>7. CASE stage = "matrix"
  <2>1. lot = AutoLot /\ price # Nothing
    BY <1>7 DEF StageWork, Matrix
  <2>2. CASE price = 0
    <3>1. w = PauseWork(lot, "auto_template_error") /\ row.status = "active"
      BY <1>7, <2>1, <2>2 DEF StageWork, TemplateErrorWork
    <3>2. "auto_template_error" \in AutoReasons \cup HandReasons
      BY DEF AutoReasons
    <3> QED
      BY <3>1, <3>2, <1>1, PauseFits
  <2>3. CASE price # 0
    <3>1. w \in MatrixWork(AutoLot, stock) /\ price \in Editions
      BY <1>7, <2>1, <2>3 DEF StageWork
    <3> QED
      BY <3>1, <2>1, MatrixFits
  <2> QED
    BY <2>2, <2>3
<1> QED
  BY <1>3, <1>4, <1>5, <1>6, <1>7 DEF Stages

\* what a request of the operator has to do fits the row it has loaded
LEMMA RequestFits ==
    ASSUME NEW kind \in Requests, NEW lot \in Lots, rows[lot] \in Row,
           RowFits(lot, rows[lot]), rows[lot].status # "absent",
           kind = "delete" => lot = ManualLot, NEW w \in RequestWork(kind, lot)
    PROVE  Begun(w, lot, TRUE)
<1> DEFINE row == rows[lot]
<1>1. PICK a : a = Active(row)
  OBVIOUS
<1>2. /\ a \in Row /\ a.status = "active" /\ a.reason = "none"
      /\ a.offer = row.offer /\ a.marked = row.marked /\ a.text = row.text
  BY <1>1, RowMade
<1>3. CASE kind = "publish"
  <2>1. w = Work(lot, "save", TRUE, a, "end")
    BY <1>1, <1>3 DEF RequestWork
  <2>2. /\ w \in WorkRow
        /\ w.lot = lot /\ w.call = "save" /\ w.on = TRUE
        /\ w.old = row /\ w.new = a /\ w.then = "end"
    BY <2>1, <1>2 DEF Work, WorkRow
  <2> QED
    BY <2>2, <1>2 DEF Begun, WorkFits, OfferReasons
<1>4. CASE kind = "on"
  <2> DEFINE call == ActivateCall(row)
  <2>1. w = Work(lot, call, TRUE, a, "end") /\ Bound(row)
    BY <1>1, <1>4 DEF RequestWork
  <2>2. call \in {"save", "toggle"} /\ (call = "toggle" => row.marked)
    BY DEF ActivateCall
  <2> HIDE DEF call
  <2>3. /\ w \in WorkRow
        /\ w.lot = lot /\ w.call = call /\ w.on = TRUE
        /\ w.old = row /\ w.new = a /\ w.then = "end"
    BY <2>1, <2>2, <1>2 DEF Work, WorkRow
  <2> QED
    BY <2>1, <2>2, <2>3, <1>2 DEF Begun, WorkFits
<1>5. CASE kind = "off"
  <2>1. w = PauseWork(lot, "manual") /\ Bound(row)
    BY <1>5 DEF RequestWork
  <2>2. "manual" \in AutoReasons \cup HandReasons
    BY DEF HandReasons
  <2> QED
    BY <2>1, <2>2, PauseFits
<1>6. CASE kind = "delete"
  <2> DEFINE d == [row EXCEPT !.status = "deleted", !.reason = "manual_deleted"]
  <2>1. w = Work(lot, "delete", FALSE, d, "end") /\ Bound(row)
    BY <1>6 DEF RequestWork
  <2>2. /\ d \in Row /\ d.status = "deleted" /\ d.reason = "manual_deleted"
        /\ d.offer = row.offer /\ d.marked = row.marked /\ d.text = row.text
    <3>1. PICK r \in Row : r = row
      OBVIOUS
    <3>2. d = [r EXCEPT !.status = "deleted", !.reason = "manual_deleted"]
      BY <3>1
    <3> HIDE DEF d
    <3> QED
      BY <3>1, <3>2 DEF Row, HandReasons
  <2> HIDE DEF d
  <2>3. /\ w \in WorkRow
        /\ w.lot = lot /\ w.call = "delete" /\ w.on = FALSE
        /\ w.old = row /\ w.new = d /\ w.then = "end"
    BY <2>1, <2>2 DEF Work, WorkRow
  <2>4. lot # AutoLot
    BY <1>6, LotsDiffer
  <2> QED
    BY <2>1, <2>2, <2>3, <2>4 DEF Begun, WorkFits
<1> QED
  BY <1>3, <1>4, <1>5, <1>6 DEF Requests

-----------------------------------------------------------------------------
(* What a call makes of the offers *)

\* an offer taken off sale, or switched, is the same lot's with the same form
LEMMA OfferMade ==
    ASSUME NEW o \in Offer
    PROVE  /\ Retired(o) \in Offer
           /\ Retired(o).lot = o.lot /\ Retired(o).text = o.text
           /\ Retired(o).marked = o.marked /\ Retired(o).on = FALSE
           /\ \A on \in BOOLEAN :
                /\ [o EXCEPT !.on = on] \in Offer
                /\ [o EXCEPT !.on = on].lot = o.lot
                /\ [o EXCEPT !.on = on].text = o.text
                /\ [o EXCEPT !.on = on].marked = o.marked
                /\ [o EXCEPT !.on = on].on = on
<1>1. /\ Retired(o) \in Offer
      /\ Retired(o).lot = o.lot /\ Retired(o).text = o.text
      /\ Retired(o).marked = o.marked /\ Retired(o).on = FALSE
  BY DEF Retired, Offer
<1>2. ASSUME NEW on \in BOOLEAN
      PROVE  /\ [o EXCEPT !.on = on] \in Offer
             /\ [o EXCEPT !.on = on].lot = o.lot
             /\ [o EXCEPT !.on = on].text = o.text
             /\ [o EXCEPT !.on = on].marked = o.marked
             /\ [o EXCEPT !.on = on].on = on
  BY DEF Offer
<1> QED
  BY <1>1, <1>2

\* the form a save sends, field by field
LEMMA FormIs ==
    ASSUME NEW lot \in Lots, NEW row \in Row, NEW active \in BOOLEAN
    PROVE  /\ Form(lot, row, active) \in Offer
           /\ Form(lot, row, active).lot = lot
           /\ Form(lot, row, active).on = active
           /\ Form(lot, row, active).text = row.text
           /\ Form(lot, row, active).marked = TRUE
BY DEF Form, Offer, Row

\* where a save goes: to the bound offer, a recovered one of the lot, or a new one
LEMMA SavedIdIs ==
    ASSUME NEW lot \in Lots, NEW row \in Row, offers \in Seq(Offer),
           Bound(row) => row.offer \in DOMAIN offers /\ offers[row.offer].lot = lot
    PROVE  LET id == SavedId(lot, row)
           IN  /\ id \in Nat /\ id >= 1
               /\ id = NewId \/ (id \in DOMAIN offers /\ offers[id].lot = lot)
               /\ Bound(row) => id = row.offer /\ id \in DOMAIN offers
<1> DEFINE found == Recoverable(lot, row.text)
<1>1. DOMAIN offers = 1..Len(offers) /\ Len(offers) \in Nat
  BY LenProperties
<1>2. found \subseteq DOMAIN offers /\ \A i \in found : offers[i].lot = lot
  BY DEF Recoverable
<1>3. NewId \in Nat /\ NewId >= 1
  BY <1>1 DEF NewId
<1>4. PICK id : id = SavedId(lot, row)
  OBVIOUS
<1>5. \/ Bound(row) /\ id = row.offer
      \/ ~Bound(row) /\ id = NewId
      \/ ~Bound(row) /\ found # {} /\ id = Min(found)
  BY <1>4 DEF SavedId
<1>6. found # {} => Min(found) \in found
  <2>1. found \in SUBSET Nat
    BY <1>1, <1>2
  <2> HIDE DEF found
  <2> QED
    BY <2>1, MinNat
<1> HIDE DEF found
<1>7. id = NewId \/ (id \in DOMAIN offers /\ offers[id].lot = lot)
  BY <1>2, <1>5, <1>6
<1>8. id \in Nat /\ id >= 1
  BY <1>1, <1>3, <1>7
<1>9. Bound(row) => id = row.offer /\ id \in DOMAIN offers
  BY <1>5
<1> QED
  BY <1>4, <1>7, <1>8, <1>9

\* A save leaves the form at its offer; the others stay as they are, or are the
\* lot's own and retired.
SavedAs(o2, id, lot, row, active) ==
    /\ o2 \in Seq(Offer)
    /\ id \in DOMAIN o2 /\ id \in Nat /\ id >= 1
    /\ o2[id] = Form(lot, row, active)
    /\ \A i \in DOMAIN offers : i \in DOMAIN o2
    /\ \A i \in DOMAIN o2 :
         i # id => /\ i \in DOMAIN offers
                   /\ \/ o2[i] = offers[i]
                      \/ /\ ~Bound(row) /\ offers[i].lot = lot
                         /\ o2[i] = Retired(offers[i])
    /\ \A i \in DOMAIN offers :
         offers[i].lot # lot => i # id /\ o2[i] = offers[i]
    /\ Bound(row) => id = row.offer /\ Len(o2) = Len(offers)
    /\ Len(o2) <= Len(offers) + 1

\* Saved is what SavedAs says
LEMMA SavedEffect ==
    ASSUME NEW lot \in Lots, NEW row \in Row, NEW active \in BOOLEAN,
           offers \in Seq(Offer),
           Bound(row) => row.offer \in DOMAIN offers /\ offers[row.offer].lot = lot
    PROVE  SavedAs(Saved(lot, row, active), SavedId(lot, row), lot, row, active)
<1> DEFINE n == Len(offers)
           dup == Duplicates(lot, row)
           kept == [i \in DOMAIN offers |->
                       IF i \in dup THEN Retired(offers[i]) ELSE offers[i]]
           form == Form(lot, row, active)
           o2 == Saved(lot, row, active)
<1>1. DOMAIN offers = 1..n /\ n \in Nat /\ \A i \in 1..n : offers[i] \in Offer
  BY LenProperties
<1>2. PICK id : id = SavedId(lot, row)
  OBVIOUS
<1>3. /\ id \in Nat /\ id >= 1
      /\ id = NewId \/ (id \in DOMAIN offers /\ offers[id].lot = lot)
      /\ Bound(row) => id = row.offer /\ id \in DOMAIN offers
  BY <1>2, SavedIdIs
<1>4. \A i \in dup : /\ i \in 1..n /\ ~Bound(row)
                     /\ offers[i].lot = lot /\ i # id
  BY <1>1, <1>2 DEF Duplicates, Recoverable
<1>5. form \in Offer
  BY FormIs
<1>6. \A i \in 1..n : Retired(offers[i]) \in Offer
  BY <1>1, OfferMade
<1>7. kept \in [1..n -> Offer]
  BY <1>1, <1>6
<1>8. \A i \in 1..n : kept[i] = IF i \in dup THEN Retired(offers[i]) ELSE offers[i]
  BY <1>1
<1>9. kept \in Seq(Offer) /\ Len(kept) = n
  <2> HIDE DEF kept
  <2> QED
    BY <1>1, <1>7
<1>10. o2 = IF id = n + 1 THEN Append(kept, form) ELSE [kept EXCEPT ![id] = form]
  BY <1>2 DEF Saved, NewId
<1> HIDE DEF kept, form, o2, dup
<1>11. CASE id = n + 1
  <2>1. o2 = Append(kept, form)
    BY <1>10, <1>11
  <2>2. /\ o2 \in Seq(Offer) /\ Len(o2) = n + 1
        /\ o2[n + 1] = form /\ \A i \in 1..n : o2[i] = kept[i]
    BY <2>1, <1>5, <1>9, AppendProperties
  <2>3. DOMAIN o2 = 1..(n + 1)
    BY <1>1, <2>2, LenProperties
  <2>4. ~Bound(row)
    BY <1>1, <1>3, <1>11
  <2>5. \A i \in 1..n : \/ o2[i] = offers[i]
                        \/ offers[i].lot = lot /\ o2[i] = Retired(offers[i])
    BY <2>2, <1>8, <1>4
  <2>6. \A i \in 1..n : offers[i].lot # lot => o2[i] = offers[i]
    BY <2>2, <1>8, <1>4
  <2>7. \A i \in DOMAIN o2 : i # id => i \in 1..n
    BY <1>1, <1>11, <2>3
  <2>8. id \in DOMAIN o2 /\ o2[id] = form /\ \A i \in 1..n : i \in DOMAIN o2 /\ i # id
    BY <1>1, <1>3, <1>11, <2>2, <2>3
  <2>9. SavedAs(o2, id, lot, row, active)
    <3>1. Len(o2) <= Len(offers) + 1
      BY <1>1, <2>2
    <3> HIDE DEF n
    <3>2. /\ \A i \in DOMAIN offers : i \in DOMAIN o2
          /\ \A i \in DOMAIN offers : offers[i].lot # lot => i # id /\ o2[i] = offers[i]
      BY <1>1, <2>6, <2>8
    <3>3. \A i \in DOMAIN o2 :
             i # id => /\ i \in DOMAIN offers
                       /\ \/ o2[i] = offers[i]
                          \/ /\ ~Bound(row) /\ offers[i].lot = lot
                             /\ o2[i] = Retired(offers[i])
      BY <1>1, <2>4, <2>5, <2>7
    <3> QED
      BY <1>3, <2>2, <2>4, <2>8, <3>1, <3>2, <3>3 DEF SavedAs, form
  <2> QED
    BY <2>9, <1>2 DEF o2
<1>12. CASE id # n + 1
  <2>1. o2 = [kept EXCEPT ![id] = form] /\ id \in 1..n /\ offers[id].lot = lot
    BY <1>1, <1>3, <1>10, <1>12 DEF NewId
  <2>2. /\ o2 \in [1..n -> Offer] /\ o2[id] = form
        /\ \A i \in 1..n : i # id => o2[i] = kept[i]
    BY <2>1, <1>5, <1>7
  <2>3. o2 \in Seq(Offer) /\ Len(o2) = n /\ DOMAIN o2 = 1..n
    BY <1>1, <2>2
  <2>4. \A i \in 1..n : i # id => \/ o2[i] = offers[i]
                                  \/ /\ ~Bound(row) /\ offers[i].lot = lot
                                     /\ o2[i] = Retired(offers[i])
    BY <2>2, <1>8, <1>4
  <2>5. \A i \in 1..n : offers[i].lot # lot => i # id /\ o2[i] = offers[i]
    BY <2>1, <2>2, <1>8, <1>4
  <2>6. SavedAs(o2, id, lot, row, active)
    BY <1>1, <1>3, <2>1, <2>2, <2>3, <2>4, <2>5 DEF SavedAs, form
  <2> QED
    BY <2>6, <1>2 DEF o2
<1> QED
  BY <1>11, <1>12

\* a switch or a deletion changes one offer, and of it neither lot, wording nor
\* marker
Adjusted(o2, id, on) ==
    /\ o2 \in Seq(Offer) /\ Len(o2) = Len(offers) /\ DOMAIN o2 = DOMAIN offers
    /\ o2[id] \in Offer
    /\ o2[id].lot = offers[id].lot /\ o2[id].text = offers[id].text
    /\ o2[id].marked = offers[id].marked /\ o2[id].on = on
    /\ \A i \in DOMAIN offers : i # id => o2[i] = offers[i]

\* Toggled and Deleted are what Adjusted says
LEMMA AdjustedEffect ==
    ASSUME NEW id \in DOMAIN offers, NEW on \in BOOLEAN, offers \in Seq(Offer)
    PROVE  Adjusted(Toggled(id, on), id, on) /\ Adjusted(Deleted(id), id, FALSE)
<1> DEFINE n == Len(offers)
<1>1. DOMAIN offers = 1..n /\ n \in Nat /\ \A i \in 1..n : offers[i] \in Offer
  BY LenProperties
<1>2. ASSUME NEW o \in Offer, NEW b, o.lot = offers[id].lot,
             o.text = offers[id].text, o.marked = offers[id].marked, o.on = b,
             NEW o2, o2 = [offers EXCEPT ![id] = o]
      PROVE  Adjusted(o2, id, b)
  <2>1. o2 \in [1..n -> Offer] /\ o2[id] = o
        /\ \A i \in 1..n : i # id => o2[i] = offers[i]
    BY <1>1, <1>2
  <2>2. o2 \in Seq(Offer) /\ Len(o2) = n /\ DOMAIN o2 = 1..n
    BY <1>1, <2>1
  <2> QED
    BY <1>1, <1>2, <2>1, <2>2 DEF Adjusted
<1>3. offers[id] \in Offer
  BY <1>1
<1>4. Toggled(id, on) = [offers EXCEPT ![id] = [offers[id] EXCEPT !.on = on]]
  BY DEF Toggled
<1>5. Deleted(id) = [offers EXCEPT ![id] = Retired(offers[id])]
  BY DEF Deleted
<1>6. Adjusted(Toggled(id, on), id, on)
  <2>1. PICK o : o = [offers[id] EXCEPT !.on = on]
    OBVIOUS
  <2>2. /\ o \in Offer /\ o.lot = offers[id].lot /\ o.text = offers[id].text
        /\ o.marked = offers[id].marked /\ o.on = on
    <3>1. PICK p \in Offer : p = offers[id]
      BY <1>3
    <3>2. o = [p EXCEPT !.on = on]
      BY <2>1, <3>1
    <3> QED
      BY <3>1, <3>2 DEF Offer
  <2> QED
    BY <1>2, <1>4, <2>1, <2>2
<1>7. Adjusted(Deleted(id), id, FALSE)
  <2>1. PICK o : o = Retired(offers[id])
    OBVIOUS
  <2>2. /\ o \in Offer /\ o.lot = offers[id].lot /\ o.text = offers[id].text
        /\ o.marked = offers[id].marked /\ o.on = FALSE
    BY <1>3, <2>1, OfferMade
  <2> QED
    BY <1>2, <1>5, <2>1, <2>2
<1> QED
  BY <1>6, <1>7

-----------------------------------------------------------------------------
(* Steps that leave rows and offers alone *)

\* the types of what the world and the loop keep
Rest ==
    /\ {cap, offered, gateway, dirty, forgotten} \subseteq BOOLEAN
    /\ price \in Editions \cup {0, Nothing}
    /\ loop \in {"none", "top", "pass"}
    /\ due \in {"no", "plain", "published"}
    /\ changes \in Nat
    /\ lapsed \in {"no", "yes", "seen"}

\* what a job and a restart leave of a lapse
LEMMA LapseTyped ==
    ASSUME lapsed \in {"no", "yes", "seen"}
    PROVE  /\ Unlooked \in {"no", "yes"}
           /\ lapsed # "no" => Unlooked = "yes"
           /\ \A k : LooksAt(k) \in {"no", "yes", "seen"}
BY DEF Unlooked, LooksAt

\* nothing of the shop changes, the transport at most goes
LEMMA WorldStep ==
    ASSUME IInv, UNCHANGED <<lotVars, holder, reqs, unrecorded, crossed, mishaps>>,
           gateway' = gateway \/ (holder = Nothing /\ gateway' = FALSE),
           Rest', RequestHasLoop'
    PROVE  IInv'
<1>1. StoreTypeOK'
  BY DEF IInv, StoreTypeOK, Rest, lotVars
<1>2. IRows' /\ IBound' /\ IReqs'
  BY DEF IInv, ISound, IRows, IBound, IReqs, ReqFits, lotVars
<1>3. IJob'
  BY DEF IInv, ISound, IJob, TodoFits, lotVars
<1>4. IWork'
  BY DEF IInv, ISound, IWork, Working, Matches, Sent, lotVars
<1>5. IOn' /\ IPrice' /\ ICount'
  BY DEF IInv, ISound, IOn, IPrice, ICount, Has, Lost, Selling, Pending, On,
         Working, lotVars
<1>6. IMark'
  BY DEF IInv, ISound, IMark, Waits, lotVars
<1> QED
  BY <1>1, <1>2, <1>3, <1>4, <1>5, <1>6 DEF IInv, ISound

\* after the step no job is between decision and commit, and an effect that is
\* not in its row is accounted for
EffectLost ==
    Working /\ holder.at = "commit" /\ holder.work.call # "none" =>
        holder.work.lot \in unrecorded' /\ mishaps' = mishaps + 1

\* no call has been accepted whose row is still to be written
NothingSent ==
    Working => holder.at = "call" \/ (holder.work.call = "none" /\ ~holder.work.on)

\* A step that calls nothing and writes no row keeps what is said of rows and
\* offers, if a call it leaves unrecorded is counted as lost.
LEMMA IdleStep ==
    ASSUME IInv, UNCHANGED <<lotVars, crossed>>, NothingSent',
           unrecorded \subseteq unrecorded', mishaps' \in {mishaps, mishaps + 1},
           EffectLost
    PROVE  IRows' /\ IBound' /\ IOn' /\ IPrice' /\ ICount'
<1>1. mishaps \in Nat /\ Len(offers) \in Nat
  BY LenProperties, BoundsAreNat DEF IInv, StoreTypeOK
<1>2. IRows' /\ IBound'
  BY DEF IInv, ISound, IRows, IBound, lotVars
<1>3. rows' = rows /\ offers' = offers /\ crossed' = crossed
  BY DEF lotVars
<1>4. \A l \in Lots, id \in DOMAIN offers :
         Selling(l, id) => l \in unrecorded'
  <2> SUFFICES ASSUME NEW l \in Lots, NEW id \in DOMAIN offers, Selling(l, id)
               PROVE  l \in unrecorded'
    OBVIOUS
  <2>1. Working /\ holder.work.lot = l /\ holder.at = "commit" /\ holder.work.on
    BY DEF Selling, On
  <2>2. holder.work.call # "none"
    BY <2>1 DEF IInv, ISound, IWork, WorkFits
  <2> QED
    BY <2>1, <2>2 DEF EffectLost
<1>5. \A l \in Lots : Pending(l) => l \in unrecorded' /\ mishaps' = mishaps + 1
  BY DEF Pending, On, EffectLost
<1>6. \A l : ~Pending(l)' /\ \A id : ~Selling(l, id)'
  BY DEF Pending, Selling, On, NothingSent
<1>7. \A id \in DOMAIN offers : offers[id].lot \in Lots
  <2>1. \A id \in DOMAIN offers : offers[id] \in Offer
    BY LenProperties DEF IInv, StoreTypeOK
  <2> QED
    BY <2>1 DEF Offer
<1>8. IOn'
  <2> SUFFICES ASSUME NEW id \in DOMAIN offers, offers[id].on,
                      offers[id].lot \notin unrecorded' \cup crossed
               PROVE  /\ rows[offers[id].lot].offer = id
                      /\ rows[offers[id].lot].status = "active"
    BY <1>3 DEF IOn, Lost
  <2>1. offers[id].lot \notin Lost /\ ~Selling(offers[id].lot, id)
    BY <1>4, <1>7 DEF Lost
  <2> QED
    BY <2>1 DEF IInv, ISound, IOn
<1>9. IPrice'
  <2> SUFFICES ASSUME NEW l \in Lots, Bound(rows[l]), l \notin unrecorded'
               PROVE  offers[rows[l].offer].text = rows[l].text
    BY <1>3 DEF IPrice
  <2>1. ~Pending(l)
    BY <1>5
  <2> QED
    BY <2>1 DEF IInv, ISound, IPrice
<1>10. ICount'
  <2>1. AutoLot \in Lots /\ ManualLot \in Lots /\ AutoLot # ManualLot
    BY LotsDiffer DEF Lots
  <2>2. ~(Pending(AutoLot) /\ Pending(ManualLot))
    BY <2>1 DEF Pending, On
  <2>3. /\ Has(AutoLot)' = IF Bound(rows[AutoLot]) THEN 1 ELSE 0
        /\ Has(ManualLot)' = IF Bound(rows[ManualLot]) THEN 1 ELSE 0
    BY <1>3, <1>6 DEF Has
  <2>4. /\ Has(AutoLot) \in 0..1 /\ Has(ManualLot) \in 0..1
        /\ Has(AutoLot)' \in 0..1 /\ Has(ManualLot)' \in 0..1
    BY <2>3 DEF Has
  <2>5. /\ ~Pending(AutoLot) => Has(AutoLot)' = Has(AutoLot)
        /\ ~Pending(ManualLot) => Has(ManualLot)' = Has(ManualLot)
    BY <2>3 DEF Has
  <2>6. Has(AutoLot) + Has(ManualLot) + mishaps
            <= Has(AutoLot)' + Has(ManualLot)' + mishaps'
    <3>1. CASE Pending(AutoLot)
      <4>1. mishaps' = mishaps + 1 /\ Has(ManualLot)' = Has(ManualLot)
        BY <3>1, <1>5, <2>1, <2>2, <2>5
      <4> QED
        BY <4>1, <1>1, <2>1, <2>4
    <3>2. CASE Pending(ManualLot)
      <4>1. mishaps' = mishaps + 1 /\ Has(AutoLot)' = Has(AutoLot)
        BY <3>2, <1>5, <2>1, <2>2, <2>5
      <4> QED
        BY <4>1, <1>1, <2>1, <2>4
    <3>3. CASE ~Pending(AutoLot) /\ ~Pending(ManualLot)
      <4>1. Has(AutoLot)' = Has(AutoLot) /\ Has(ManualLot)' = Has(ManualLot)
        BY <3>3, <2>5
      <4> QED
        BY <4>1, <1>1, <2>1, <2>4
    <3> QED
      BY <3>1, <3>2, <3>3
  <2>7. /\ Has(AutoLot) \in Nat /\ Has(ManualLot) \in Nat
        /\ Has(AutoLot)' \in Nat /\ Has(ManualLot)' \in Nat
    BY DEF Has
  <2> QED
    BY <1>1, <1>3, <2>6, <2>7 DEF IInv, ISound, ICount
<1> QED
  BY <1>2, <1>8, <1>9, <1>10

\* a request that fails is answered, or goes on to mark its new lot
LEMMA ReqAnswered ==
    /\ Idle \in Req /\ Answered \in Req /\ ReqFits(Answered)
    /\ Answered.at = "done" /\ Idle.at = "idle"
BY DEF Idle, Answered, Req, ReqFits, Requests

\* a request whose job has raised
LEMMA ReqFailed ==
    ASSUME NEW q \in Req, ReqFits(q), q.at \notin {"idle", "done"}
    PROVE  AfterFailure(q) \in Req /\ ReqFits(AfterFailure(q))
<1>1. CASE q.kind = "create"
  <2>1. PICK f : f = [q EXCEPT !.at = "failed"]
    OBVIOUS
  <2>2. f \in Req /\ f.at = "failed" /\ f.kind = q.kind /\ f.lot = q.lot
    BY <2>1 DEF Req
  <2>3. ReqFits(f)
    BY <1>1, <2>2 DEF ReqFits
  <2> QED
    BY <1>1, <2>1, <2>2, <2>3 DEF AfterFailure
<1>2. CASE q.kind # "create"
  BY <1>2, ReqAnswered DEF AfterFailure
<1> QED
  BY <1>1, <1>2

\* one request changes, the rows do not
LEMMA ReqStep ==
    ASSUME reqs \in [Slots -> Req], IReqs, rows' = rows,
           NEW i \in Slots, NEW q \in Req, ReqFits(q),
           reqs' = [reqs EXCEPT ![i] = q]
    PROVE  /\ reqs' \in [Slots -> Req] /\ IReqs'
           /\ reqs'[i] = q
           /\ \A j \in Slots : j # i => reqs'[j] = reqs[j]
<1>1. /\ reqs' \in [Slots -> Req] /\ reqs'[i] = q
      /\ \A j \in Slots : j # i => reqs'[j] = reqs[j]
  OBVIOUS
<1>2. \A j \in Slots : ReqFits(reqs[j])
  BY DEF IReqs
<1>3. \A j \in Slots : ReqFits(reqs'[j])
  BY <1>1, <1>2
<1>4. IReqs'
  BY <1>3 DEF IReqs, ReqFits
<1> QED
  BY <1>1, <1>4

\* a step of one request that writes no row
LEMMA AskingStep ==
    ASSUME IInv, UNCHANGED <<lotVars, holder, unrecorded, crossed, mishaps, gateway>>,
           NEW i \in Slots, NEW q \in Req, ReqFits(q),
           reqs' = [reqs EXCEPT ![i] = q],
           reqs[i].at # "runs", Rest', RequestHasLoop'
    PROVE  IInv'
<1>1. rows' = rows /\ reqs \in [Slots -> Req] /\ IReqs
  BY DEF IInv, ISound, StoreTypeOK, lotVars
<1>2. reqs' \in [Slots -> Req] /\ IReqs' /\ \A j \in Slots : j # i => reqs'[j] = reqs[j]
  BY <1>1, ReqStep
<1>3. StoreTypeOK'
  BY <1>2 DEF IInv, StoreTypeOK, Rest, lotVars
<1>4. IRows' /\ IBound'
  BY DEF IInv, ISound, IRows, IBound, lotVars
<1>5. IJob'
  BY <1>2 DEF IInv, ISound, IJob, TodoFits, lotVars
<1>6. IWork'
  BY DEF IInv, ISound, IWork, Working, Matches, Sent, lotVars
<1>7. IOn' /\ IPrice' /\ ICount' /\ IMark'
  BY DEF IInv, ISound, IOn, IPrice, ICount, IMark, Has, Lost, Selling, Pending, On,
         Working, Waits, lotVars
<1> QED
  BY <1>2, <1>3, <1>4, <1>5, <1>6, <1>7 DEF IInv, ISound

-----------------------------------------------------------------------------
(* Taking the lock *)

\* a job as it takes the lock
LEMMA JobIs ==
    ASSUME NEW by \in {"request", "route", "task", "loop", "reconf"},
           NEW slot \in Nat, NEW stages \in Seq(Step)
    PROVE  LET job == Job(by, slot, stages)
           IN  /\ job \in JobRow /\ job # Nothing
               /\ job.by = by /\ job.slot = slot /\ job.todo = stages
               /\ job.work = Nothing /\ job.at = "load"
<1>1. Job(by, slot, stages) \in JobRow
  BY DEF Job, JobRow
<1> QED
  BY <1>1, MarkersDiffer DEF Job

\* one stage, for both lots
LEMMA StagesAreSteps ==
    ASSUME NEW stage \in Stages
    PROVE  /\ OnBoth(stage) \in Seq([stage : Stages, lot : Lots])
           /\ OnBoth(stage)[1].stage = stage /\ OnBoth(stage)[2].stage = stage
           /\ DOMAIN OnBoth(stage) = 1..2
           /\ \A l \in Lots : \E k \in 1..2 : OnBoth(stage)[k].lot = l
BY DEF OnBoth, Lots

\* a pass is a list of steps, all of them stages
LEMMA PassIs ==
    ASSUME NEW published \in BOOLEAN
    PROVE  /\ Pass(published) \in Seq(Step)
           /\ \A k \in DOMAIN Pass(published) : Pass(published)[k].stage \in Stages
<1> DEFINE S == [stage : Stages, lot : Lots]
           last == IF published THEN OnBoth("refresh") ELSE << >>
<1>1. /\ OnBoth("invalid") \in Seq(S) /\ OnBoth("marker") \in Seq(S)
      /\ OnBoth("orphan") \in Seq(S) /\ OnBoth("matrix") \in Seq(S)
      /\ last \in Seq(S)
  <2>1. \A s \in Stages : OnBoth(s) \in Seq(S)
    BY StagesAreSteps
  <2>2. << >> \in Seq(S)
    OBVIOUS
  <2> HIDE DEF S
  <2> QED
    BY <2>1, <2>2 DEF Stages
<1>2. Pass(published) \in Seq(S)
  <2> HIDE DEF S, last
  <2>1. PICK a \in Seq(S) : a = OnBoth("invalid") \o OnBoth("marker")
    BY <1>1, ConcatProperties
  <2>2. PICK b \in Seq(S) : b = a \o OnBoth("orphan")
    BY <1>1, ConcatProperties
  <2>3. PICK c \in Seq(S) : c = b \o OnBoth("matrix")
    BY <1>1, ConcatProperties
  <2>4. c \o last \in Seq(S)
    BY <1>1, ConcatProperties
  <2> QED
    BY <2>1, <2>2, <2>3, <2>4 DEF Pass, last
<1>3. \A k \in DOMAIN Pass(published) : Pass(published)[k] \in S
  <2> HIDE DEF S
  <2> QED
    BY <1>2, LenProperties
<1>4. Pass(published) \in Seq(Step)
  <2>1. S \subseteq Step
    BY DEF Step
  <2>2. /\ DOMAIN Pass(published) = 1..Len(Pass(published))
        /\ Len(Pass(published)) \in Nat
        /\ Pass(published) = [i \in 1..Len(Pass(published)) |-> Pass(published)[i]]
    <3> HIDE DEF S
    <3>1. Pass(published) \in [1..Len(Pass(published)) -> S]
      BY <1>2, LenProperties
    <3> QED
      BY <1>2, <3>1, LenProperties
  <2>3. Pass(published) \in [1..Len(Pass(published)) -> Step]
    <3> HIDE DEF S
    <3> QED
      BY <1>3, <2>1, <2>2
  <2> QED
    BY <2>2, <2>3
<1> QED
  BY <1>3, <1>4

\* a job takes the lock: only the list of what it has to do is new
LEMMA TakenStep ==
    ASSUME IInv, holder = Nothing,
           NEW by \in {"request", "route", "task", "loop", "reconf"},
           NEW slot \in Nat, NEW stages \in Seq(Step),
           holder' = Job(by, slot, stages),
           UNCHANGED <<lotVars, unrecorded, crossed, mishaps, gateway>>,
           Rest', RequestHasLoop', reqs' \in [Slots -> Req], IReqs',
           \A k \in DOMAIN stages : TodoFits(stages[k], Job(by, slot, stages)),
           by # "reconf" => gateway,
           by = "request" => slot \in Slots /\ reqs'[slot].at = "runs",
           ~gateway => \A l \in Lots : \E k \in DOMAIN stages : stages[k].lot = l
    PROVE  IInv'
<1>1. PICK job : job = Job(by, slot, stages)
  OBVIOUS
<1>2. /\ job \in JobRow /\ job # Nothing
      /\ job.by = by /\ job.slot = slot /\ job.todo = stages
      /\ job.work = Nothing /\ job.at = "load" /\ holder' = job
  BY <1>1, JobIs
<1>3. StoreTypeOK'
  BY <1>2 DEF IInv, StoreTypeOK, Rest, lotVars
<1>4. ~Working /\ ~Working'
  BY <1>2 DEF Working
<1>5. IRows' /\ IBound' /\ IWork' /\ IOn' /\ IPrice' /\ ICount'
  <2>1. EffectLost
    BY <1>4 DEF EffectLost
  <2> QED
    BY <1>4, <2>1, IdleStep DEF IInv, StoreTypeOK, NothingSent, IWork
<1>6. IJob'
  <2>1. rows' = rows /\ gateway' = gateway
    BY DEF lotVars
  <2>2. \A k \in DOMAIN stages : TodoFits(stages[k], job)
    BY <1>1
  <2> QED
    BY <1>2, <2>1, <2>2 DEF IJob, TodoFits
<1>7. IMark'
  <2>1. \A id \in DOMAIN offers : offers[id].lot \in Lots
    <3>1. \A id \in DOMAIN offers : offers[id] \in Offer
      BY LenProperties DEF IInv, StoreTypeOK
    <3> QED
      BY <3>1 DEF Offer
  <2>2. rows' = rows /\ offers' = offers /\ gateway' = gateway
    BY DEF lotVars
  <2> QED
    BY <1>2, <2>1, <2>2 DEF IInv, ISound, IMark, Waits
<1> QED
  BY <1>3, <1>5, <1>6, <1>7 DEF IInv, ISound

\* what the steps of the shop leave to the loop and the routes is typed
LEMMA RestKept ==
    ASSUME IInv PROVE Rest
BY DEF IInv, StoreTypeOK, Rest

\* the scheduler's pass takes the lock
LEMMA TaskLotAutoInv ==
    ASSUME IInv, TaskLotAuto PROVE IInv'
<1>1. Pass(FALSE) \in Seq(Step)
      /\ \A k \in DOMAIN Pass(FALSE) : Pass(FALSE)[k].stage \in Stages
  BY PassIs
<1>2. \A k \in DOMAIN Pass(FALSE) :
        TodoFits(Pass(FALSE)[k], Job("task", 0, Pass(FALSE)))
  BY <1>1, JobIs DEF TodoFits
<1>3. /\ Rest' /\ RequestHasLoop'
      /\ reqs' \in [Slots -> Req] /\ IReqs'
      /\ UNCHANGED <<lotVars, unrecorded, crossed, mishaps, gateway>>
  BY RestKept DEF TaskLotAuto, Quiet, IInv, ISound, StoreTypeOK, Rest, configVars,
     loopVars, RequestHasLoop, IReqs, ReqFits, lotVars
<1>4. gateway /\ holder = Nothing /\ holder' = Job("task", 0, Pass(FALSE))
  BY DEF TaskLotAuto, Takes
<1> QED
  BY <1>1, <1>2, <1>3, <1>4, TakenStep

\* the loop's pass takes the lock, or fails without a transport
LEMMA LoopReconcilesInv ==
    ASSUME IInv, LoopReconciles PROVE IInv'
<1>1. CASE gateway
  <2>1. /\ Pass(FALSE) \in Seq(Step)
        /\ \A k \in DOMAIN Pass(FALSE) : Pass(FALSE)[k].stage \in Stages
    BY PassIs
  <2>2. \A k \in DOMAIN Pass(FALSE) :
           TodoFits(Pass(FALSE)[k], Job("loop", 0, Pass(FALSE)))
    BY <2>1, JobIs DEF TodoFits
  <2>3. /\ Rest' /\ RequestHasLoop'
        /\ reqs' \in [Slots -> Req] /\ IReqs'
        /\ UNCHANGED <<lotVars, unrecorded, crossed, mishaps, gateway>>
    BY <1>1, RestKept DEF LoopReconciles, IInv, ISound, StoreTypeOK, Rest,
       configVars, loopVars, RequestHasLoop, IReqs, ReqFits, lotVars
  <2>4. holder = Nothing /\ holder' = Job("loop", 0, Pass(FALSE))
    BY <1>1 DEF LoopReconciles, Takes
  <2> QED
    BY <1>1, <2>1, <2>2, <2>3, <2>4, TakenStep
<1>2. CASE ~gateway
  <2>1. /\ UNCHANGED <<lotVars, holder, reqs, unrecorded, crossed, mishaps>>
        /\ gateway' = gateway
        /\ Rest' /\ RequestHasLoop'
    BY <1>2, RestKept DEF LoopReconciles, PassEnds, Rest, configVars,
       RequestHasLoop, lotVars
  <2> QED
    BY <2>1, WorldStep
<1> QED
  BY <1>1, <1>2

\* the pass of a configuration route takes the lock, or is lost
LEMMA RouteReconcilesInv ==
    ASSUME IInv, RouteReconciles PROVE IInv'
<1>1. CASE gateway
  <2>1. PICK p \in BOOLEAN : p = (due = "published")
    OBVIOUS
  <2>2. /\ Pass(p) \in Seq(Step)
        /\ \A k \in DOMAIN Pass(p) : Pass(p)[k].stage \in Stages
    BY PassIs
  <2>3. \A k \in DOMAIN Pass(p) : TodoFits(Pass(p)[k], Job("route", 0, Pass(p)))
    BY <2>2, JobIs DEF TodoFits
  <2>4. /\ Rest' /\ RequestHasLoop'
        /\ reqs' \in [Slots -> Req] /\ IReqs'
        /\ UNCHANGED <<lotVars, unrecorded, crossed, mishaps, gateway>>
    BY <1>1, RestKept DEF RouteReconciles, IInv, ISound, StoreTypeOK, Rest,
       configVars, loopVars, RequestHasLoop, IReqs, ReqFits, lotVars
  <2>5. holder = Nothing /\ holder' = Job("route", 0, Pass(p))
    BY <1>1, <2>1 DEF RouteReconciles, Takes
  <2> QED
    BY <1>1, <2>2, <2>3, <2>4, <2>5, TakenStep
<1>2. CASE ~gateway
  <2>1. /\ UNCHANGED <<lotVars, holder, reqs, unrecorded, crossed, mishaps>>
        /\ gateway' = gateway
        /\ Rest' /\ RequestHasLoop'
    BY <1>2, RestKept DEF RouteReconciles, IInv, Rest, configVars, loopVars,
       RequestHasLoop, lotVars
  <2> QED
    BY <2>1, WorldStep
<1> QED
  BY <1>1, <1>2

\* a new transport: whoever connects comes to every lot's marker
LEMMA ReconfigureInv ==
    ASSUME IInv, Reconfigure PROVE IInv'
<1> DEFINE stages == OnBoth("marker")
<1>1. /\ stages \in Seq([stage : Stages, lot : Lots]) /\ DOMAIN stages = 1..2
      /\ \A k \in DOMAIN stages : stages[k].stage = "marker"
      /\ \A l \in Lots : \E k \in DOMAIN stages : stages[k].lot = l
  <2>1. "marker" \in Stages
    BY DEF Stages
  <2>2. /\ stages \in Seq([stage : Stages, lot : Lots]) /\ DOMAIN stages = 1..2
        /\ stages[1].stage = "marker" /\ stages[2].stage = "marker"
        /\ \A l \in Lots : \E k \in 1..2 : stages[k].lot = l
    BY <2>1, StagesAreSteps
  <2> HIDE DEF stages
  <2>3. \A k \in 1..2 : k = 1 \/ k = 2
    OBVIOUS
  <2> QED
    BY <2>2, <2>3
<1>2. stages \in Seq(Step)
  BY DEF OnBoth, Step, Stages, Lots
<1>3. /\ Rest' /\ RequestHasLoop'
      /\ reqs' \in [Slots -> Req] /\ IReqs'
      /\ UNCHANGED <<lotVars, unrecorded, crossed, mishaps, gateway>>
  BY RestKept DEF Reconfigure, Changing, IInv, ISound, StoreTypeOK, Rest,
     configVars, loopVars, RequestHasLoop, IReqs, ReqFits, lotVars
<1>4. holder = Nothing /\ holder' = Job("reconf", 0, stages)
  BY DEF Reconfigure, Takes
<1> HIDE DEF stages
<1>5. \A k \in DOMAIN stages : TodoFits(stages[k], Job("reconf", 0, stages))
  BY <1>1, <1>2, JobIs DEF TodoFits, Stages
<1> QED
  BY <1>1, <1>2, <1>3, <1>4, <1>5, TakenStep

\* a request takes the lock, or fails without a transport
LEMMA RequestRunsInv ==
    ASSUME IInv, NEW i \in Slots, RequestRuns(i) PROVE IInv'
<1> DEFINE req == reqs[i]
<1>1. /\ req \in Req /\ ReqFits(req) /\ req.at \in Requests
      /\ req.at \notin {"idle", "done"}
  BY DEF IInv, ISound, StoreTypeOK, IReqs, RequestRuns, Requests
<1>2. req.lot \in Lots /\ rows[req.lot].status # "absent"
      /\ (req.at = "delete" => req.lot = ManualLot)
  BY <1>1 DEF ReqFits
<1>3. /\ UNCHANGED <<lotVars, unrecorded, crossed, mishaps, gateway>>
      /\ Rest' /\ RequestHasLoop' /\ holder = Nothing /\ rows' = rows
  BY RestKept DEF RequestRuns, Quiet, IInv, Rest, configVars, loopVars,
     RequestHasLoop, lotVars
<1>4. reqs \in [Slots -> Req] /\ IReqs
  BY DEF IInv, ISound, StoreTypeOK
<1>5. CASE gateway
  <2> DEFINE stages == <<[stage |-> req.at, lot |-> req.lot]>>
  <2>1. PICK q : q = [req EXCEPT !.at = "runs"]
    OBVIOUS
  <2>2. /\ q \in Req /\ q.at = "runs" /\ q.kind = req.kind /\ q.lot = req.lot
    <3>1. PICK r \in Req : r = req
      BY <1>1
    <3>2. q = [r EXCEPT !.at = "runs"]
      BY <2>1, <3>1
    <3> QED
      BY <3>1, <3>2 DEF Req
  <2>3. ReqFits(q)
    BY <1>1, <1>2, <2>2 DEF ReqFits
  <2>4. reqs' = [reqs EXCEPT ![i] = q] /\ holder' = Job("request", i, stages)
    BY <1>5, <2>1 DEF RequestRuns, Takes
  <2>5. reqs' \in [Slots -> Req] /\ IReqs' /\ reqs'[i] = q
    BY <1>3, <1>4, <2>2, <2>3, <2>4, ReqStep
  <2>6. /\ stages \in Seq(Step) /\ DOMAIN stages = {1}
        /\ stages[1].stage = req.at /\ stages[1].lot = req.lot
    <3>1. [stage |-> req.at, lot |-> req.lot] \in Step
      BY <1>1, <1>2 DEF Step
    <3> QED
      BY <3>1
  <2> HIDE DEF stages
  <2>7. i \in Nat
    BY DEF Slots
  <2>8. \A k \in DOMAIN stages : TodoFits(stages[k], Job("request", i, stages))
    BY <1>1, <1>2, <2>6, <2>7, JobIs DEF TodoFits
  <2> QED
    BY <1>3, <1>5, <2>2, <2>4, <2>5, <2>6, <2>7, <2>8, TakenStep
<1>6. CASE ~gateway
  <2>1. PICK q : q = AfterFailure(req)
    OBVIOUS
  <2>2. q \in Req /\ ReqFits(q)
    BY <1>1, <2>1, ReqFailed
  <2>3. reqs' = [reqs EXCEPT ![i] = q] /\ holder' = holder
    BY <1>6, <2>1 DEF RequestRuns
  <2> QED
    BY <1>1, <1>3, <1>4, <2>2, <2>3, AskingStep DEF Requests
<1> QED
  BY <1>5, <1>6

-----------------------------------------------------------------------------
(* The world *)

\* capacity, settings, the transport and the loop touch no lot and no offer
LEMMA WorldInv ==
    ASSUME IInv,
           \/ CapacityChanges \/ CapacityDrifts \/ CatalogSaved \/ PricesSaved
           \/ TemplatesSaved \/ MessagesSaved \/ Disconnect
           \/ LoopTop /\ UNCHANGED <<lotVars, configVars, holder, reqs, due,
                                     changes, mishaps, unrecorded, crossed,
                                     forgotten, lapsed>>
    PROVE  IInv'
<1>1. Rest /\ RequestHasLoop
  BY RestKept DEF IInv
<1>2. CASE CapacityChanges
  <2>1. /\ UNCHANGED <<lotVars, holder, reqs, unrecorded, crossed, mishaps>>
        /\ gateway' = gateway
        /\ Rest' /\ RequestHasLoop'
    BY <1>1, <1>2 DEF CapacityChanges, Changing, Request, Spawned, Rest,
       RequestHasLoop, lotVars
  <2> QED
    BY <2>1, WorldStep
<1>6. CASE CapacityDrifts
  <2>1. /\ UNCHANGED <<lotVars, holder, reqs, unrecorded, crossed, mishaps>>
        /\ gateway' = gateway
        /\ Rest' /\ RequestHasLoop'
    BY <1>1, <1>6 DEF CapacityDrifts, Changing, Rest, RequestHasLoop, lotVars, loopVars
  <2> QED
    BY <2>1, WorldStep
<1>3. CASE CatalogSaved \/ PricesSaved \/ TemplatesSaved \/ MessagesSaved
  <2>1. price' \in Editions \cup {0, Nothing} /\ offered' \in BOOLEAN
    BY <1>1, <1>3 DEF CatalogSaved, PricesSaved, TemplatesSaved, MessagesSaved, Rest
  <2>2. \E pass \in {"plain", "published"} : Saving(pass)
    BY <1>3 DEF CatalogSaved, PricesSaved, TemplatesSaved, MessagesSaved
  <2>3. /\ UNCHANGED <<lotVars, holder, reqs, unrecorded, crossed, mishaps>>
        /\ gateway' = gateway
        /\ Rest' /\ RequestHasLoop'
    BY <1>1, <2>1, <2>2 DEF Saving, Changing, Rest, RequestHasLoop, lotVars, loopVars
  <2> QED
    BY <2>3, WorldStep
<1>4. CASE Disconnect
  <2>1. /\ UNCHANGED <<lotVars, holder, reqs, unrecorded, crossed, mishaps>>
        /\ holder = Nothing /\ gateway' = FALSE
    BY <1>4 DEF Disconnect, Disconnected, lotVars
  <2>2. Rest'
    <3>1. gateway' \in BOOLEAN
      BY <2>1
    <3>2. changes' = changes + 1
      BY <1>4 DEF Disconnect, Changing
    <3>3. UNCHANGED <<cap, offered, price, dirty, loop, due, forgotten, lapsed>>
      BY <1>4 DEF Disconnect, Disconnected, configVars
    <3> QED
      BY <1>1, <3>1, <3>3, <3>2 DEF Rest
  <2>3. RequestHasLoop'
    BY <2>1 DEF RequestHasLoop
  <2> QED
    BY <2>1, <2>2, <2>3, WorldStep
<1>5. CASE LoopTop /\ UNCHANGED <<lotVars, configVars, holder, reqs, due,
                                  changes, mishaps, unrecorded, crossed,
                                  forgotten, lapsed>>
  <2>1. /\ UNCHANGED <<lotVars, holder, reqs, unrecorded, crossed, mishaps>>
        /\ gateway' = gateway
        /\ Rest' /\ RequestHasLoop'
    BY <1>1, <1>5 DEF LoopTop, Rest, RequestHasLoop, lotVars, configVars
  <2> QED
    BY <2>1, WorldStep
<1> QED
  BY <1>2, <1>3, <1>4, <1>5, <1>6

-----------------------------------------------------------------------------
(* What routes write outside the lock *)

\* A route writes no offer, wording or marker and no legacy row; where the row is
\* on sale or in a job's hands, the lot is crossed.
LEMMA OutsideStep ==
    ASSUME IInv, NEW lot \in Lots, NEW new \in Row,
           rows' = [rows EXCEPT ![lot] = new],
           UNCHANGED <<offers, holder, unrecorded, mishaps, gateway>>,
           new.offer = rows[lot].offer, new.marked = rows[lot].marked,
           new.text = rows[lot].text, ~Legacy(rows[lot]),
           RowFits(lot, new), new.status # "absent",
           crossed' \in {crossed, crossed \cup {lot}},
           lot \in crossed' \/ (rows[lot].status # "active" /\ ~On(lot)),
           NEW i \in Slots, NEW q \in Req, reqs' = [reqs EXCEPT ![i] = q],
           ReqFits(q)',
           holder # Nothing /\ holder.by = "request" =>
              q.at = "runs" \/ holder.slot # i,
           Rest', RequestHasLoop'
    PROVE  IInv'
<1>1. /\ rows \in [Lots -> Row] /\ rows'[lot] = new
      /\ \A l \in Lots : l # lot => rows'[l] = rows[l]
      /\ rows' \in [Lots -> Row]
  BY DEF IInv, StoreTypeOK
<1>2. /\ reqs \in [Slots -> Req] /\ reqs' \in [Slots -> Req] /\ reqs'[i] = q
      /\ \A j \in Slots : j # i => reqs'[j] = reqs[j]
  BY DEF IInv, StoreTypeOK
<1>3. \A l \in Lots : /\ rows'[l].offer = rows[l].offer
                      /\ rows'[l].marked = rows[l].marked
                      /\ rows'[l].text = rows[l].text
                      /\ rows[l].status # "absent" => rows'[l].status # "absent"
  BY <1>1
<1>4. \A id \in DOMAIN offers : offers[id].lot \in Lots
  <2>1. \A id \in DOMAIN offers : offers[id] \in Offer
    BY LenProperties DEF IInv, StoreTypeOK
  <2> QED
    BY <2>1 DEF Offer
<1>5. StoreTypeOK'
  BY <1>1, <1>2, <1>3 DEF IInv, StoreTypeOK, Rest, Bound
<1>6. IRows' /\ IBound'
  BY <1>1, <1>3 DEF IInv, ISound, IRows, IBound, Bound
<1>7. IReqs'
  <2> SUFFICES ASSUME NEW j \in Slots PROVE ReqFits(reqs[j])'
    BY DEF IReqs
  <2>1. CASE j = i
    <3>1. reqs'[j] = q
      BY <2>1, <1>2
    <3>2. ReqFits(q)'
      OBVIOUS
    <3> QED
      BY <3>1, <3>2 DEF ReqFits
  <2>2. CASE j # i
    <3>1. reqs'[j] = reqs[j] /\ reqs[j] \in Req /\ ReqFits(reqs[j])
      BY <2>2, <1>2 DEF IInv, ISound, IReqs
    <3>2. reqs[j].lot \in Lots => Legacy(rows'[reqs[j].lot]) = Legacy(rows[reqs[j].lot])
      BY <1>3 DEF Legacy, Bound
    <3>3. ManualLot \in Lots /\ Legacy(rows'[ManualLot]) = Legacy(rows[ManualLot])
      BY <1>3 DEF Legacy, Bound, Lots
    <3> QED
      BY <3>1, <3>2, <3>3, <1>3 DEF ReqFits
  <2> QED
    BY <2>1, <2>2
<1>8. IJob'
  <2> SUFFICES ASSUME holder # Nothing
               PROVE  /\ holder.at = "load" <=> holder.work = Nothing
                      /\ holder.by # "reconf" => gateway
                      /\ \A k \in DOMAIN holder.todo : TodoFits(holder.todo[k], holder)'
                      /\ holder.by = "request" => /\ holder.slot \in Slots
                                                  /\ reqs'[holder.slot].at = "runs"
    BY DEF IJob
  <2>1. /\ holder.at = "load" <=> holder.work = Nothing
        /\ holder.by # "reconf" => gateway
        /\ holder.by = "request" => /\ holder.slot \in Slots
                                    /\ reqs[holder.slot].at = "runs"
    BY DEF IInv, ISound, IJob
  <2>2. holder.by = "request" => reqs'[holder.slot].at = "runs"
    BY <1>2, <2>1
  <2>3. ASSUME NEW k \in DOMAIN holder.todo PROVE TodoFits(holder.todo[k], holder)'
    <3>1. TodoFits(holder.todo[k], holder) /\ holder.todo[k] \in Step
      BY LenProperties DEF IInv, ISound, IJob, StoreTypeOK, JobRow
    <3>2. holder.todo[k].lot \in Lots
      BY <3>1 DEF Step
    <3> QED
      BY <1>3, <3>1, <3>2 DEF TodoFits
  <2> QED
    BY <2>1, <2>2, <2>3
<1>9. IWork'
  <2> SUFFICES ASSUME Working, Working'
               PROVE  Matches(holder.work, rows[holder.work.lot])'
    BY DEF IInv, ISound, IWork, Sent, Working
  <2> DEFINE w == holder.work
  <2>1. holder \in JobRow /\ w \in WorkRow /\ w.lot \in Lots
    <3>1. holder \in JobRow /\ w # Nothing
      BY DEF IInv, ISound, IJob, StoreTypeOK, Working
    <3> QED
      BY <3>1 DEF JobRow, WorkRow
  <2>2. Matches(w, rows[w.lot])
    BY DEF IInv, ISound, IWork
  <2>3. CASE w.lot = lot
    <3>1. On(lot)
      BY <2>3 DEF On
    <3>2. lot \in crossed'
      BY <3>1
    <3>3. ~Legacy(w.old)
      BY <2>2, <2>3 DEF Matches, Legacy, Bound
    <3> QED
      BY <1>1, <2>2, <2>3, <3>2, <3>3 DEF Matches
  <2>4. CASE w.lot # lot
    BY <1>1, <2>1, <2>2, <2>4 DEF Matches
  <2> QED
    BY <2>3, <2>4
<1>10. IOn'
  <2> SUFFICES ASSUME NEW id \in DOMAIN offers, offers[id].on,
                      offers[id].lot \notin unrecorded \cup crossed'
               PROVE  \/ /\ rows'[offers[id].lot].offer = id
                         /\ rows'[offers[id].lot].status = "active"
                      \/ Selling(offers[id].lot, id)
    BY DEF IOn, Lost, Selling, On, Working
  <2>1. \/ rows[offers[id].lot].offer = id /\ rows[offers[id].lot].status = "active"
        \/ Selling(offers[id].lot, id)
    BY DEF IInv, ISound, IOn, Lost
  <2>2. CASE offers[id].lot = lot
    BY <2>1, <2>2 DEF Selling
  <2>3. CASE offers[id].lot # lot
    BY <1>1, <1>4, <2>1, <2>3
  <2> QED
    BY <2>2, <2>3
<1>11. IPrice'
  BY <1>3 DEF IInv, ISound, IPrice, Bound, Pending, On, Working
<1>12. IMark'
  <2> SUFFICES ASSUME NEW id \in DOMAIN offers, offers[id].on, ~offers[id].marked
               PROVE  /\ ~gateway
                      /\ rows'[offers[id].lot].offer = id
                      /\ rows'[offers[id].lot].status = "active"
                      /\ ~rows'[offers[id].lot].marked
                      /\ Waits(offers[id].lot)
    BY DEF IMark, Waits
  <2>1. /\ ~gateway
        /\ rows[offers[id].lot].offer = id
        /\ rows[offers[id].lot].status = "active"
        /\ ~rows[offers[id].lot].marked
        /\ Waits(offers[id].lot)
    BY DEF IInv, ISound, IMark
  <2>2. offers[id].lot # lot
    <3>1. id # 0
      BY LenProperties DEF IInv, StoreTypeOK
    <3> QED
      BY <2>1, <3>1 DEF Legacy, Bound
  <2> QED
    BY <1>1, <1>4, <2>1, <2>2
<1>13. ICount'
  <2>1. AutoLot \in Lots /\ ManualLot \in Lots
    BY DEF Lots
  <2>2. Has(AutoLot)' = Has(AutoLot) /\ Has(ManualLot)' = Has(ManualLot)
    BY <1>3, <2>1 DEF Has, Bound, Pending, On, Working
  <2> QED
    BY <2>2 DEF IInv, ISound, ICount
<1> QED
  BY <1>5, <1>6, <1>7, <1>8, <1>9, <1>10, <1>11, <1>12, <1>13 DEF IInv, ISound

\* what the model takes for a job in hand
LEMMA OnIsWorkingOn ==
    ASSUME IInv, NEW lot \in Lots
    PROVE  On(lot) <=> WorkingOn(lot)
BY MarkersDiffer DEF IInv, ISound, IJob, StoreTypeOK, JobRow, On, Working, WorkingOn

\* a route's own write leaves the loop and the transport alone
LEMMA QuietKept ==
    ASSUME IInv, Quiet, forgotten' = forgotten, changes' \in Nat
    PROVE  Rest' /\ RequestHasLoop' /\ gateway' = gateway /\ mishaps' = mishaps
BY RestKept DEF Quiet, Rest, IInv, RequestHasLoop, configVars, loopVars

\* a request loads its row
LEMMA RequestReadInv ==
    ASSUME IInv, NEW i \in Slots, NEW kind \in Kinds \ {"create"}, NEW lot \in Lots,
           RequestRead(i, kind, lot)
    PROVE  IInv'
<1> DEFINE q == [kind |-> kind, lot |-> lot, at |-> "read", seen |-> rows[lot]]
<1>1. /\ changes' = changes + 1 /\ reqs[i].at = "idle"
      /\ rows[lot].status # "absent" /\ (kind = "delete" => lot = ManualLot)
      /\ reqs' = [reqs EXCEPT ![i] = q]
      /\ UNCHANGED <<lotVars, holder, unrecorded, crossed, forgotten>> /\ Quiet
  BY DEF RequestRead, Arrives, Changing
<1>2. rows[lot] \in Row /\ changes' \in Nat
  BY <1>1 DEF IInv, StoreTypeOK
<1>3. q \in Req
  BY <1>2 DEF Req, Kinds
<1>4. ReqFits(q)
  BY <1>1, <1>2 DEF ReqFits, Kinds, Legacy
<1>5. Rest' /\ RequestHasLoop' /\ gateway' = gateway /\ mishaps' = mishaps
  BY <1>1, <1>2, QuietKept
<1> HIDE DEF q
<1> QED
  BY <1>1, <1>3, <1>4, <1>5, AskingStep

\* a request whose slot a job holds is not the one that acts
LEMMA NotRunning ==
    ASSUME IInv, NEW i \in Slots, reqs[i].at # "runs", holder # Nothing,
           holder.by = "request"
    PROVE  holder.slot # i
BY DEF IInv, ISound, IJob

\* a new manual lot: no row before, no offer yet
LEMMA CreateLotInv ==
    ASSUME IInv, NEW i \in Slots, CreateLot(i) PROVE IInv'
<1> DEFINE q == [kind |-> "create", lot |-> ManualLot, at |-> "publish",
                 seen |-> Nothing]
           base == [NoRow EXCEPT !.text = 1]
           new == Paused(base, "manual_pending_sync")
           row == rows[ManualLot]
<1>1. /\ changes' = changes + 1 /\ reqs[i].at = "idle"
      /\ row.status = "absent"
      /\ rows' = [rows EXCEPT ![ManualLot] = new]
      /\ reqs' = [reqs EXCEPT ![i] = q]
      /\ UNCHANGED <<offers, holder, unrecorded, crossed, forgotten>> /\ Quiet
  BY DEF CreateLot, Arrives, Changing
<1>2. ManualLot \in Lots /\ ManualLot # AutoLot
  BY LotsDiffer DEF Lots
<1>3. row = NoRow
  BY <1>1, <1>2 DEF IInv, ISound, IRows, RowFits
<1>4. base \in Row /\ base.offer = 0 /\ ~base.marked /\ base.text = 1
  BY DEF NoRow, Row, AutoReasons, Editions
<1>5. /\ new \in Row /\ new.status = "paused" /\ new.reason = "manual_pending_sync"
      /\ new.offer = 0 /\ new.marked = FALSE /\ new.text = 1
  <2> HIDE DEF base
  <2> QED
    BY <1>4, RowMade DEF HandReasons
<1>6. row.offer = 0 /\ row.marked = FALSE /\ row.text = 1
  BY <1>3 DEF NoRow
<1>7. Rest' /\ RequestHasLoop' /\ gateway' = gateway /\ mishaps' = mishaps
  <2>1. changes' \in Nat
    BY <1>1 DEF IInv, StoreTypeOK
  <2> QED
    BY <1>1, <2>1, QuietKept
<1>8. q \in Req
  BY <1>2 DEF Req, Kinds, Requests
<1> HIDE DEF new
<1>9. RowFits(ManualLot, new) /\ ~Legacy(row)
  BY <1>2, <1>5, <1>6 DEF RowFits, Legacy, Bound, OfferReasons
<1>10. rows'[ManualLot] = new
  BY <1>1, <1>2 DEF IInv, StoreTypeOK
<1>11. ReqFits(q)'
  BY <1>2, <1>5, <1>10 DEF ReqFits, Legacy, Bound
<1>12. ~On(ManualLot)
  BY <1>1, <1>2 DEF IInv, ISound, IWork, Matches, On
<1>13. holder # Nothing /\ holder.by = "request" => holder.slot # i
  BY <1>1, NotRunning
<1> HIDE DEF q
<1> QED
  BY <1>1, <1>2, <1>5, <1>6, <1>7, <1>8, <1>9, <1>11, <1>12, <1>13, OutsideStep

\* a failed publication pauses its lot
LEMMA CreateFailedInv ==
    ASSUME IInv, NEW i \in Slots, CreateFailed(i) PROVE IInv'
<1> DEFINE lot == reqs[i].lot
           row == rows[lot]
           new == Paused(row, "sync_failed")
<1>1. /\ reqs[i].at = "failed"
      /\ rows' = [rows EXCEPT ![lot] = new]
      /\ crossed' = IF row.status = "active" \/ WorkingOn(lot)
                    THEN crossed \cup {lot} ELSE crossed
      /\ reqs' = [reqs EXCEPT ![i] = Answered]
      /\ UNCHANGED <<offers, holder, unrecorded, forgotten, changes>> /\ Quiet
  BY DEF CreateFailed
<1>2. /\ lot \in Lots /\ lot = ManualLot /\ row.status # "absent"
      /\ ~Legacy(row) /\ row \in Row /\ RowFits(lot, row)
  BY <1>1 DEF IInv, ISound, StoreTypeOK, IReqs, ReqFits, IRows
<1>3. /\ new \in Row /\ new.status = "paused" /\ new.reason = "sync_failed"
      /\ new.offer = row.offer /\ new.marked = row.marked /\ new.text = row.text
  BY <1>2, RowMade DEF HandReasons
<1>4. Rest' /\ RequestHasLoop' /\ gateway' = gateway /\ mishaps' = mishaps
  <2>1. changes' \in Nat
    BY <1>1 DEF IInv, StoreTypeOK
  <2> QED
    BY <1>1, <2>1, QuietKept
<1> HIDE DEF new
<1>5. RowFits(lot, new)
  BY <1>2, <1>3 DEF RowFits, Bound, OfferReasons
<1>6. ReqFits(Answered)' /\ Answered \in Req
  BY ReqAnswered DEF ReqFits, Answered, Idle
<1>7. /\ crossed' \in {crossed, crossed \cup {lot}}
      /\ lot \in crossed' \/ (row.status # "active" /\ ~On(lot))
  BY <1>1, <1>2, OnIsWorkingOn
<1>8. holder # Nothing /\ holder.by = "request" => holder.slot # i
  BY <1>1, NotRunning
<1> QED
  BY <1>1, <1>2, <1>3, <1>4, <1>5, <1>6, <1>7, <1>8, OutsideStep

\* A route writes what it has read: the row had no offer then, and by ReqFits
\* none of an older release now.
LEMMA WriteUnboundInv ==
    ASSUME IInv, NEW i \in Slots, reqs[i].at = "read", ~Bound(reqs[i].seen),
           reqs[i].kind # "on", WriteUnbound(i),
           UNCHANGED <<offers, holder, unrecorded, forgotten, changes>>, Quiet
    PROVE  IInv'
<1> DEFINE req == reqs[i]
           lot == req.lot
           seen == req.seen
           row == rows[lot]
           del == [seen EXCEPT !.status = "deleted", !.reason = "manual_deleted"]
           changed == IF req.kind = "off" THEN Paused(seen, "manual") ELSE del
           new == Written(row, seen, changed)
<1>1. /\ rows' = [rows EXCEPT ![lot] = new]
      /\ crossed' = IF row # seen \/ WorkingOn(lot) THEN crossed \cup {lot} ELSE crossed
      /\ reqs' = [reqs EXCEPT ![i] = Answered]
  BY DEF WriteUnbound
<1>2. /\ lot \in Lots /\ row.status # "absent" /\ seen \in Row
      /\ seen.status # "absent" /\ req.kind \in {"off", "delete"}
      /\ (req.kind = "delete" => lot = ManualLot)
      /\ ~Legacy(row) /\ row \in Row /\ RowFits(lot, row)
  BY DEF IInv, ISound, StoreTypeOK, IReqs, ReqFits, IRows
<1>3. /\ del \in Row /\ del.status = "deleted" /\ del.reason = "manual_deleted"
      /\ del.offer = seen.offer /\ del.marked = seen.marked /\ del.text = seen.text
  <2>1. PICK s \in Row : s = seen
    BY <1>2
  <2>2. del = [s EXCEPT !.status = "deleted", !.reason = "manual_deleted"]
    BY <2>1
  <2> HIDE DEF del
  <2> QED
    BY <2>1, <2>2 DEF Row, HandReasons
<1> HIDE DEF del
<1>4. /\ changed \in Row
      /\ changed.status \in {"paused", "deleted"}
      /\ changed.status = "deleted" => lot = ManualLot
      /\ changed.reason \in {"manual", "manual_deleted"}
      /\ changed.offer = seen.offer /\ changed.marked = seen.marked
      /\ changed.text = seen.text
  <2>1. CASE req.kind = "off"
    <3>1. changed = Paused(seen, "manual")
      BY <2>1
    <3>2. "manual" \in AutoReasons \cup HandReasons
      BY DEF HandReasons
    <3>3. /\ Paused(seen, "manual") \in Row
          /\ Paused(seen, "manual").status = "paused"
          /\ Paused(seen, "manual").reason = "manual"
          /\ Paused(seen, "manual").offer = seen.offer
          /\ Paused(seen, "manual").marked = seen.marked
          /\ Paused(seen, "manual").text = seen.text
      BY <1>2, <3>2, RowMade
    <3> HIDE DEF changed
    <3> QED
      BY <3>1, <3>3
  <2>2. CASE req.kind = "delete"
    <3>1. changed = del
      BY <2>2
    <3> HIDE DEF changed
    <3> QED
      BY <1>2, <1>3, <2>2, <3>1
  <2> QED
    BY <1>2, <2>1, <2>2
<1> HIDE DEF changed
<1>5. /\ new \in Row
      /\ new.status \in {row.status, changed.status}
      /\ new.reason \in {row.reason, changed.reason}
      /\ new.offer = row.offer /\ new.marked = row.marked /\ new.text = row.text
  BY <1>2, <1>4, RowWritten
<1> HIDE DEF new
<1>6. Rest' /\ RequestHasLoop' /\ gateway' = gateway /\ mishaps' = mishaps
  <2>1. changes' \in Nat
    BY DEF IInv, StoreTypeOK
  <2> QED
    BY <2>1, QuietKept
<1>7. RowFits(lot, new) /\ new.status # "absent"
  <2>1. new.status \in {row.status, "paused", "deleted"}
        /\ (new.status = "deleted" => row.status = "deleted" \/ lot = ManualLot)
    BY <1>4, <1>5
  <2>2. new.reason \in {row.reason, "manual", "manual_deleted"}
    BY <1>4, <1>5
  <2> QED
    BY <1>2, <1>5, <2>1, <2>2, LotsDiffer DEF RowFits, Bound, OfferReasons
<1>8. ReqFits(Answered)' /\ Answered \in Req
  BY ReqAnswered DEF ReqFits, Answered, Idle
<1>9. /\ crossed' \in {crossed, crossed \cup {lot}}
      /\ lot \in crossed' \/ (row.status # "active" /\ ~On(lot))
  <2>1. row = seen => row.status # "active"
    BY <1>2 DEF RowFits
  <2> QED
    BY <1>1, <1>2, <2>1, OnIsWorkingOn
<1>10. holder # Nothing /\ holder.by = "request" => holder.slot # i
  BY NotRunning
<1> QED
  BY <1>1, <1>2, <1>5, <1>6, <1>7, <1>8, <1>9, <1>10, OutsideStep

\* a request goes for the lock, or writes its unbound row at once
LEMMA RequestDecidesInv ==
    ASSUME IInv, NEW i \in Slots, RequestDecides(i) PROVE IInv'
<1> DEFINE req == reqs[i]
<1>1. req \in Req /\ ReqFits(req) /\ req.at = "read"
  BY DEF IInv, ISound, StoreTypeOK, IReqs, RequestDecides
<1>2. /\ req.lot \in Lots /\ rows[req.lot].status # "absent"
      /\ req.kind \in {"on", "off", "delete"}
      /\ (req.kind = "delete" => req.lot = ManualLot)
  BY <1>1 DEF ReqFits
<1>3. /\ UNCHANGED <<offers, holder, unrecorded, forgotten, changes>> /\ Quiet
  BY DEF RequestDecides
<1>4. Rest' /\ RequestHasLoop' /\ gateway' = gateway /\ mishaps' = mishaps
  <2>1. changes' \in Nat
    BY <1>3 DEF IInv, StoreTypeOK
  <2> QED
    BY <1>3, <2>1, QuietKept
<1>5. ASSUME NEW at \in Requests, at = "delete" => req.kind = "delete",
             reqs' = [reqs EXCEPT ![i] = [req EXCEPT !.at = at, !.seen = Nothing]],
             UNCHANGED <<rows, crossed>>
      PROVE  IInv'
  <2>1. PICK q : q = [req EXCEPT !.at = at, !.seen = Nothing]
    OBVIOUS
  <2>2. q \in Req /\ q.at = at /\ q.kind = req.kind /\ q.lot = req.lot
    <3>1. PICK r \in Req : r = req
      BY <1>1
    <3>2. q = [r EXCEPT !.at = at, !.seen = Nothing]
      BY <2>1, <3>1
    <3> QED
      BY <3>1, <3>2 DEF Req
  <2>3. ReqFits(q)
    BY <1>1, <1>2, <1>5, <2>2 DEF ReqFits, Requests
  <2>4. UNCHANGED <<lotVars, holder, unrecorded, crossed, mishaps, gateway>>
    BY <1>3, <1>4, <1>5 DEF lotVars
  <2> QED
    BY <1>1, <1>4, <1>5, <2>1, <2>2, <2>3, <2>4, AskingStep
<1>6. CASE Bound(req.seen)
  <2>1. /\ reqs' = [reqs EXCEPT ![i].at = req.kind, ![i].seen = Nothing]
        /\ UNCHANGED <<rows, crossed>>
    BY <1>6 DEF RequestDecides
  <2>2. reqs' = [reqs EXCEPT ![i] = [req EXCEPT !.at = req.kind, !.seen = Nothing]]
    BY <2>1 DEF IInv, StoreTypeOK
  <2> QED
    BY <1>2, <1>5, <2>1, <2>2 DEF Requests
<1>7. CASE ~Bound(req.seen) /\ req.kind = "on"
  <2>1. /\ reqs' = [reqs EXCEPT ![i].at = "publish", ![i].seen = Nothing]
        /\ UNCHANGED <<rows, crossed>>
    BY <1>7 DEF RequestDecides
  <2>2. reqs' = [reqs EXCEPT ![i] = [req EXCEPT !.at = "publish", !.seen = Nothing]]
    BY <2>1 DEF IInv, StoreTypeOK
  <2> QED
    BY <1>5, <2>1, <2>2 DEF Requests
<1>8. CASE ~Bound(req.seen) /\ req.kind # "on"
  <2>1. WriteUnbound(i)
    BY <1>8 DEF RequestDecides
  <2> QED
    BY <1>1, <1>3, <1>8, <2>1, WriteUnboundInv
<1> QED
  BY <1>6, <1>7, <1>8

-----------------------------------------------------------------------------
(* The job under the lock *)

\* the job under the lock and its list
LEMMA HolderTyped ==
    ASSUME IInv, holder # Nothing
    PROVE  /\ holder \in JobRow
           /\ holder.todo \in Seq(Step)
           /\ DOMAIN holder.todo = 1..Len(holder.todo) /\ Len(holder.todo) \in Nat
           /\ \A k \in DOMAIN holder.todo :
                holder.todo[k] \in Step /\ holder.todo[k].lot \in Lots
<1>1. holder \in JobRow
  BY DEF IInv, StoreTypeOK
<1>2. holder.todo \in Seq(Step)
  BY <1>1 DEF JobRow
<1>3. /\ DOMAIN holder.todo = 1..Len(holder.todo) /\ Len(holder.todo) \in Nat
      /\ \A k \in DOMAIN holder.todo : holder.todo[k] \in Step
  BY <1>2, LenProperties
<1> QED
  BY <1>1, <1>2, <1>3 DEF Step

\* the work in hand
LEMMA WorkTyped ==
    ASSUME IInv, Working
    PROVE  /\ holder # Nothing /\ holder \in JobRow
           /\ holder.at \in {"call", "commit"}
           /\ holder.work \in WorkRow /\ holder.work.lot \in Lots
           /\ holder.work.old \in Row /\ holder.work.new \in Row
           /\ holder.work.on \in BOOLEAN
           /\ rows[holder.work.lot] \in Row
<1>1. /\ holder # Nothing /\ holder \in JobRow
      /\ holder.at # "load" /\ holder.work # Nothing
  BY DEF IInv, ISound, IJob, StoreTypeOK, Working
<1>2. holder.at \in {"call", "commit"} /\ holder.work \in WorkRow
  BY <1>1 DEF JobRow
<1> QED
  BY <1>1, <1>2 DEF WorkRow, IInv, StoreTypeOK

\* the offers, by id
LEMMA OffersTyped ==
    ASSUME IInv
    PROVE  /\ DOMAIN offers = 1..Len(offers) /\ Len(offers) \in Nat
           /\ \A id \in DOMAIN offers : /\ id \in Nat /\ id # 0
                                        /\ offers[id] \in Offer
                                        /\ offers[id].lot \in Lots
                                        /\ offers[id].on \in BOOLEAN
<1>1. offers \in Seq(Offer)
  BY DEF IInv, StoreTypeOK
<1>2. /\ DOMAIN offers = 1..Len(offers) /\ Len(offers) \in Nat
      /\ \A id \in DOMAIN offers : offers[id] \in Offer
  BY <1>1, LenProperties
<1> QED
  BY <1>2 DEF Offer

\* a job that has found work
LEMMA BeginIs ==
    ASSUME NEW job \in JobRow, NEW w \in WorkRow, holder = job
    PROVE  LET b == Begin(w)
           IN  /\ b \in JobRow /\ b # Nothing
               /\ b.by = job.by /\ b.slot = job.slot /\ b.todo = job.todo
               /\ b.full = job.full /\ b.work = w /\ b.work # Nothing
               /\ b.at = IF w.call = "none" THEN "commit" ELSE "call"
<1> DEFINE at == IF w.call = "none" THEN "commit" ELSE "call"
<1>1. PICK b : b = [job EXCEPT !.work = w, !.at = at]
  OBVIOUS
<1>2. at \in {"call", "commit"}
  OBVIOUS
<1> HIDE DEF at
<1>3. /\ b \in JobRow
      /\ b.by = job.by /\ b.slot = job.slot /\ b.todo = job.todo
      /\ b.full = job.full /\ b.work = w /\ b.at = at
  BY <1>1, <1>2 DEF JobRow
<1>4. b # Nothing /\ w # Nothing
  BY <1>3, MarkersDiffer
<1>5. Begin(w) = b
  BY <1>1 DEF Begin, at
<1> QED
  BY <1>3, <1>4, <1>5 DEF at

\* what is left to do begins with the step that has work
LeftFrom(rest, todo, k) ==
    /\ rest \in Seq(Step) /\ rest # << >> /\ Head(rest) = todo[k]
    /\ \A j \in DOMAIN rest : \E i \in DOMAIN todo : rest[j] = todo[i]
    /\ \A i \in DOMAIN todo : i >= k => \E j \in DOMAIN rest : rest[j] = todo[i]

\* SubSeq from the step with work is what LeftFrom says
LEMMA TodoFrom ==
    ASSUME NEW todo \in Seq(Step), NEW k \in DOMAIN todo
    PROVE  LeftFrom(SubSeq(todo, k, Len(todo)), todo, k)
<1>1. DOMAIN todo = 1..Len(todo) /\ Len(todo) \in Nat /\ todo \in [1..Len(todo) -> Step]
  BY LenProperties
<1>2. PICK n \in Nat : n = Len(todo) /\ k \in 1..n
  BY <1>1
<1>3. PICK rest : rest = SubSeq(todo, k, n)
  OBVIOUS
<1>4. /\ rest \in Seq(Step) /\ Len(rest) = n - k + 1
      /\ \A i \in 1..(n - k + 1) : rest[i] = todo[k + i - 1]
  BY <1>1, <1>2, <1>3, SubSeqProperties
<1>5. DOMAIN rest = 1..(n - k + 1)
  BY <1>4, LenProperties
<1>6. rest # << >> /\ Head(rest) = todo[k]
  <2>1. 1 \in 1..(n - k + 1) /\ k + 1 - 1 = k
    BY <1>1, <1>2
  <2>2. rest # << >> /\ Head(rest) = rest[1]
    BY <2>1, <1>4, <1>5
  <2> QED
    BY <2>1, <2>2, <1>4
<1>7. \A j \in DOMAIN rest : \E i \in DOMAIN todo : rest[j] = todo[i]
  <2> SUFFICES ASSUME NEW j \in DOMAIN rest
               PROVE  \E i \in DOMAIN todo : rest[j] = todo[i]
    OBVIOUS
  <2>1. k + j - 1 \in DOMAIN todo /\ rest[j] = todo[k + j - 1]
    BY <1>1, <1>2, <1>4, <1>5
  <2> QED
    BY <2>1
<1>8. \A i \in DOMAIN todo : i >= k => \E j \in DOMAIN rest : rest[j] = todo[i]
  <2> SUFFICES ASSUME NEW i \in DOMAIN todo, i >= k
               PROVE  \E j \in DOMAIN rest : rest[j] = todo[i]
    OBVIOUS
  <2>1. i - k + 1 \in DOMAIN rest /\ rest[i - k + 1] = todo[i]
    BY <1>1, <1>2, <1>4, <1>5
  <2> QED
    BY <2>1
<1> QED
  BY <1>2, <1>3, <1>4, <1>6, <1>7, <1>8 DEF LeftFrom

\* what a step of the job at "load" leads to
LEMMA StepBegins ==
    ASSUME IInv, holder # Nothing, NEW k \in DOMAIN holder.todo,
           NEW w \in StageOf(holder.todo[k])
    PROVE  /\ Begun(w, holder.todo[k].lot, holder.by = "request")
           /\ rows[holder.todo[k].lot].status = "absent" => holder.todo[k].lot = AutoLot
<1> DEFINE step == holder.todo[k]
<1>1. /\ TodoFits(step, holder) /\ step \in Step /\ step.lot \in Lots
  BY HolderTyped DEF IInv, ISound, IJob
<1>2. /\ rows[step.lot] \in Row /\ RowFits(step.lot, rows[step.lot])
      /\ price \in Editions \cup {0, Nothing}
  BY <1>1 DEF IInv, ISound, IRows, StoreTypeOK
<1>3. Stages \cap Requests = {}
  BY DEF Stages, Requests
<1>4. CASE holder.by = "request"
  <2>1. /\ step.stage \in Requests /\ step.stage \notin Stages
        /\ rows[step.lot].status # "absent"
        /\ (step.stage = "delete" => step.lot = ManualLot)
    BY <1>1, <1>3, <1>4 DEF TodoFits
  <2>2. w \in RequestWork(step.stage, step.lot)
    BY <2>1 DEF StageOf
  <2>3. Begun(w, step.lot, TRUE)
    BY <1>1, <1>2, <2>1, <2>2, RequestFits
  <2> QED
    BY <1>4, <2>1, <2>3
<1>5. CASE holder.by # "request"
  <2>1. step.stage \in Stages
    BY <1>1, <1>5 DEF TodoFits
  <2>2. w \in StageWork(step.stage, step.lot, holder.by = "loop", holder.full)
    BY <2>1 DEF StageOf
  <2>3. /\ Begun(w, step.lot, FALSE)
        /\ rows[step.lot].status = "absent" => step.lot = AutoLot
    BY <1>1, <1>2, <2>1, <2>2, StageFits
  <2> QED
    BY <1>5, <2>3
<1> QED
  BY <1>4, <1>5

\* The marker stage has work for a lot that sells without its marker; whoever
\* connects comes to every such lot.
LEMMA MarkerHasWork ==
    ASSUME IInv, holder # Nothing, NEW id \in DOMAIN offers, offers[id].on,
           ~offers[id].marked
    PROVE  \E k \in DOMAIN holder.todo : /\ holder.todo[k].lot = offers[id].lot
                                         /\ StageOf(holder.todo[k]) # {}
<1> DEFINE l == offers[id].lot
<1>1. /\ ~gateway /\ rows[l].offer = id /\ rows[l].status = "active"
      /\ ~rows[l].marked /\ Waits(l)
  BY DEF IInv, ISound, IMark
<1>2. PICK k \in DOMAIN holder.todo : holder.todo[k].lot = l
  BY <1>1 DEF Waits
<1>3. holder.by = "reconf" /\ TodoFits(holder.todo[k], holder)
  BY <1>1 DEF IInv, ISound, IJob
<1>4. holder.todo[k].stage = "marker"
  BY <1>3 DEF TodoFits
<1>5. MarkerApplies(l)
  BY <1>1, OffersTyped DEF MarkerApplies, Bound
<1>6. StageOf(holder.todo[k]) # {}
  <2>1. StageOf(holder.todo[k]) =
          StageWork("marker", l, holder.by = "loop", holder.full)
    BY <1>2, <1>4 DEF StageOf, Stages
  <2>2. StageWork("marker", l, holder.by = "loop", holder.full) =
          {w \in {Work(l, "save", rows[l].status = "active", rows[l], "end")} :
              MarkerApplies(l)}
    BY DEF StageWork
  <2> QED
    BY <1>5, <2>1, <2>2
<1> QED
  BY <1>2, <1>6

\* the job loads a row and has something to do for it
LEMMA LoadsWork ==
    ASSUME IInv, holder # Nothing, holder.at = "load",
           NEW k \in DOMAIN holder.todo, NEW w \in StageOf(holder.todo[k]),
           \A j \in DOMAIN holder.todo : StageOf(holder.todo[j]) # {} => k <= j,
           holder' = [Begin(w) EXCEPT
                        !.todo = SubSeq(holder.todo, k, Len(holder.todo))],
           UNCHANGED <<lotVars, configVars, loopVars, reqs, due, changes, mishaps,
                       unrecorded, crossed, forgotten>>,
           lapsed' = LooksAt(k)
    PROVE  IInv'
<1>1. PICK todo, lot, rest : /\ todo = holder.todo /\ lot = holder.todo[k].lot
                             /\ rest = SubSeq(todo, k, Len(todo))
  OBVIOUS
<1>2. todo \in Seq(Step) /\ k \in DOMAIN todo /\ lot \in Lots
  BY <1>1, HolderTyped
<1>3. /\ rest \in Seq(Step) /\ rest # << >> /\ Head(rest) = todo[k]
      /\ \A j \in DOMAIN rest : \E i \in DOMAIN todo : rest[j] = todo[i]
      /\ \A i \in DOMAIN todo : i >= k => \E j \in DOMAIN rest : rest[j] = todo[i]
  <2>1. rest = SubSeq(todo, k, Len(todo))
    BY <1>1
  <2>2. LeftFrom(rest, todo, k)
    BY <1>2, <2>1, TodoFrom
  <2> QED
    BY <2>2 DEF LeftFrom
<1>4. /\ Begun(w, lot, holder.by = "request")
      /\ rows[lot].status = "absent" => lot = AutoLot
  BY <1>1, StepBegins
<1>5. w \in WorkRow
  BY <1>4 DEF Begun
<1>6. PICK b : b = Begin(w)
  OBVIOUS
<1>7. /\ b \in JobRow /\ b.by = holder.by /\ b.slot = holder.slot
      /\ b.work = w /\ w # Nothing
      /\ b.at = IF w.call = "none" THEN "commit" ELSE "call"
  BY <1>5, <1>6, BeginIs, HolderTyped
<1>8. PICK h : h = holder'
  OBVIOUS
<1>9. /\ h \in JobRow /\ h.by = holder.by /\ h.slot = holder.slot
      /\ h.work = w /\ w # Nothing /\ h.todo = rest
      /\ h.at = IF w.call = "none" THEN "commit" ELSE "call"
  <2>1. h = [b EXCEPT !.todo = rest]
    BY <1>1, <1>6, <1>8
  <2> QED
    BY <1>3, <1>7, <2>1 DEF JobRow
<1>10. h # Nothing /\ holder' = h
  BY <1>8, <1>9, MarkersDiffer
<1>11. Working' /\ ~Working
  BY <1>9, <1>10 DEF Working
<1>12. rows' = rows /\ offers' = offers /\ crossed' = crossed /\ gateway' = gateway
  BY DEF lotVars, loopVars
<1>13. StoreTypeOK' /\ RequestHasLoop'
  <2>1. lapsed' \in {"no", "yes", "seen"}
    BY RestKept, LapseTyped DEF Rest
  <2> QED
    BY <1>9, <1>10, <2>1
    DEF IInv, StoreTypeOK, RequestHasLoop, lotVars, configVars, loopVars
<1>14. IRows' /\ IBound' /\ IOn' /\ IPrice' /\ ICount'
  <2>1. NothingSent'
    BY <1>4, <1>9, <1>10 DEF NothingSent, Begun, WorkFits
  <2>2. EffectLost
    BY <1>11 DEF EffectLost
  <2> QED
    BY <2>1, <2>2, IdleStep DEF IInv, StoreTypeOK
<1>15. IReqs'
  BY <1>12 DEF IInv, ISound, IReqs, ReqFits
<1>16. IJob'
  <2>1. \A j \in DOMAIN rest : TodoFits(rest[j], holder)
    BY <1>1, <1>3 DEF IInv, ISound, IJob
  <2>2. \A j \in DOMAIN rest : TodoFits(rest[j], h)
    BY <1>9, <2>1 DEF TodoFits
  <2>3. /\ h.at # "load"
        /\ h.by # "reconf" => gateway
        /\ h.by = "request" => h.slot \in Slots /\ reqs[h.slot].at = "runs"
    BY <1>9 DEF IInv, ISound, IJob
  <2>4. \A j \in DOMAIN rest : TodoFits(rest[j], h)'
    BY <1>12, <2>2 DEF TodoFits
  <2>5. /\ h.at = "load" <=> h.work = Nothing
        /\ h.by # "reconf" => gateway'
        /\ h.by = "request" => h.slot \in Slots /\ reqs'[h.slot].at = "runs"
    BY <1>9, <1>12, <2>3
  <2> QED
    BY <1>9, <1>10, <2>4, <2>5 DEF IJob
<1>17. IWork'
  <2>1. /\ WorkFits(w, h.by = "request")
        /\ w.lot = lot /\ w.old = rows[lot]
        /\ w.new.offer = w.old.offer /\ w.new.marked = w.old.marked
    BY <1>4, <1>9 DEF Begun
  <2>2. Matches(w, rows[lot])
    BY <1>4, <2>1 DEF Matches
  <2>3. Matches(w, rows[lot])'
    BY <1>12, <2>2 DEF Matches
  <2>4. h.at = "call" => Unsent(w)
    BY <1>9, <2>1 DEF Unsent
  <2>5. h.at = "commit" => Sent(w)'
    BY <1>9 DEF Sent
  <2>6. rest # << >> /\ Head(rest).lot = lot
    BY <1>1, <1>3
  <2> QED
    BY <1>9, <1>10, <2>1, <2>3, <2>4, <2>5, <2>6 DEF IWork
<1>18. IMark'
  <2>1. ASSUME NEW id \in DOMAIN offers, offers[id].on, ~offers[id].marked
        PROVE  \E j \in DOMAIN rest : rest[j].lot = offers[id].lot
    <3>1. PICK i \in DOMAIN holder.todo : /\ holder.todo[i].lot = offers[id].lot
                                          /\ StageOf(holder.todo[i]) # {}
      BY <2>1, MarkerHasWork
    <3>2. i >= k /\ i \in DOMAIN todo
      BY <1>1, <3>1, HolderTyped
    <3>3. PICK j \in DOMAIN rest : rest[j] = todo[i]
      BY <1>3, <3>2
    <3> QED
      BY <1>1, <3>1, <3>3
  <2> SUFFICES ASSUME NEW id \in DOMAIN offers', offers'[id].on, ~offers'[id].marked
               PROVE  /\ ~gateway'
                      /\ rows'[offers'[id].lot].offer = id
                      /\ rows'[offers'[id].lot].status = "active"
                      /\ ~rows'[offers'[id].lot].marked
                      /\ \E j \in DOMAIN holder'.todo :
                            holder'.todo[j].lot = offers'[id].lot
    BY DEF IMark, Waits
  <2>2. id \in DOMAIN offers /\ offers[id].on /\ ~offers[id].marked
    BY <1>12
  <2>3. /\ ~gateway /\ rows[offers[id].lot].offer = id
        /\ rows[offers[id].lot].status = "active"
        /\ ~rows[offers[id].lot].marked
    BY <2>2 DEF IInv, ISound, IMark
  <2>4. \E j \in DOMAIN rest : rest[j].lot = offers[id].lot
    BY <2>1, <2>2
  <2>5. \E j \in DOMAIN h.todo : h.todo[j].lot = offers[id].lot
    BY <1>9, <2>4
  <2> QED
    BY <1>10, <1>12, <2>3, <2>5
<1> QED
  BY <1>13, <1>14, <1>15, <1>16, <1>17, <1>18 DEF IInv, ISound

\* the job is over, however it ends
NoneUnmarked == \A id \in DOMAIN offers : offers[id].on => offers[id].marked

\* A job that is over, however it ended: no invariant speaks of it any more, so
\* what was sent and not recorded must have been counted as lost.
LEMMA JobEnds ==
    ASSUME IInv, holder' = Nothing, UNCHANGED <<lotVars, crossed>>,
           unrecorded \subseteq unrecorded', unrecorded' \subseteq Lots,
           mishaps' \in {mishaps, mishaps + 1}, mishaps' \in 0..MaxMishaps,
           EffectLost, reqs' \in [Slots -> Req], IReqs', Rest', RequestHasLoop',
           gateway' => gateway \/ NoneUnmarked
    PROVE  IInv'
<1>1. StoreTypeOK'
  BY DEF IInv, StoreTypeOK, Rest, lotVars
<1>2. IRows' /\ IBound' /\ IOn' /\ IPrice' /\ ICount'
  <2>1. NothingSent'
    BY DEF NothingSent, Working
  <2> QED
    BY <2>1, IdleStep
<1>3. IJob' /\ IWork'
  BY DEF IJob, IWork, Working
<1>4. IMark'
  <2>1. offers' = offers /\ rows' = rows
    BY DEF lotVars
  <2> SUFFICES ASSUME NEW id \in DOMAIN offers, offers[id].on, ~offers[id].marked
               PROVE  /\ ~gateway'
                      /\ rows[offers[id].lot].offer = id
                      /\ rows[offers[id].lot].status = "active"
                      /\ ~rows[offers[id].lot].marked
    BY <2>1 DEF IMark, Waits
  <2>2. /\ ~gateway /\ rows[offers[id].lot].offer = id
        /\ rows[offers[id].lot].status = "active"
        /\ ~rows[offers[id].lot].marked
    BY DEF IInv, ISound, IMark
  <2> QED
    BY <2>2 DEF NoneUnmarked
<1> QED
  BY <1>1, <1>2, <1>3, <1>4 DEF IInv, ISound

\* a job that raised
LEMMA AbandonStep ==
    ASSUME IInv, holder # Nothing, NEW effect \in BOOLEAN, Abandon(effect),
           UNCHANGED <<lotVars, configVars, due, changes, crossed>>,
           unrecorded \subseteq unrecorded', unrecorded' \subseteq Lots,
           mishaps' \in {mishaps, mishaps + 1}, mishaps' \in 0..MaxMishaps,
           EffectLost
    PROVE  IInv'
<1>1. Rest /\ RequestHasLoop /\ rows' = rows
  BY RestKept DEF IInv, lotVars
<1>2. reqs \in [Slots -> Req] /\ IReqs
  BY DEF IInv, ISound, StoreTypeOK
<1>3. reqs' \in [Slots -> Req] /\ IReqs'
  <2>1. CASE holder.by = "request"
    <3> DEFINE i == holder.slot
    <3>1. i \in Slots /\ reqs[i].at = "runs" /\ reqs[i] \in Req /\ ReqFits(reqs[i])
      BY <1>2, <2>1 DEF IInv, ISound, IJob, IReqs
    <3>2. PICK q : q = AfterFailure(reqs[i])
      OBVIOUS
    <3>3. q \in Req /\ ReqFits(q)
      BY <3>1, <3>2, ReqFailed
    <3>4. reqs' = [reqs EXCEPT ![i] = q]
      BY <1>2, <2>1, <3>1, <3>2 DEF Abandon
    <3> QED
      BY <1>1, <1>2, <3>1, <3>3, <3>4, ReqStep
  <2>2. CASE holder.by # "request"
    <3>1. reqs' = reqs
      BY <2>2 DEF Abandon
    <3> QED
      BY <1>1, <1>2, <3>1 DEF IReqs, ReqFits
  <2> QED
    BY <2>1, <2>2
<1>4. /\ gateway' = gateway /\ RequestHasLoop'
      /\ dirty' \in BOOLEAN /\ loop' \in {"none", "top", "pass"}
  BY <1>1 DEF Abandon, PassEnds, RequestHasLoop, Rest, loopVars
<1>5. forgotten' \in BOOLEAN /\ lapsed' \in {"no", "yes", "seen"}
  BY <1>1, LapseTyped DEF Abandon, Rest
<1>6. Rest'
  BY <1>1, <1>4, <1>5 DEF Rest, configVars
<1>7. holder' = Nothing
  BY DEF Abandon
<1> QED
  BY <1>3, <1>4, <1>6, <1>7, JobEnds

\* the job comes to the next stage with work, refuses, or has finished
LEMMA JobLoadsInv ==
    ASSUME IInv, JobLoads PROVE IInv'
<1>1. /\ holder # Nothing /\ holder.at = "load" /\ ~Working
      /\ UNCHANGED <<lotVars, configVars, due, changes, mishaps, unrecorded, crossed>>
  BY DEF JobLoads, Working
<1> DEFINE todo == holder.todo
           busy == {k \in DOMAIN todo : StageOf(todo[k]) # {}}
<1>2. EffectLost
  BY <1>1 DEF EffectLost
<1>3. /\ unrecorded \subseteq unrecorded' /\ unrecorded' \subseteq Lots
      /\ mishaps' \in {mishaps, mishaps + 1} /\ mishaps' \in 0..MaxMishaps
  BY <1>1 DEF IInv, StoreTypeOK
<1>4. CASE busy # {}
  <2>1. busy \in SUBSET Nat
    BY <1>1, HolderTyped
  <2>2. Min(busy) \in busy /\ \A j \in busy : Min(busy) <= j
    <3> HIDE DEF busy
    <3> QED
      BY <1>4, <2>1, MinNat
  <2>3. PICK k : k = Min(busy)
    OBVIOUS
  <2>4. k \in DOMAIN todo /\ \A j \in DOMAIN todo : StageOf(todo[j]) # {} => k <= j
    BY <2>2, <2>3
  <2>5. PICK w \in StageOf(todo[k]) :
          holder' = [Begin(w) EXCEPT !.todo = SubSeq(todo, k, Len(todo))]
    BY <1>4, <2>3 DEF JobLoads
  <2>6. UNCHANGED <<loopVars, reqs, forgotten>> /\ lapsed' = LooksAt(k)
    BY <1>4, <2>3 DEF JobLoads
  <2> QED
    BY <1>1, <2>4, <2>5, <2>6, LoadsWork
<1>5. CASE busy = {} /\ holder.by = "request" /\ todo # << >>
  <2>1. Abandon(FALSE)
    BY <1>5 DEF JobLoads
  <2> QED
    BY <1>1, <1>2, <1>3, <2>1, AbandonStep
<1>6. CASE busy = {} /\ ~(holder.by = "request" /\ todo # << >>)
  <2>1. Finish
    BY <1>6 DEF JobLoads
  <2>2. NoneUnmarked
    <3> SUFFICES ASSUME NEW id \in DOMAIN offers, offers[id].on, ~offers[id].marked
                 PROVE  FALSE
      BY DEF NoneUnmarked
    <3> QED
      BY <1>1, <1>6, MarkerHasWork
  <2>3. Rest /\ RequestHasLoop /\ rows' = rows
    BY <1>1, RestKept DEF IInv, lotVars
  <2>4. reqs' \in [Slots -> Req] /\ IReqs'
    <3>1. reqs \in [Slots -> Req] /\ IReqs
      BY DEF IInv, ISound, StoreTypeOK
    <3>2. CASE holder.by = "request"
      <4>1. holder.slot \in Slots
        BY <1>1, <3>2 DEF IInv, ISound, IJob
      <4>2. reqs' = [reqs EXCEPT ![holder.slot] = Answered]
        BY <2>1, <3>2 DEF Finish
      <4> QED
        BY <2>3, <3>1, <4>1, <4>2, ReqAnswered, ReqStep
    <3>3. CASE holder.by # "request"
      <4>1. reqs' = reqs
        BY <2>1, <3>3 DEF Finish
      <4> QED
        BY <2>3, <3>1, <4>1 DEF IReqs, ReqFits
    <3> QED
      BY <3>2, <3>3
  <2>5. /\ RequestHasLoop' /\ gateway' \in BOOLEAN
        /\ dirty' \in BOOLEAN /\ loop' \in {"none", "top", "pass"}
    <3>1. CASE holder.by = "loop"
      <4>1. PassEnds(TRUE)
        BY <2>1, <3>1 DEF Finish
      <4> QED
        BY <2>3, <4>1 DEF PassEnds, RequestHasLoop, Rest
    <3>2. CASE holder.by = "reconf"
      <4>1. Connected
        BY <2>1, <3>2 DEF Finish
      <4> QED
        BY <2>3, <4>1 DEF Connected, Spawned, RequestHasLoop, Rest
    <3>3. CASE holder.by \notin {"loop", "reconf"}
      <4>1. UNCHANGED loopVars
        BY <2>1, <3>3 DEF Finish
      <4> QED
        BY <2>3, <4>1 DEF loopVars, RequestHasLoop, Rest
    <3> QED
      BY <3>1, <3>2, <3>3
  <2>6. forgotten' \in BOOLEAN /\ lapsed' \in {"no", "yes", "seen"}
    BY <2>1, <2>3 DEF Finish, Rest
  <2>7. Rest'
    BY <1>1, <2>3, <2>5, <2>6 DEF Rest, configVars
  <2>8. holder' = Nothing
    BY <2>1 DEF Finish
  <2> QED
    BY <1>1, <1>2, <1>3, <2>2, <2>4, <2>5, <2>7, <2>8, JobEnds
<1> QED
  BY <1>4, <1>5, <1>6

\* a job that goes on with what follows the head of its list
LEMMA TailIs ==
    ASSUME NEW todo \in Seq(Step), todo # << >>
    PROVE  /\ Tail(todo) \in Seq(Step)
           /\ \A j \in DOMAIN Tail(todo) :
                \E i \in DOMAIN todo : Tail(todo)[j] = todo[i]
           /\ \A i \in DOMAIN todo :
                \/ todo[i] = Head(todo)
                \/ \E j \in DOMAIN Tail(todo) : Tail(todo)[j] = todo[i]
<1>1. DOMAIN todo = 1..Len(todo) /\ Len(todo) \in Nat
  BY LenProperties
<1>2. PICK t : t = Tail(todo)
  OBVIOUS
<1>3. /\ t \in Seq(Step) /\ Len(t) = Len(todo) - 1
      /\ \A i \in 1..Len(t) : t[i] = todo[i + 1]
  BY <1>2, HeadTailProperties
<1>4. DOMAIN t = 1..Len(t) /\ Len(t) \in Nat
  BY <1>3, LenProperties
<1>5. \A j \in DOMAIN t : \E i \in DOMAIN todo : t[j] = todo[i]
  <2> SUFFICES ASSUME NEW j \in DOMAIN t PROVE \E i \in DOMAIN todo : t[j] = todo[i]
    OBVIOUS
  <2>1. j + 1 \in DOMAIN todo /\ t[j] = todo[j + 1]
    BY <1>1, <1>3, <1>4
  <2> QED
    BY <2>1
<1>6. \A i \in DOMAIN todo : todo[i] = Head(todo) \/ \E j \in DOMAIN t : t[j] = todo[i]
  <2> SUFFICES ASSUME NEW i \in DOMAIN todo, todo[i] # Head(todo)
               PROVE  \E j \in DOMAIN t : t[j] = todo[i]
    OBVIOUS
  <2>1. i # 1
    BY <1>1
  <2>2. i - 1 \in DOMAIN t /\ t[i - 1] = todo[i]
    BY <1>1, <1>3, <1>4, <2>1
  <2> QED
    BY <2>2
<1> QED
  BY <1>2, <1>3, <1>5, <1>6

\* h is the job, past the head of its list and with nothing in hand
GoneOn(h) ==
    /\ h \in JobRow /\ h # Nothing
    /\ h.by = holder.by /\ h.slot = holder.slot
    /\ h.work = Nothing /\ h.at = "load" /\ h.todo = Tail(holder.todo)

\* Remaining is what GoneOn says
LEMMA RemainingIs ==
    ASSUME IInv, holder # Nothing, holder.todo # << >>
    PROVE  GoneOn(Remaining(holder))
<1>1. PICK job \in JobRow : job = holder
  BY HolderTyped
<1>2. Tail(job.todo) \in Seq(Step)
  BY <1>1, HolderTyped, TailIs
<1>3. PICK h : h = Remaining(job)
  OBVIOUS
<1>4. h \in JobRow /\ h.by = job.by /\ h.slot = job.slot
      /\ h.work = Nothing /\ h.at = "load" /\ h.todo = Tail(job.todo)
  BY <1>2, <1>3 DEF Remaining, JobRow
<1>5. h # Nothing
  BY <1>4, MarkersDiffer
<1> QED
  BY <1>1, <1>3, <1>4, <1>5 DEF GoneOn

\* and so is Done
LEMMA DoneIs ==
    ASSUME IInv, Working, holder.todo # << >>
    PROVE  GoneOn(Done(holder))
<1>1. PICK h : h = Remaining(holder)
  OBVIOUS
<1>2. GoneOn(h)
  BY <1>1, RemainingIs, WorkTyped
<1>3. PICK full \in SUBSET Lots :
        full = IF holder.work.call = "save" THEN h.full \cup {holder.work.lot}
               ELSE h.full
  <2>1. h.full \in SUBSET Lots /\ holder.work.lot \in Lots
    BY <1>2, WorkTyped DEF GoneOn, JobRow
  <2> QED
    BY <2>1
<1>4. Done(holder) = [h EXCEPT !.full = full]
  BY <1>1, <1>3 DEF Done
<1>5. PICK d : d = [h EXCEPT !.full = full]
  OBVIOUS
<1>6. /\ d \in JobRow /\ d.by = h.by /\ d.slot = h.slot /\ d.work = h.work
      /\ d.at = h.at /\ d.todo = h.todo
  BY <1>2, <1>3, <1>5 DEF GoneOn, JobRow
<1>7. d # Nothing
  BY <1>6, MarkersDiffer
<1> QED
  BY <1>2, <1>4, <1>5, <1>6, <1>7 DEF GoneOn

\* what is left of a list still fits
LEMMA GoneOnJob ==
    ASSUME IInv, holder # Nothing, holder.todo # << >>,
           NEW h, h = holder', GoneOn(h), reqs' = reqs, gateway' = gateway,
           \A l \in Lots : rows[l].status # "absent" => rows'[l].status # "absent"
    PROVE  IJob'
<1>1. PICK todo : todo = holder.todo
  OBVIOUS
<1>2. h.todo = Tail(todo) /\ todo \in Seq(Step) /\ todo # << >>
  BY <1>1, HolderTyped DEF GoneOn
<1>3. ASSUME NEW j \in DOMAIN h.todo PROVE TodoFits(h.todo[j], h)'
  <2>1. PICK i \in DOMAIN todo : h.todo[j] = todo[i]
    BY <1>2, TailIs
  <2>2. TodoFits(todo[i], holder) /\ todo[i].lot \in Lots
    BY <1>1, HolderTyped DEF IInv, ISound, IJob
  <2>3. TodoFits(todo[i], h)'
    BY <2>2 DEF TodoFits, GoneOn
  <2> QED
    BY <2>1, <2>3
<1>4. /\ h.at = "load" /\ h.work = Nothing
      /\ h.by # "reconf" => gateway'
      /\ h.by = "request" => h.slot \in Slots /\ reqs'[h.slot].at = "runs"
  BY DEF GoneOn, IInv, ISound, IJob
<1>5. \A j \in DOMAIN h.todo : TodoFits(h.todo[j], h)'
  BY <1>3
<1> QED
  BY <1>4, <1>5 DEF IJob

\* who waits behind the head of the list still waits
LEMMA GoneOnWaits ==
    ASSUME IInv, holder # Nothing, holder.todo # << >>,
           NEW h, GoneOn(h), NEW lot, Waits(lot), Head(holder.todo).lot # lot
    PROVE  \E k \in DOMAIN h.todo : h.todo[k].lot = lot
<1>1. PICK todo : todo = holder.todo
  OBVIOUS
<1>2. h.todo = Tail(todo) /\ todo \in Seq(Step) /\ todo # << >>
  BY <1>1, HolderTyped DEF GoneOn
<1>3. PICK i \in DOMAIN todo : todo[i].lot = lot
  BY <1>1 DEF Waits
<1>4. todo[i] # Head(todo)
  BY <1>1, <1>3
<1>5. \E k \in DOMAIN Tail(todo) : Tail(todo)[k] = todo[i]
  BY <1>2, <1>4, TailIs
<1> QED
  BY <1>2, <1>3, <1>5

\* a legacy offer on sale is in its row, which nobody has written over
LEMMA LegacyKept ==
    ASSUME IInv, Working, NEW id \in DOMAIN offers, offers[id].on,
           ~offers[id].marked, offers[id].lot = holder.work.lot
    PROVE  /\ rows[holder.work.lot] = holder.work.old
           /\ holder.work.old.offer = id /\ Bound(holder.work.old)
           /\ ~holder.work.old.marked /\ holder.work.old.status = "active"
<1> DEFINE w == holder.work
           r == rows[w.lot]
<1>1. r.offer = id /\ r.status = "active" /\ ~r.marked /\ id # 0
  BY OffersTyped DEF IInv, ISound, IMark
<1>2. Matches(w, r)
  BY DEF IInv, ISound, IWork
<1>3. w.old.offer = id /\ ~w.old.marked
  BY <1>1, <1>2 DEF Matches
<1>4. Legacy(w.old)
  BY <1>1, <1>3 DEF Legacy, Bound
<1>5. r = w.old
  BY <1>2, <1>4 DEF Matches
<1> QED
  BY <1>1, <1>3, <1>4, <1>5 DEF Legacy

\* a refused call, a lost call, or a commit that failed after it
LEMMA JobFailsInv ==
    ASSUME IInv, JobFails PROVE IInv'
<1> DEFINE effect == holder.at = "commit" /\ holder.work.call # "none"
           w == holder.work
<1>1. /\ holder # Nothing /\ Working
      /\ unrecorded' = IF effect THEN unrecorded \cup {w.lot} ELSE unrecorded
      /\ UNCHANGED <<lotVars, configVars, due, changes, crossed>>
  BY DEF JobFails, Working
<1>2. /\ w.lot \in Lots /\ mishaps \in 0..MaxMishaps /\ unrecorded \subseteq Lots
  BY <1>1, WorkTyped DEF IInv, StoreTypeOK
<1>3. /\ unrecorded \subseteq unrecorded' /\ unrecorded' \subseteq Lots
  BY <1>1, <1>2
<1>4. \/ mishaps' = mishaps /\ holder.at = "call"
      \/ mishaps' = mishaps + 1 /\ mishaps < MaxMishaps
  BY DEF JobFails, Mishap
<1>5. /\ mishaps' \in {mishaps, mishaps + 1} /\ mishaps' \in 0..MaxMishaps
  BY <1>2, <1>4, BoundsAreNat
<1>6. EffectLost
  BY <1>1, <1>4 DEF EffectLost
<1>7. CASE ~Tolerated(holder)
  <2>1. PICK e \in BOOLEAN : e = effect
    OBVIOUS
  <2>2. Abandon(e)
    BY <1>7, <2>1 DEF JobFails
  <2> HIDE DEF effect
  <2> QED
    BY <1>1, <1>3, <1>5, <1>6, <2>2, AbandonStep
<1>8. CASE Tolerated(holder)
  <2>1. /\ holder' = Remaining(holder) /\ UNCHANGED <<loopVars, reqs, lapsed>>
        /\ forgotten' = (forgotten \/ effect)
    BY <1>8 DEF JobFails
  <2>2. holder.todo # << >> /\ Head(holder.todo).lot = w.lot
    BY <1>1 DEF IInv, ISound, IWork
  <2>3. PICK h : h = holder'
    OBVIOUS
  <2>4. GoneOn(h)
    BY <1>1, <2>1, <2>2, <2>3, RemainingIs
  <2>5. h # Nothing /\ h.at = "load" /\ h \in JobRow
    BY <2>4 DEF GoneOn
  <2>6. ~Working'
    BY <2>3, <2>5 DEF Working
  <2>7. rows' = rows /\ offers' = offers /\ gateway' = gateway /\ reqs' = reqs
    BY <1>1, <2>1 DEF lotVars, loopVars
  <2>8. StoreTypeOK' /\ RequestHasLoop'
    <3>1. Rest /\ RequestHasLoop
      BY RestKept DEF IInv
    <3>2. forgotten' \in BOOLEAN
      BY <2>1
    <3>3. Rest' /\ RequestHasLoop'
      BY <1>1, <2>1, <3>1, <3>2 DEF Rest, RequestHasLoop, configVars, loopVars
    <3> QED
      BY <1>1, <1>3, <1>5, <2>1, <2>3, <2>5, <2>7, <3>3
      DEF IInv, StoreTypeOK, Rest, lotVars
  <2>9. IRows' /\ IBound' /\ IOn' /\ IPrice' /\ ICount'
    <3>1. NothingSent'
      BY <2>6 DEF NothingSent
    <3> QED
      BY <1>1, <1>3, <1>5, <1>6, <3>1, IdleStep
  <2>10. IReqs' /\ IWork'
    BY <2>6, <2>7 DEF IInv, ISound, IReqs, ReqFits, IWork
  <2>11. IJob'
    BY <1>1, <2>2, <2>3, <2>4, <2>7, GoneOnJob
  <2>12. IMark'
    <3> SUFFICES ASSUME NEW id \in DOMAIN offers, offers[id].on, ~offers[id].marked
                 PROVE  /\ ~gateway
                        /\ rows[offers[id].lot].offer = id
                        /\ rows[offers[id].lot].status = "active"
                        /\ ~rows[offers[id].lot].marked
                        /\ \E k \in DOMAIN h.todo : h.todo[k].lot = offers[id].lot
      BY <2>3, <2>5, <2>7 DEF IMark, Waits
    <3>1. /\ ~gateway /\ rows[offers[id].lot].offer = id
          /\ rows[offers[id].lot].status = "active"
          /\ ~rows[offers[id].lot].marked /\ Waits(offers[id].lot)
      BY DEF IInv, ISound, IMark
    <3>2. holder.by = "reconf"
      BY <1>1, <3>1 DEF IInv, ISound, IJob
    <3>3. w.old.status # "active"
      BY <1>8, <3>2 DEF Tolerated
    <3>4. offers[id].lot # w.lot
      BY <1>1, <3>3, LegacyKept
    <3>5. \E k \in DOMAIN h.todo : h.todo[k].lot = offers[id].lot
      BY <1>1, <2>2, <2>4, <3>1, <3>4, GoneOnWaits
    <3> QED
      BY <3>1, <3>5
  <2> QED
    BY <2>8, <2>9, <2>10, <2>11, <2>12 DEF IInv, ISound
<1> QED
  BY <1>7, <1>8

\* a restart ends the job and the requests
LEMMA RestartInv ==
    ASSUME IInv, Restart PROVE IInv'
<1>1. /\ holder' = Nothing /\ due' = "no"
      /\ gateway' = FALSE /\ dirty' = FALSE /\ loop' = "none"
      /\ mishaps' = mishaps + 1 /\ mishaps < MaxMishaps
      /\ UNCHANGED <<lotVars, configVars, changes, crossed>>
  BY DEF Restart, LoopForgets, Mishap
<1>2. /\ mishaps \in 0..MaxMishaps /\ unrecorded \subseteq Lots
      /\ reqs \in [Slots -> Req] /\ IReqs
  BY DEF IInv, ISound, StoreTypeOK
<1>3. mishaps' \in {mishaps, mishaps + 1} /\ mishaps' \in 0..MaxMishaps
  BY <1>1, <1>2, BoundsAreNat
<1>4. /\ unrecorded \subseteq unrecorded' /\ unrecorded' \subseteq Lots
      /\ EffectLost
  <2>1. CASE Working
    <3>1. holder # Nothing /\ holder.work.lot \in Lots
      BY <2>1, WorkTyped
    <3> QED
      BY <1>1, <1>2, <3>1 DEF Restart, EffectLost
  <2>2. CASE ~Working
    <3>1. unrecorded' = unrecorded
      BY <2>2 DEF Restart, Working
    <3> QED
      BY <1>2, <2>2, <3>1 DEF EffectLost
  <2> QED
    BY <2>1, <2>2
<1>5. reqs' \in [Slots -> Req] /\ IReqs'
  <2>1. reqs' = [i \in Slots |-> IF reqs[i].at = "idle" THEN reqs[i] ELSE Answered]
    BY DEF Restart
  <2>2. \A i \in Slots : reqs[i] \in Req /\ ReqFits(reqs[i])
    BY <1>2 DEF IReqs
  <2>3. \A i \in Slots : reqs'[i] \in Req /\ ReqFits(reqs'[i])
    BY <2>1, <2>2, ReqAnswered
  <2>4. rows' = rows
    BY <1>1 DEF lotVars
  <2>5. reqs' \in [Slots -> Req]
    BY <2>1, <2>3
  <2> QED
    BY <2>3, <2>4, <2>5 DEF IReqs, ReqFits
<1>6. Rest' /\ RequestHasLoop'
  <2>1. forgotten' \in BOOLEAN /\ lapsed' \in {"no", "yes", "seen"}
    BY RestKept, LapseTyped DEF Restart, Rest
  <2>2. gateway' \in BOOLEAN /\ dirty' \in BOOLEAN
    BY <1>1
  <2>3. Rest'
    BY <1>1, <2>1, <2>2, RestKept DEF Rest, configVars
  <2> QED
    BY <1>1, <2>3 DEF RequestHasLoop
<1> QED
  BY <1>1, <1>3, <1>4, <1>5, <1>6, JobEnds

-----------------------------------------------------------------------------
(* The call *)

\* a work whose call has been accepted: h is the job, v its work, id the offer
Accepted(h, v, id) ==
    /\ h \in JobRow /\ h # Nothing
    /\ h.by = holder.by /\ h.slot = holder.slot /\ h.todo = holder.todo
    /\ h.at = "commit" /\ h.work = v /\ v # Nothing
    /\ v \in WorkRow /\ v.new \in Row
    /\ v.lot = holder.work.lot /\ v.call = holder.work.call
    /\ v.on = holder.work.on /\ v.old = holder.work.old
    /\ v.then = holder.work.then
    /\ v.new.status = holder.work.new.status
    /\ v.new.reason = holder.work.new.reason
    /\ v.new.text = holder.work.new.text
    /\ v.new.offer = id

\* a work that is given its offer
LEMMA BoundToIs ==
    ASSUME NEW w \in WorkRow, NEW id \in Nat
    PROVE  LET v == BoundTo(w, id)
           IN  /\ v \in WorkRow /\ v.new \in Row
               /\ v.lot = w.lot /\ v.call = w.call /\ v.on = w.on
               /\ v.old = w.old /\ v.then = w.then
               /\ v.new.status = w.new.status /\ v.new.reason = w.new.reason
               /\ v.new.text = w.new.text
               /\ v.new.offer = id /\ v.new.marked = TRUE
<1>1. PICK n \in Row : n = w.new
  BY DEF WorkRow
<1>2. PICK m : m = [n EXCEPT !.offer = id, !.marked = TRUE]
  OBVIOUS
<1>3. /\ m \in Row /\ m.status = n.status /\ m.reason = n.reason
      /\ m.text = n.text /\ m.offer = id /\ m.marked = TRUE
  BY <1>2 DEF Row
<1>4. PICK v : v = [w EXCEPT !.new = m]
  OBVIOUS
<1>5. /\ v \in WorkRow /\ v.new = m /\ v.lot = w.lot /\ v.call = w.call
      /\ v.on = w.on /\ v.old = w.old /\ v.then = w.then
  BY <1>3, <1>4 DEF WorkRow
<1>6. BoundTo(w, id) = v
  BY <1>1, <1>2, <1>4 DEF BoundTo
<1> QED
  BY <1>1, <1>3, <1>5, <1>6

\* the job after an accepted call
LEMMA AcceptedIs ==
    ASSUME IInv, Working, NEW id \in Nat
    PROVE  /\ Accepted([holder EXCEPT !.at = "commit",
                                      !.work = BoundTo(holder.work, id)],
                       BoundTo(holder.work, id), id)
           /\ Accepted([holder EXCEPT !.at = "commit"], holder.work,
                       holder.work.new.offer)
<1>1. PICK job \in JobRow, w \in WorkRow : job = holder /\ w = job.work
  BY WorkTyped
<1>2. PICK v : v = BoundTo(w, id)
  OBVIOUS
<1>3. /\ v \in WorkRow /\ v.new \in Row
      /\ v.lot = w.lot /\ v.call = w.call /\ v.on = w.on
      /\ v.old = w.old /\ v.then = w.then
      /\ v.new.status = w.new.status /\ v.new.reason = w.new.reason
      /\ v.new.text = w.new.text /\ v.new.offer = id
  BY <1>2, BoundToIs
<1>4. PICK h : h = [job EXCEPT !.at = "commit", !.work = v]
  OBVIOUS
<1>5. /\ h \in JobRow /\ h.by = job.by /\ h.slot = job.slot
      /\ h.todo = job.todo /\ h.at = "commit" /\ h.work = v
  BY <1>3, <1>4 DEF JobRow
<1>6. PICK g : g = [job EXCEPT !.at = "commit"]
  OBVIOUS
<1>7. /\ g \in JobRow /\ g.by = job.by /\ g.slot = job.slot
      /\ g.todo = job.todo /\ g.at = "commit" /\ g.work = w
  BY <1>1, <1>6 DEF JobRow
<1>8. Accepted(h, v, id)
  BY <1>1, <1>3, <1>5, MarkersDiffer DEF Accepted
<1>9. Accepted(g, w, w.new.offer)
  <2>1. w.new \in Row
    BY DEF WorkRow
  <2> QED
    BY <1>1, <1>7, <2>1, MarkersDiffer DEF Accepted
<1> QED
  BY <1>1, <1>2, <1>4, <1>6, <1>8, <1>9

\* What an accepted call of a work makes of the offers: the offer at id is the
\* lot's and on sale as the work says, the others are as they were or off sale.
Taken(o2, id, w) ==
    /\ o2 \in Seq(Offer) /\ DOMAIN o2 = 1..Len(o2) /\ Len(o2) \in Nat
    /\ id \in DOMAIN o2 /\ id # 0 /\ id \in Nat
    /\ \A i \in DOMAIN offers : i \in DOMAIN o2
    /\ o2[id].lot = w.lot /\ o2[id].on = w.on
    /\ \A i \in DOMAIN o2 :
         i # id => i \in DOMAIN offers /\ (o2[i] = offers[i] \/ o2[i].on = FALSE)
    /\ \A i \in DOMAIN offers : offers[i].lot # w.lot => i # id /\ o2[i] = offers[i]
    /\ Bound(w.old) => id = w.old.offer /\ Len(o2) = Len(offers)
    /\ Len(o2) <= Len(offers) + 1
    /\ w.call = "save" => o2[id] = Form(w.lot, w.new, w.on)
    /\ w.call # "save" => /\ Bound(w.old)
                          /\ o2[id].text = offers[id].text
                          /\ o2[id].marked = offers[id].marked

\* the row in hand, its offer and its work, before the call
LEMMA InHandIs ==
    ASSUME IInv, Working
    PROVE  /\ WorkFits(holder.work, holder.by = "request")
           /\ Matches(holder.work, rows[holder.work.lot])
           /\ holder.at = "call" => Unsent(holder.work)
           /\ holder.at = "commit" => Sent(holder.work)
           /\ holder.todo # << >> /\ Head(holder.todo).lot = holder.work.lot
           /\ Bound(holder.work.old) =>
                /\ holder.work.old.offer \in DOMAIN offers
                /\ offers[holder.work.old.offer].lot = holder.work.lot
                /\ holder.work.old.marked => offers[holder.work.old.offer].marked
<1>1. /\ WorkFits(holder.work, holder.by = "request")
      /\ Matches(holder.work, rows[holder.work.lot])
      /\ holder.at = "call" => Unsent(holder.work)
      /\ holder.at = "commit" => Sent(holder.work)
      /\ holder.todo # << >> /\ Head(holder.todo).lot = holder.work.lot
  BY DEF IInv, ISound, IWork
<1>2. /\ rows[holder.work.lot].offer = holder.work.old.offer
      /\ rows[holder.work.lot].marked = holder.work.old.marked
  BY <1>1 DEF Matches
<1>3. holder.work.lot \in Lots
  BY WorkTyped
<1>4. Bound(holder.work.old) =>
        /\ holder.work.old.offer \in DOMAIN offers
        /\ offers[holder.work.old.offer].lot = holder.work.lot
        /\ holder.work.old.marked => offers[holder.work.old.offer].marked
  BY <1>2, <1>3 DEF IInv, ISound, IBound, Bound
<1> QED
  BY <1>1, <1>4

\* Called is what Taken and Accepted say, with one offer id
LEMMA CallTaken ==
    ASSUME IInv, Working, holder.at = "call", Called(holder.work)
    PROVE  \E id, v : /\ Taken(offers', id, holder.work)
                      /\ Accepted(holder', v, id)
                      /\ holder.work.call = "save" => v.new.marked = TRUE
                      /\ holder.work.call # "save" => v = holder.work
<1>1. PICK w \in WorkRow : w = holder.work
  BY WorkTyped
<1>2. /\ w.lot \in Lots /\ w.old \in Row /\ w.new \in Row /\ w.on \in BOOLEAN
      /\ w.call \in {"none", "save", "toggle", "delete"}
  BY DEF WorkRow
<1>3. /\ WorkFits(w, holder.by = "request") /\ Unsent(w)
      /\ Bound(w.old) =>
            w.old.offer \in DOMAIN offers /\ offers[w.old.offer].lot = w.lot
  BY <1>1, InHandIs
<1>4. /\ w.call # "none" /\ w.new.offer = w.old.offer
      /\ Bound(w.new) = Bound(w.old)
  BY <1>3 DEF Unsent, Bound
<1>5. /\ offers \in Seq(Offer) /\ DOMAIN offers = 1..Len(offers) /\ Len(offers) \in Nat
      /\ \A i \in DOMAIN offers : i \in Nat /\ i # 0 /\ offers[i] \in Offer
  BY OffersTyped DEF IInv, StoreTypeOK
<1>6. CASE w.call = "save"
  <2>1. PICK id : id = SavedId(w.lot, w.new)
    OBVIOUS
  <2>2. /\ offers' = Saved(w.lot, w.new, w.on)
        /\ holder' = [holder EXCEPT !.at = "commit",
                                    !.work = BoundTo(holder.work, id)]
    BY <1>1, <1>6, <2>1 DEF Called
  <2>3. PICK o2 : o2 = offers'
    OBVIOUS
  <2>4. SavedAs(o2, id, w.lot, w.new, w.on)
    BY <1>2, <1>3, <1>4, <1>5, <2>1, <2>2, <2>3, SavedEffect
  <2>5. id \in Nat /\ id # 0
    BY <2>4 DEF SavedAs
  <2>6. Taken(o2, id, w)
    <3>1. DOMAIN o2 = 1..Len(o2) /\ Len(o2) \in Nat
      BY <2>4, LenProperties DEF SavedAs
    <3>2. o2[id].lot = w.lot /\ o2[id].on = w.on
      <4>1. PICK f : f = Form(w.lot, w.new, w.on)
        OBVIOUS
      <4>2. f.lot = w.lot /\ f.on = w.on
        BY <4>1 DEF Form
      <4> QED
        BY <2>4, <4>1, <4>2 DEF SavedAs
    <3>3. \A i \in DOMAIN offers : Retired(offers[i]).on = FALSE
      BY <1>5, OfferMade
    <3>4. \A i \in DOMAIN o2 :
             i # id => i \in DOMAIN offers /\ (o2[i] = offers[i] \/ o2[i].on = FALSE)
      BY <2>4, <3>3 DEF SavedAs
    <3>5. Bound(w.old) => id = w.old.offer /\ Len(o2) = Len(offers)
      BY <1>4, <2>4 DEF SavedAs
    <3> QED
      BY <1>6, <2>4, <2>5, <3>1, <3>2, <3>4, <3>5 DEF SavedAs, Taken
  <2>7. Accepted(holder', BoundTo(w, id), id)
    BY <1>1, <2>2, <2>5, AcceptedIs
  <2>8. BoundTo(w, id).new.marked = TRUE
    BY <2>5, BoundToIs
  <2> QED
    BY <1>1, <1>6, <2>3, <2>6, <2>7, <2>8
<1>7. CASE w.call # "save"
  <2>1. PICK id : id = w.new.offer
    OBVIOUS
  <2>2. /\ holder' = [holder EXCEPT !.at = "commit"]
        /\ \/ w.call = "toggle" /\ offers' = Toggled(id, w.on)
           \/ w.call = "delete" /\ offers' = Deleted(id)
    BY <1>1, <1>2, <1>4, <1>7, <2>1 DEF Called
  <2>3. /\ Bound(w.old) /\ (w.call = "delete" => w.on = FALSE)
    BY <1>2, <1>3, <2>2 DEF WorkFits
  <2>4. id \in DOMAIN offers /\ offers[id].lot = w.lot /\ id = w.old.offer
    BY <1>3, <1>4, <2>1, <2>3
  <2>5. PICK o2 : o2 = offers'
    OBVIOUS
  <2>6. Adjusted(o2, id, w.on)
    BY <1>2, <1>5, <2>2, <2>3, <2>4, <2>5, AdjustedEffect
  <2>7. Taken(o2, id, w)
    BY <1>5, <1>7, <2>3, <2>4, <2>6 DEF Adjusted, Taken
  <2>8. Accepted(holder', w, id)
    BY <1>1, <2>1, <2>2, AcceptedIs
  <2> QED
    BY <1>1, <1>7, <2>5, <2>7, <2>8
<1> QED
  BY <1>6, <1>7

\* The call: the offers change and the rows do not, so what the rows promise of the
\* offers holds by the work in hand until the commit.
LEMMA JobCallsInv ==
    ASSUME IInv, JobCalls PROVE IInv'
<1>1. /\ holder # Nothing /\ holder.at = "call" /\ Working /\ Called(holder.work)
      /\ UNCHANGED <<rows, configVars, loopVars, reqs, due, changes, mishaps,
                     unrecorded, crossed, forgotten, lapsed>>
  BY DEF JobCalls, Working
<1>2. PICK w \in WorkRow : w = holder.work
  BY <1>1, WorkTyped
<1>3. PICK id, v, h, o2 : /\ h = holder' /\ o2 = offers'
                          /\ Taken(o2, id, w) /\ Accepted(h, v, id)
                          /\ w.call = "save" => v.new.marked = TRUE
                          /\ w.call # "save" => v = w
  BY <1>1, <1>2, CallTaken
<1>4. PICK lot \in Lots : lot = w.lot
  BY DEF WorkRow
<1>5. /\ WorkFits(w, holder.by = "request") /\ Matches(w, rows[lot]) /\ Unsent(w)
      /\ holder.todo # << >> /\ Head(holder.todo).lot = lot
      /\ Bound(w.old) => /\ w.old.offer \in DOMAIN offers
                         /\ offers[w.old.offer].lot = lot
                         /\ w.old.marked => offers[w.old.offer].marked
  BY <1>1, <1>2, <1>4, InHandIs
<1>6. /\ rows[lot].offer = w.old.offer /\ rows[lot].text = w.old.text
      /\ rows[lot].marked = w.old.marked
      /\ Bound(rows[lot]) = Bound(w.old)
  BY <1>5 DEF Matches, Bound
<1>7. /\ \A i \in DOMAIN offers : i \in Nat /\ i # 0 /\ offers[i].lot \in Lots
      /\ Len(offers) \in Nat
  BY OffersTyped
<1>8. /\ rows' = rows /\ reqs' = reqs /\ gateway' = gateway /\ mishaps' = mishaps
      /\ unrecorded' = unrecorded /\ crossed' = crossed
  BY <1>1 DEF loopVars
<1>9. /\ h # Nothing /\ h.at = "commit" /\ h.work = v /\ h.todo = holder.todo
      /\ h.by = holder.by /\ h.slot = holder.slot /\ h \in JobRow
      /\ v.lot = lot /\ v.call = w.call /\ v.on = w.on /\ v.old = w.old
      /\ v.then = w.then /\ v.new.status = w.new.status
      /\ v.new.reason = w.new.reason /\ v.new.text = w.new.text
      /\ v.new.offer = id /\ v # Nothing
  BY <1>2, <1>3, <1>4 DEF Accepted
<1>10. holder' = h /\ offers' = o2
  BY <1>3
<1>11. \A l \in Lots : (On(l) <=> l = lot) /\ ~Pending(l)
  BY <1>1, <1>2, <1>4 DEF On, Pending
<1>12. \A l \in Lots : /\ On(l)' <=> l = lot
                       /\ Pending(l)' <=> l = lot /\ w.call = "save"
  BY <1>9, <1>10 DEF On, Pending, Working
<1>13. Bound(w.old) \/ w.call = "save"
  BY <1>3 DEF Taken
<1>14. \A l \in Lots : Bound(rows[l]) =>
          /\ rows[l].offer \in DOMAIN offers /\ offers[rows[l].offer].lot = l
          /\ rows[l].marked => offers[rows[l].offer].marked
  BY DEF IInv, ISound, IBound
<1>15. \A l \in Lots :
         Bound(rows[l]) /\ l # lot => o2[rows[l].offer] = offers[rows[l].offer]
  BY <1>3, <1>4, <1>14 DEF Taken
<1>16. id # 0 /\ id \in DOMAIN o2 /\ o2[id].lot = lot /\ o2[id].on = w.on
  BY <1>3, <1>4 DEF Taken
<1>17. w.call = "save" => o2[id].text = w.new.text /\ o2[id].marked = TRUE
  BY <1>3 DEF Taken, Form
<1>18. IRows' /\ IReqs'
  BY <1>8 DEF IInv, ISound, IRows, IReqs, ReqFits
<1>19. IBound'
  <2> SUFFICES ASSUME NEW l \in Lots, Bound(rows[l])
               PROVE  /\ rows[l].offer \in DOMAIN o2
                      /\ o2[rows[l].offer].lot = l
                      /\ rows[l].marked => o2[rows[l].offer].marked
    BY <1>8, <1>10 DEF IBound
  <2>1. rows[l].offer \in DOMAIN offers /\ rows[l].offer \in DOMAIN o2
    BY <1>3, <1>14 DEF Taken
  <2>2. CASE l # lot
    BY <2>1, <2>2, <1>14, <1>15
  <2>3. CASE l = lot
    <3>1. rows[l].offer = id
      BY <2>3, <1>3, <1>6 DEF Taken
    <3>2. o2[id].marked = TRUE \/ o2[id].marked = offers[id].marked
      BY <1>3, <1>17 DEF Taken
    <3> QED
      BY <2>1, <2>3, <3>1, <3>2, <1>14, <1>16
  <2> QED
    BY <2>2, <2>3
<1>20. IJob'
  <2>1. \A k \in DOMAIN holder.todo : TodoFits(holder.todo[k], holder)
    BY <1>1 DEF IInv, ISound, IJob
  <2>2. \A k \in DOMAIN h.todo : TodoFits(h.todo[k], h)
    BY <2>1, <1>9 DEF TodoFits
  <2>3. \A k \in DOMAIN h.todo : TodoFits(h.todo[k], h)'
    BY <2>2, <1>8 DEF TodoFits
  <2>4. /\ h.at # "load" /\ h.work # Nothing
        /\ h.by # "reconf" => gateway'
        /\ h.by = "request" => h.slot \in Slots /\ reqs'[h.slot].at = "runs"
    BY <1>1, <1>8, <1>9 DEF IInv, ISound, IJob
  <2> QED
    BY <1>10, <2>3, <2>4 DEF IJob
<1>21. IWork'
  <2>1. WorkFits(v, h.by = "request")
    <3>1. PICK operator \in BOOLEAN : operator = (holder.by = "request")
      OBVIOUS
    <3>2. WorkFits(w, operator)
      BY <1>5, <3>1
    <3>3. CASE w.call = "save"
      <4>1. Bound(v.old) = Bound(w.old) /\ Held(v.old) = Held(w.old)
        BY <1>9 DEF Bound, Held
      <4>2. WorkFits(v, operator)
        <5>1. /\ v.lot = w.lot /\ v.call = "save" /\ v.on = w.on /\ v.old = w.old
              /\ v.then = w.then /\ v.new.status = w.new.status
              /\ v.new.reason = w.new.reason
          BY <1>4, <1>9, <3>3
        <5>2. /\ v.new.status # "absent"
              /\ v.lot = AutoLot => v.new.status # "deleted"
              /\ v.new.status = "active" <=> v.on
          BY <5>1, <3>2 DEF WorkFits
        <5>3. v.on /\ ~operator => /\ Bound(v.old) /\ ~Held(v.old)
                                   /\ v.old.status # "deleted"
          BY <5>1, <3>2, <4>1 DEF WorkFits
        <5>4. ~Bound(v.old) /\ ~v.on => v.new.reason \notin OfferReasons
          BY <5>1, <3>2, <4>1 DEF WorkFits
        <5>5. /\ v.then # "bind"
              /\ v.then # "end" => /\ ~v.on
                                   /\ v.new.status = "paused"
                                   /\ v.new.reason = "auto_publish_pending"
                                   /\ v.lot = AutoLot /\ ~operator
          BY <5>1, <3>2, <3>3 DEF WorkFits
        <5> QED
          BY <5>1, <5>2, <5>3, <5>4, <5>5 DEF WorkFits
      <4> QED
        BY <1>9, <3>1, <4>2
    <3>4. CASE w.call # "save"
      BY <1>3, <1>9, <3>1, <3>2, <3>4
    <3> QED
      BY <3>3, <3>4
  <2>2. Matches(v, rows[v.lot])'
    BY <1>4, <1>5, <1>8, <1>9 DEF Matches
  <2>3. Sent(v)'
    <3>1. w.call = "save" => o2[id] = Form(v.lot, v.new, v.on)
      BY <1>3, <1>4, <1>9 DEF Taken, Form
    <3>2. Bound(v.old) => id = v.old.offer
      BY <1>3, <1>9 DEF Taken
    <3> QED
      BY <1>3, <1>9, <1>10, <1>16, <3>1, <3>2 DEF Sent, Bound
  <2>4. h.todo # << >> /\ Head(h.todo).lot = v.lot
    BY <1>5, <1>9
  <2> QED
    BY <1>9, <1>10, <2>1, <2>2, <2>3, <2>4 DEF IWork
<1>22. IOn'
  <2> SUFFICES ASSUME NEW i \in DOMAIN o2, o2[i].on, o2[i].lot \notin Lost
               PROVE  \/ rows[o2[i].lot].offer = i /\ rows[o2[i].lot].status = "active"
                      \/ Selling(o2[i].lot, i)'
    BY <1>8, <1>10 DEF IOn, Lost
  <2>1. CASE i = id
    <3>1. o2[i].lot = lot /\ w.on
      BY <2>1, <1>16
    <3>2. Selling(lot, i)'
      BY <1>9, <1>10, <1>12, <2>1, <3>1 DEF Selling
    <3> QED
      BY <3>1, <3>2
  <2>2. CASE i # id
    <3>1. i \in DOMAIN offers /\ o2[i] = offers[i]
      BY <2>2, <1>3 DEF Taken
    <3>2. ~Selling(offers[i].lot, i)
      BY <1>1 DEF Selling
    <3> QED
      BY <3>1, <3>2 DEF IInv, ISound, IOn
  <2> QED
    BY <2>1, <2>2
<1>23. IPrice'
  <2> SUFFICES ASSUME NEW l \in Lots, Bound(rows[l]), l \notin unrecorded,
                      ~(l = lot /\ w.call = "save")
               PROVE  o2[rows[l].offer].text = rows[l].text
    BY <1>8, <1>10, <1>12 DEF IPrice
  <2>1. offers[rows[l].offer].text = rows[l].text
    BY <1>11 DEF IInv, ISound, IPrice
  <2>2. CASE l # lot
    BY <2>1, <2>2, <1>15
  <2>3. CASE l = lot
    <3>1. rows[l].offer = id /\ o2[id].text = offers[id].text
      BY <2>3, <1>3, <1>6 DEF Taken
    <3> QED
      BY <2>1, <3>1
  <2> QED
    BY <2>2, <2>3
<1>24. IMark'
  <2> SUFFICES ASSUME NEW i \in DOMAIN o2, o2[i].on, ~o2[i].marked
               PROVE  /\ ~gateway
                      /\ rows[o2[i].lot].offer = i
                      /\ rows[o2[i].lot].status = "active"
                      /\ ~rows[o2[i].lot].marked
                      /\ \E k \in DOMAIN h.todo : h.todo[k].lot = o2[i].lot
    BY <1>8, <1>9, <1>10 DEF IMark, Waits
  <2>1. i # id
    <3> SUFFICES ASSUME i = id PROVE FALSE
      OBVIOUS
    <3>1. w.on /\ w.call # "save"
      BY <1>16, <1>17
    <3>2. w.call = "toggle"
      BY <1>5, <3>1 DEF WorkFits, WorkRow, Unsent
    <3>3. w.old.marked
      BY <1>5, <3>1, <3>2 DEF WorkFits
    <3>4. /\ Bound(w.old) /\ id = w.old.offer /\ o2[id].marked = offers[id].marked
      BY <1>3, <3>1 DEF Taken
    <3> QED
      BY <1>5, <3>3, <3>4
  <2>2. i \in DOMAIN offers /\ o2[i] = offers[i]
    BY <2>1, <1>3 DEF Taken
  <2>3. /\ ~gateway
        /\ rows[offers[i].lot].offer = i
        /\ rows[offers[i].lot].status = "active"
        /\ ~rows[offers[i].lot].marked
        /\ Waits(offers[i].lot)
    BY <2>2 DEF IInv, ISound, IMark
  <2>4. \E k \in DOMAIN h.todo : h.todo[k].lot = offers[i].lot
    BY <1>1, <1>9, <2>3 DEF Waits
  <2> QED
    BY <2>2, <2>3, <2>4
<1>25. ICount'
  <2>1. /\ Has(AutoLot) = IF Bound(rows[AutoLot]) THEN 1 ELSE 0
        /\ Has(ManualLot) = IF Bound(rows[ManualLot]) THEN 1 ELSE 0
    BY <1>11 DEF Has, Lots
  <2>2. /\ Has(AutoLot)' = IF Bound(rows[AutoLot]) \/ (AutoLot = lot /\ w.call = "save")
                           THEN 1 ELSE 0
        /\ Has(ManualLot)' = IF \/ Bound(rows[ManualLot])
                                \/ ManualLot = lot /\ w.call = "save"
                             THEN 1 ELSE 0
    BY <1>8, <1>12 DEF Has, Lots, Bound
  <2>3. /\ Len(o2) \in Nat /\ Len(o2) <= Len(offers) + 1
        /\ Bound(rows[lot]) => Len(o2) = Len(offers)
        /\ ~Bound(rows[lot]) => w.call = "save"
    BY <1>3, <1>6, <1>13 DEF Taken
  <2>4. lot = AutoLot \/ lot = ManualLot
    BY DEF Lots
  <2>5. mishaps \in Nat
    BY DEF IInv, StoreTypeOK
  <2>6. Len(offers) <= Has(AutoLot) + Has(ManualLot) + mishaps
    BY DEF IInv, ISound, ICount
  <2>7. Len(o2) <= Has(AutoLot)' + Has(ManualLot)' + mishaps
    <3>1. CASE Bound(rows[lot])
      BY <3>1, <2>1, <2>2, <2>3, <2>5, <2>6, <1>7
    <3>2. CASE ~Bound(rows[lot])
      BY <3>2, <2>1, <2>2, <2>3, <2>4, <2>5, <2>6, <1>7
    <3> QED
      BY <3>1, <3>2
  <2> QED
    BY <2>7, <1>8, <1>10 DEF ICount
<1>26. StoreTypeOK' /\ RequestHasLoop'
  <2>1. Rest /\ RequestHasLoop
    BY RestKept DEF IInv
  <2>2. Rest' /\ RequestHasLoop'
    BY <1>1, <2>1 DEF Rest, RequestHasLoop, configVars, loopVars
  <2>3. o2 \in Seq(Offer) /\ Len(o2) \in Nat
    BY <1>3 DEF Taken
  <2>4. Len(o2) <= 2 + MaxMishaps
    <3>1. Has(AutoLot)' <= 1 /\ Has(ManualLot)' <= 1
          /\ Has(AutoLot)' \in Nat /\ Has(ManualLot)' \in Nat
      BY DEF Has
    <3>2. mishaps \in Nat /\ mishaps <= MaxMishaps /\ MaxMishaps \in Nat
      BY BoundsAreNat DEF IInv, StoreTypeOK
    <3>3. Len(o2) <= Has(AutoLot)' + Has(ManualLot)' + mishaps
      BY <1>8, <1>10, <1>25 DEF ICount
    <3> QED
      BY <2>3, <3>1, <3>2, <3>3
  <2>5. \A l \in Lots : Bound(rows[l]) => rows[l].offer \in DOMAIN o2
    BY <1>3, <1>14 DEF Taken
  <2> QED
    BY <1>8, <1>9, <1>10, <2>2, <2>3, <2>4, <2>5 DEF IInv, StoreTypeOK, Rest
<1> QED
  BY <1>18, <1>19, <1>20, <1>21, <1>22, <1>23, <1>24, <1>25, <1>26 DEF IInv, ISound

-----------------------------------------------------------------------------
(* The commit *)

\* n is the row a commit of w leaves where it found r
Committed(n, r, w) ==
    /\ n \in Row /\ RowFits(w.lot, n) /\ n.status # "absent"
    /\ n.offer = w.new.offer /\ n.marked = w.new.marked /\ n.text = w.new.text
    /\ w.lot \notin crossed => n = w.new
    /\ Legacy(n) => Legacy(r)
    /\ Bound(r) => Bound(n)

\* the commit of a work is what Committed says
LEMMA CommittedRow ==
    ASSUME IInv, Working, holder.at = "commit", NEW w, w = holder.work,
           NEW r, r = rows[w.lot]
    PROVE  Committed(Written(r, w.old, w.new), r, w)
<1>1. /\ w.lot \in Lots /\ r \in Row /\ w.old \in Row /\ w.new \in Row
      /\ w.on \in BOOLEAN /\ w.call \in {"none", "save", "toggle", "delete"}
  BY WorkTyped DEF WorkRow
<1>2. PICK operator \in BOOLEAN : operator = (holder.by = "request")
  OBVIOUS
<1>3. WorkFits(w, operator) /\ Matches(w, r) /\ Sent(w)
  BY <1>2, InHandIs
<1>4. RowFits(w.lot, r)
  BY <1>1 DEF IInv, ISound, IRows
<1>5. PICK n : n = Written(r, w.old, w.new)
  OBVIOUS
<1>6. r.offer = w.old.offer /\ r.marked = w.old.marked /\ r.text = w.old.text
  BY <1>3 DEF Matches
<1>7. /\ n \in Row
      /\ n.status \in {r.status, w.new.status}
      /\ n.reason \in {r.reason, w.new.reason}
      /\ n.offer = w.new.offer /\ n.marked = w.new.marked /\ n.text = w.new.text
      /\ r = w.old => n = w.new
  BY <1>1, <1>5, <1>6, RowWritten
<1>8. n.status # "absent" /\ (r.status = "absent" => n = w.new)
  BY <1>3, <1>7 DEF Matches, WorkFits
<1>9. w.lot \notin crossed => n = w.new
  BY <1>3, <1>7 DEF Matches
<1>10. w.call # "save" => n.offer = r.offer /\ n.marked = r.marked
  BY <1>3, <1>6, <1>7 DEF WorkFits
<1>11. w.call = "save" => Bound(n) /\ n.marked
  BY <1>3, <1>7 DEF Sent, Bound
<1>12. (Legacy(n) => Legacy(r)) /\ (Bound(r) => Bound(n))
  BY <1>10, <1>11 DEF Legacy, Bound
<1>13. RowFits(w.lot, n)
  <2>1. ASSUME ~Bound(n)
        PROVE  ~n.marked /\ n.status # "active" /\ n.reason \notin OfferReasons
    <3>1. w.call # "save" /\ ~Bound(r) /\ ~Bound(w.old)
      BY <2>1, <1>6, <1>10, <1>11 DEF Bound
    <3>2. ~w.on
      BY <1>1, <1>3, <3>1 DEF WorkFits
    <3>3. w.new.status # "active" /\ w.new.reason \notin OfferReasons
      BY <1>3, <3>1, <3>2 DEF WorkFits
    <3>4. ~r.marked /\ r.status # "active"
          /\ (r.status # "absent" => r.reason \notin OfferReasons)
      BY <1>4, <3>1 DEF RowFits
    <3> QED
      BY <1>7, <1>8, <1>10, <3>1, <3>3, <3>4
  <2>2. w.lot = AutoLot => n.status # "deleted"
    BY <1>3, <1>4, <1>7 DEF RowFits, WorkFits
  <2> QED
    BY <1>8, <2>1, <2>2 DEF RowFits
<1> QED
  BY <1>5, <1>7, <1>8, <1>9, <1>12, <1>13 DEF Committed

\* what follows a publication of the reconciler
LEMMA FollowingIs ==
    ASSUME NEW w \in WorkRow, w.then \in {"bind", "activate"}
    PROVE  LET v == Following(w)
           IN  /\ v \in WorkRow /\ v.lot = w.lot /\ v.old = w.new
               /\ w.then = "bind" =>
                    /\ v.new = w.new /\ v.on = w.on
                    /\ v.call = "save" /\ v.then = "activate"
               /\ w.then = "activate" =>
                    /\ v.new = Active(w.new) /\ v.on = TRUE
                    /\ v.call = "toggle" /\ v.then = "end"
<1>1. PICK new \in Row, act \in Row : new = w.new /\ act = Active(new)
  <2>1. w.new \in Row
    BY DEF WorkRow
  <2>2. Active(w.new) \in Row
    BY <2>1, RowMade
  <2> QED
    BY <2>1, <2>2
<1>2. CASE w.then = "bind"
  <2>1. PICK v : v = [w EXCEPT !.old = new, !.call = "save", !.then = "activate"]
    OBVIOUS
  <2>2. /\ v \in WorkRow /\ v.lot = w.lot /\ v.old = new /\ v.new = w.new
        /\ v.on = w.on /\ v.call = "save" /\ v.then = "activate"
    BY <2>1 DEF WorkRow
  <2>3. Following(w) = v
    BY <1>1, <1>2, <2>1 DEF Following
  <2> QED
    BY <1>1, <1>2, <2>2, <2>3
<1>3. CASE w.then = "activate"
  <2>1. PICK v : v = [w EXCEPT !.old = new, !.new = act, !.call = "toggle",
                               !.on = TRUE, !.then = "end"]
    OBVIOUS
  <2>2. /\ v \in WorkRow /\ v.lot = w.lot /\ v.old = new /\ v.new = act
        /\ v.on = TRUE /\ v.call = "toggle" /\ v.then = "end"
    BY <2>1 DEF WorkRow
  <2>3. Following(w) = v
    BY <1>1, <1>3, <2>1 DEF Following
  <2> QED
    BY <1>1, <1>3, <2>2, <2>3
<1> QED
  BY <1>2, <1>3

\* the work that follows fits, and matches the row the commit has left
LEMMA FollowingFits ==
    ASSUME IInv, Working, holder.at = "commit", NEW w \in WorkRow, w = holder.work,
           w.then # "end", NEW v, v = Following(w), NEW n, NEW r, Committed(n, r, w)
    PROVE  /\ WorkFits(v, holder.by = "request") /\ Unsent(v) /\ Matches(v, n)
           /\ v \in WorkRow /\ v.lot = w.lot
<1>1. PICK operator \in BOOLEAN : operator = (holder.by = "request")
  OBVIOUS
<1>2. WorkFits(w, operator) /\ Sent(w)
  BY <1>1, InHandIs
<1>3. w.then \in {"bind", "activate"} /\ w.new \in Row
  BY DEF WorkRow
<1>4. /\ v \in WorkRow /\ v.lot = w.lot /\ v.old = w.new
      /\ w.then = "bind" => /\ v.new = w.new /\ v.on = w.on
                            /\ v.call = "save" /\ v.then = "activate"
      /\ w.then = "activate" => /\ v.new = Active(w.new) /\ v.on = TRUE
                                /\ v.call = "toggle" /\ v.then = "end"
  BY <1>3, FollowingIs
<1>5. /\ ~w.on /\ w.new.status = "paused" /\ w.new.reason = "auto_publish_pending"
      /\ w.lot = AutoLot /\ ~operator
  BY <1>2 DEF WorkFits
<1>6. w.new.reason \notin OfferReasons /\ ~Held(w.new)
  BY <1>5 DEF OfferReasons, Held, HandReasons
<1>7. /\ w.then = "bind" => ~Bound(w.new)
      /\ w.then = "activate" => Bound(w.new) /\ w.new.marked
  BY <1>2 DEF WorkFits, Sent, Bound
<1>8. Matches(v, n)
  <2>1. ~Legacy(v.old)
    BY <1>3, <1>4, <1>7 DEF Legacy
  <2> QED
    BY <1>4, <2>1 DEF Matches, Committed
<1>9. CASE w.then = "bind"
  <2>1. Unsent(v)
    BY <1>4, <1>9 DEF Unsent
  <2>2. WorkFits(v, operator)
    BY <1>4, <1>5, <1>6, <1>9 DEF WorkFits
  <2> QED
    BY <1>1, <1>4, <1>8, <2>1, <2>2
<1>10. CASE w.then = "activate"
  <2>1. /\ v.new.status = "active" /\ v.new.offer = v.old.offer
        /\ v.new.marked = v.old.marked /\ v.new.text = v.old.text
    BY <1>3, <1>4, <1>10, RowMade
  <2>2. Unsent(v)
    BY <1>4, <1>10, <2>1 DEF Unsent
  <2>3. WorkFits(v, operator)
    BY <1>4, <1>5, <1>6, <1>7, <1>10, <2>1 DEF WorkFits
  <2> QED
    BY <1>1, <1>4, <1>8, <2>2, <2>3
<1> QED
  BY <1>3, <1>9, <1>10

\* The commit: the row now says what the offers are, whatever a route has written
\* over it meanwhile.
LEMMA JobCommitsInv ==
    ASSUME IInv, JobCommits PROVE IInv'
<1>1. /\ holder # Nothing /\ holder.at = "commit" /\ Working
      /\ UNCHANGED <<offers, configVars, loopVars, reqs, due, changes, mishaps,
                     unrecorded, crossed, forgotten, lapsed>>
  BY DEF JobCommits, Working
<1>2. PICK w \in WorkRow : w = holder.work
  BY <1>1, WorkTyped
<1>3. PICK lot \in Lots, r \in Row : lot = w.lot /\ r = rows[lot]
  BY <1>1, <1>2, WorkTyped
<1>4. PICK n : n = Written(r, w.old, w.new)
  OBVIOUS
<1>5. /\ rows' = [rows EXCEPT ![lot] = n]
      /\ holder' = IF w.then = "end" THEN Done(holder) ELSE Begin(Following(w))
  BY <1>2, <1>3, <1>4 DEF JobCommits
<1>6. Committed(n, r, w)
  BY <1>1, <1>2, <1>3, <1>4, CommittedRow
<1>7. /\ n \in Row /\ RowFits(lot, n) /\ n.status # "absent"
      /\ n.offer = w.new.offer /\ n.marked = w.new.marked /\ n.text = w.new.text
      /\ lot \notin crossed => n = w.new
      /\ Legacy(n) => Legacy(r)
      /\ Bound(r) => Bound(n)
  BY <1>3, <1>6 DEF Committed
<1>8. rows \in [Lots -> Row] /\ reqs \in [Slots -> Req]
  BY DEF IInv, StoreTypeOK
<1>9. /\ rows'[lot] = n /\ rows' \in [Lots -> Row]
      /\ \A l \in Lots : l # lot => rows'[l] = rows[l]
      /\ \A l \in Lots : rows'[l].status = "absent" => rows[l].status = "absent"
      /\ \A l \in Lots : Legacy(rows'[l]) => Legacy(rows[l])
      /\ \A l \in Lots : Bound(rows[l]) => Bound(rows'[l])
  BY <1>3, <1>5, <1>7, <1>8
<1>10. PICK operator \in BOOLEAN : operator = (holder.by = "request")
  OBVIOUS
<1>11. /\ WorkFits(w, operator) /\ Matches(w, r) /\ Sent(w)
       /\ holder.todo # << >> /\ Head(holder.todo).lot = lot
       /\ Bound(w.old) => /\ w.old.offer \in DOMAIN offers
                          /\ offers[w.old.offer].lot = lot
                          /\ w.old.marked => offers[w.old.offer].marked
  BY <1>1, <1>2, <1>3, <1>10, InHandIs
<1>12. /\ r.offer = w.old.offer /\ r.text = w.old.text /\ r.marked = w.old.marked
       /\ Bound(r) = Bound(w.old)
  BY <1>11 DEF Matches, Bound
<1>13. w.call # "save" => n.offer = w.old.offer /\ n.marked = w.old.marked
  BY <1>7, <1>11 DEF WorkFits
<1>14. w.call = "save" =>
          /\ Bound(n) /\ n.marked
          /\ n.offer \in DOMAIN offers /\ offers[n.offer].lot = lot
          /\ offers[n.offer].text = n.text /\ offers[n.offer].marked = TRUE
          /\ offers[n.offer].on = w.on
          /\ Bound(w.old) => n.offer = w.old.offer
  BY <1>3, <1>7, <1>11 DEF Sent, Form, Bound
<1>15. w.call \in {"none", "save", "toggle", "delete"} /\ w.on \in BOOLEAN
  BY DEF WorkRow
<1>16. \A i \in DOMAIN offers : i \in Nat /\ i # 0 /\ offers[i].lot \in Lots
  BY OffersTyped
<1>17. /\ offers' = offers /\ reqs' = reqs /\ gateway' = gateway /\ mishaps' = mishaps
       /\ unrecorded' = unrecorded /\ crossed' = crossed
  BY <1>1 DEF loopVars
<1>18. \A l \in Lots : On(l) <=> l = lot
  BY <1>1, <1>2, <1>3 DEF On
<1>19. IRows'
  BY <1>7, <1>9 DEF IInv, ISound, IRows
<1>20. IBound'
  <2> SUFFICES ASSUME NEW l \in Lots, Bound(rows'[l])
               PROVE  /\ rows'[l].offer \in DOMAIN offers
                      /\ offers[rows'[l].offer].lot = l
                      /\ rows'[l].marked => offers[rows'[l].offer].marked
    BY <1>17 DEF IBound
  <2>1. CASE l # lot
    <3>1. rows'[l] = rows[l]
      BY <2>1, <1>9
    <3> QED
      BY <3>1 DEF IInv, ISound, IBound
  <2>2. CASE l = lot
    <3>1. rows'[l] = n
      BY <2>2, <1>9
    <3>2. CASE w.call = "save"
      BY <2>2, <3>1, <3>2, <1>14
    <3>3. CASE w.call # "save"
      BY <2>2, <3>1, <3>3, <1>11, <1>13 DEF Bound
    <3> QED
      BY <3>2, <3>3
  <2> QED
    BY <2>1, <2>2
<1>21. IReqs'
  <2> SUFFICES ASSUME NEW i \in Slots PROVE ReqFits(reqs[i])'
    BY DEF IReqs
  <2>1. reqs'[i] = reqs[i] /\ ReqFits(reqs[i])
    BY <1>17 DEF IInv, ISound, IReqs
  <2>2. ManualLot \in Lots
    BY DEF Lots
  <2>3. PICK q : q = reqs[i]
    OBVIOUS
  <2>4. ReqFits(q)'
    BY <1>9, <2>1, <2>2, <2>3 DEF ReqFits
  <2> QED
    BY <2>1, <2>3, <2>4 DEF ReqFits
<1>22. \A i \in DOMAIN offers : offers[i].on /\ ~offers[i].marked => offers[i].lot # lot
  <2> SUFFICES ASSUME NEW i \in DOMAIN offers, offers[i].on, ~offers[i].marked,
                      offers[i].lot = lot
               PROVE  FALSE
    OBVIOUS
  <2>1. w.old.offer = i /\ Bound(w.old) /\ ~w.old.marked
    BY <1>1, <1>2, <1>3, LegacyKept
  <2>2. CASE w.call = "save"
    BY <2>1, <2>2, <1>14
  <2>3. CASE w.call \in {"toggle", "delete"}
    <3>1. offers[w.new.offer].on = w.on /\ w.new.offer = i
      BY <2>1, <2>3, <1>7, <1>11, <1>13 DEF Sent
    <3>2. w.on
      BY <3>1
    <3> QED
      BY <2>1, <2>3, <3>2, <1>11 DEF WorkFits
  <2>4. CASE w.call = "none"
    BY <2>1, <2>4, <1>11 DEF WorkFits
  <2> QED
    BY <2>2, <2>3, <2>4, <1>15
<1>23. PICK h : h = holder'
  OBVIOUS
\* the job that goes on: past this lot, or to what follows for it
<1>24. /\ h \in JobRow /\ h # Nothing
       /\ \A l \in Lots :
            l # lot /\ Waits(l) => \E k \in DOMAIN h.todo : h.todo[k].lot = l
       /\ IJob' /\ IWork'
       /\ \A l \in Lots : ~Pending(l)'
  <2>1. CASE w.then = "end"
    <3>1. GoneOn(h)
      BY <1>1, <1>5, <1>11, <1>23, <2>1, DoneIs
    <3>2. h \in JobRow /\ h # Nothing /\ h.at = "load"
      BY <3>1 DEF GoneOn
    <3>3. ~Working'
      BY <1>23, <3>2 DEF Working
    <3>4. IJob'
      BY <1>1, <1>9, <1>11, <1>17, <1>23, <3>1, GoneOnJob
    <3>5. IWork' /\ \A l \in Lots : ~Pending(l)'
      BY <3>3 DEF IWork, Pending, On
    <3>6. ASSUME NEW l \in Lots, l # lot, Waits(l)
          PROVE  \E k \in DOMAIN h.todo : h.todo[k].lot = l
      BY <1>1, <1>11, <3>1, <3>6, GoneOnWaits
    <3> QED
      BY <3>2, <3>4, <3>5, <3>6
  <2>2. CASE w.then # "end"
    <3>1. PICK v : v = Following(w)
      OBVIOUS
    <3>2. /\ WorkFits(v, holder.by = "request") /\ Unsent(v) /\ Matches(v, n)
          /\ v \in WorkRow /\ v.lot = lot
      BY <1>1, <1>2, <1>3, <1>6, <2>2, <3>1, FollowingFits
    <3>3. PICK job \in JobRow : job = holder
      BY <1>1, WorkTyped
    <3>4. h = Begin(v)
      BY <1>5, <1>23, <2>2, <3>1
    <3>5. /\ h \in JobRow /\ h # Nothing
          /\ h.by = holder.by /\ h.slot = holder.slot /\ h.todo = holder.todo
          /\ h.work = v /\ h.work # Nothing
          /\ h.at = IF v.call = "none" THEN "commit" ELSE "call"
      BY <3>2, <3>3, <3>4, BeginIs
    <3>6. h.at = "call"
      BY <3>2, <3>5 DEF Unsent
    <3>7. IJob'
      <4>1. /\ \A k \in DOMAIN holder.todo : TodoFits(holder.todo[k], holder)
            /\ holder.by # "reconf" => gateway
            /\ holder.by = "request" =>
                 holder.slot \in Slots /\ reqs[holder.slot].at = "runs"
        BY <1>1 DEF IInv, ISound, IJob
      <4>2. \A k \in DOMAIN h.todo : h.todo[k].lot \in Lots
        BY <1>1, <3>5, HolderTyped
      <4>3. \A k \in DOMAIN h.todo : TodoFits(h.todo[k], h)'
        BY <1>9, <3>5, <4>1, <4>2 DEF TodoFits
      <4> QED
        BY <1>17, <1>23, <3>5, <3>6, <4>1, <4>3 DEF IJob
    <3>8. IWork'
      <4>1. Matches(v, rows[v.lot])'
        BY <1>9, <1>17, <3>2 DEF Matches
      <4> QED
        BY <1>11, <1>23, <3>2, <3>5, <3>6, <4>1 DEF IWork, Unsent
    <3>9. \A l \in Lots : ~Pending(l)'
      BY <1>23, <3>5, <3>6 DEF Pending
    <3>10. ASSUME NEW l \in Lots, l # lot, Waits(l)
           PROVE  \E k \in DOMAIN h.todo : h.todo[k].lot = l
      BY <1>1, <3>5, <3>10 DEF Waits
    <3> QED
      BY <3>5, <3>7, <3>8, <3>9, <3>10
  <2> QED
    BY <2>1, <2>2
<1>25. IOn'
  <2> SUFFICES ASSUME NEW i \in DOMAIN offers, offers[i].on, offers[i].lot \notin Lost
               PROVE  /\ rows'[offers[i].lot].offer = i
                      /\ rows'[offers[i].lot].status = "active"
    BY <1>17 DEF IOn, Lost
  <2>1. PICK l \in Lots : l = offers[i].lot
    BY <1>16
  <2>2. (rows[l].offer = i /\ rows[l].status = "active") \/ Selling(l, i)
    BY <2>1 DEF IInv, ISound, IOn
  <2>3. CASE l # lot
    BY <1>9, <1>18, <2>1, <2>2, <2>3 DEF Selling
  <2>4. CASE l = lot
    <3>1. n = w.new /\ r = w.old
      <4>1. lot \notin crossed
        BY <2>1, <2>4 DEF Lost
      <4> QED
        BY <1>3, <1>7, <1>11, <4>1 DEF Matches
    <3>2. CASE Selling(l, i)
      <4>1. w.on /\ w.new.offer = i
        BY <1>2, <3>2 DEF Selling
      <4> QED
        BY <1>9, <1>11, <2>1, <2>4, <3>1, <4>1 DEF WorkFits
    <3>3. CASE rows[l].offer = i /\ rows[l].status = "active"
      <4>1. w.old.offer = i /\ Bound(w.old)
        BY <1>3, <1>16, <2>4, <3>1, <3>3 DEF Bound
      <4>2. n.offer = i /\ w.call # "none"
        BY <1>11, <1>13, <1>14, <4>1 DEF WorkFits
      <4>3. offers[i].on = w.on
        BY <1>7, <1>11, <1>14, <1>15, <4>2 DEF Sent
      <4>4. w.on
        BY <4>3
      <4> QED
        BY <1>9, <1>11, <2>1, <2>4, <3>1, <4>2, <4>4 DEF WorkFits
    <3> QED
      BY <2>2, <3>2, <3>3
  <2> QED
    BY <2>1, <2>3, <2>4
<1>26. IPrice'
  <2> SUFFICES ASSUME NEW l \in Lots, Bound(rows'[l]), l \notin unrecorded
               PROVE  offers[rows'[l].offer].text = rows'[l].text
    BY <1>17 DEF IPrice
  <2>1. CASE l # lot
    <3>1. rows'[l] = rows[l] /\ ~Pending(l)
      BY <1>9, <1>18, <2>1 DEF Pending
    <3> QED
      BY <3>1 DEF IInv, ISound, IPrice
  <2>2. CASE l = lot
    <3>1. rows'[l] = n
      BY <1>9, <2>2
    <3>2. CASE w.call = "save"
      BY <1>14, <3>1, <3>2
    <3>3. CASE w.call # "save"
      <4>1. n.offer = r.offer /\ Bound(r) /\ ~Pending(lot)
        BY <1>2, <1>12, <1>13, <3>1, <3>3 DEF Bound, Pending
      <4>2. offers[r.offer].text = r.text
        BY <1>3, <2>2, <4>1 DEF IInv, ISound, IPrice
      <4>3. w.call \in {"toggle", "delete"}
        BY <1>11, <1>12, <1>15, <3>3, <4>1 DEF WorkFits
      <4>4. n.text = r.text
        BY <1>7, <1>11, <1>12, <4>3 DEF WorkFits
      <4> QED
        BY <3>1, <4>1, <4>2, <4>4
    <3> QED
      BY <3>2, <3>3
  <2> QED
    BY <2>1, <2>2
<1>27. IMark'
  <2> SUFFICES ASSUME NEW i \in DOMAIN offers, offers[i].on, ~offers[i].marked
               PROVE  /\ ~gateway
                      /\ rows'[offers[i].lot].offer = i
                      /\ rows'[offers[i].lot].status = "active"
                      /\ ~rows'[offers[i].lot].marked
                      /\ \E k \in DOMAIN h.todo : h.todo[k].lot = offers[i].lot
    BY <1>17, <1>23, <1>24 DEF IMark, Waits
  <2>1. /\ ~gateway /\ rows[offers[i].lot].offer = i
        /\ rows[offers[i].lot].status = "active"
        /\ ~rows[offers[i].lot].marked /\ Waits(offers[i].lot)
    BY DEF IInv, ISound, IMark
  <2>2. offers[i].lot \in Lots /\ offers[i].lot # lot
    BY <1>16, <1>22
  <2>3. rows'[offers[i].lot] = rows[offers[i].lot]
    BY <1>9, <2>2
  <2> QED
    BY <1>24, <2>1, <2>2, <2>3
<1>28. ICount'
  <2>1. \A l \in Lots : Bound(rows[l]) \/ Pending(l) => Bound(rows'[l])
    BY <1>2, <1>9, <1>14, <1>18 DEF Pending
  <2>2. /\ Bound(rows[AutoLot]) \/ Pending(AutoLot) => Bound(rows'[AutoLot])
        /\ Bound(rows[ManualLot]) \/ Pending(ManualLot) => Bound(rows'[ManualLot])
    BY <2>1 DEF Lots
  <2>3. Has(AutoLot) <= Has(AutoLot)' /\ Has(ManualLot) <= Has(ManualLot)'
    BY <2>2 DEF Has, Bound
  <2>4. /\ Has(AutoLot) \in Nat /\ Has(ManualLot) \in Nat
        /\ Has(AutoLot)' \in Nat /\ Has(ManualLot)' \in Nat
    BY DEF Has
  <2>5. mishaps \in Nat /\ Len(offers) \in Nat
    BY OffersTyped DEF IInv, StoreTypeOK
  <2>6. Len(offers) <= Has(AutoLot)' + Has(ManualLot)' + mishaps
    BY <2>3, <2>4, <2>5 DEF IInv, ISound, ICount
  <2> QED
    BY <1>17, <2>6 DEF ICount
<1>29. StoreTypeOK' /\ RequestHasLoop'
  <2>1. Rest /\ RequestHasLoop
    BY RestKept DEF IInv
  <2>2. Rest' /\ RequestHasLoop'
    BY <1>1, <2>1 DEF Rest, RequestHasLoop, configVars, loopVars
  <2>3. \A l \in Lots : Bound(rows'[l]) => rows'[l].offer \in DOMAIN offers
    BY <1>17, <1>20 DEF IBound
  <2>4. holder' \in JobRow
    BY <1>23, <1>24
  <2> QED
    BY <1>9, <1>17, <2>2, <2>3, <2>4 DEF IInv, StoreTypeOK, Rest
<1>30. IJob' /\ IWork'
  BY <1>24
<1> QED
  BY <1>19, <1>20, <1>21, <1>25, <1>26, <1>27, <1>28, <1>29, <1>30 DEF IInv, ISound

-----------------------------------------------------------------------------
(* The theorems *)

\* no lot yet, or one published by a release without markers
LEMMA InitInv == Init => IInv
<1> SUFFICES ASSUME Init PROVE IInv
  OBVIOUS
<1>1. /\ holder = Nothing /\ reqs = [i \in Slots |-> Idle] /\ due = "no"
      /\ changes = 0 /\ mishaps = 0 /\ unrecorded = {} /\ crossed = {}
      /\ forgotten = FALSE /\ gateway = FALSE /\ dirty = FALSE /\ loop = "none"
      /\ lapsed = "no"
      /\ offered = TRUE /\ price = 1 /\ cap = (rows[AutoLot].status = "active")
  BY DEF Init, WorkInit, LoopInit
<1>2. /\ IJob /\ IWork /\ RequestHasLoop
      /\ \A l \in Lots : ~Pending(l) /\ ~On(l)
  BY <1>1 DEF IJob, IWork, RequestHasLoop, Working, Pending, On
<1>3. reqs \in [Slots -> Req] /\ IReqs
  <2>1. Idle \in Req /\ Idle.at = "idle" /\ Idle.kind = "unused"
    BY ReqAnswered DEF Idle
  <2> QED
    BY <1>1, <2>1 DEF IReqs, ReqFits
\* no lot, or one of a release without markers
<1>4. \/ rows = [l \in Lots |-> NoRow] /\ offers = << >>
      \/ \E l \in Lots, active \in BOOLEAN, row \in Row :
            /\ offers = <<LegacyOffer(l, active)>>
            /\ rows = [k \in Lots |-> IF k # l THEN NoRow ELSE row]
            /\ row.offer = 1 /\ row.marked = FALSE /\ row.text = 1
            /\ row.status = IF active THEN "active" ELSE "paused"
  <2>1. LotInit
    BY DEF Init
  <2>2. ASSUME NEW status \in {"active", "paused"},
               NEW reason \in AutoReasons \cup HandReasons
        PROVE  /\ LegacyRow(status, reason) \in Row
               /\ LegacyRow(status, reason).offer = 1
               /\ LegacyRow(status, reason).marked = FALSE
               /\ LegacyRow(status, reason).text = 1
               /\ LegacyRow(status, reason).status = status
    BY DEF LegacyRow, Row, Editions
  <2>3. ASSUME NEW l \in Lots, NEW active \in BOOLEAN,
               offers = <<LegacyOffer(l, active)>>,
               rows = [k \in Lots |->
                         IF k # l THEN NoRow
                         ELSE IF active THEN LegacyRow("active", "none")
                         ELSE LegacyRow("paused",
                                 IF l = AutoLot THEN "auto_no_account" ELSE "manual")]
        PROVE  \E row \in Row :
                  /\ rows = [k \in Lots |-> IF k # l THEN NoRow ELSE row]
                  /\ row.offer = 1 /\ row.marked = FALSE /\ row.text = 1
                  /\ row.status = IF active THEN "active" ELSE "paused"
    <3>1. /\ "none" \in AutoReasons \cup HandReasons
          /\ "auto_no_account" \in AutoReasons \cup HandReasons
          /\ "manual" \in AutoReasons \cup HandReasons
      BY DEF AutoReasons, HandReasons
    <3>2. CASE active
      BY <2>2, <2>3, <3>1, <3>2
    <3>3. CASE ~active
      <4>1. PICK reason \in AutoReasons \cup HandReasons :
              reason = IF l = AutoLot THEN "auto_no_account" ELSE "manual"
        BY <3>1
      <4>2. rows = [k \in Lots |-> IF k # l THEN NoRow ELSE LegacyRow("paused", reason)]
        BY <2>3, <3>3, <4>1
      <4> QED
        BY <2>2, <3>3, <4>2
    <3> QED
      BY <3>2, <3>3
  <2> QED
    BY <2>1, <2>3 DEF LotInit
<1>5. /\ mishaps \in 0..MaxMishaps /\ changes \in Nat
      /\ {cap, offered, gateway, dirty, forgotten} \subseteq BOOLEAN
      /\ price \in Editions \cup {0, Nothing}
  <2>1. mishaps \in 0..MaxMishaps /\ changes \in Nat
    BY <1>1, BoundsAreNat
  <2>2. cap \in BOOLEAN
    BY <1>1
  <2>3. {cap, offered, gateway, dirty, forgotten} \subseteq BOOLEAN
    BY <1>1, <2>2
  <2>4. price \in Editions \cup {0, Nothing}
    BY <1>1 DEF Editions
  <2> QED
    BY <2>1, <2>3, <2>4
<1>6. CASE rows = [l \in Lots |-> NoRow] /\ offers = << >>
  <2>1. \A l \in Lots : rows[l] = NoRow /\ NoRow \in Row /\ ~Bound(rows[l])
    BY <1>6, NoRowIsRow
  <2>2. offers \in Seq(Offer) /\ Len(offers) = 0 /\ DOMAIN offers = {}
    BY <1>6
  <2>3. StoreTypeOK
    BY <1>1, <1>3, <1>5, <1>6, <2>1, <2>2, BoundsAreNat DEF StoreTypeOK
  <2>4. IRows
    BY <2>1, NoRowIsRow DEF IRows, RowFits
  <2>5. IBound /\ IPrice /\ IOn /\ IMark
    BY <2>1, <2>2 DEF IBound, IPrice, IOn, IMark
  <2>6. ICount
    BY <1>1, <2>2 DEF ICount, Has
  <2> QED
    BY <1>2, <1>3, <2>3, <2>4, <2>5, <2>6 DEF IInv, ISound
<1>7. CASE \E l \in Lots, active \in BOOLEAN, row \in Row :
            /\ offers = <<LegacyOffer(l, active)>>
            /\ rows = [k \in Lots |-> IF k # l THEN NoRow ELSE row]
            /\ row.offer = 1 /\ row.marked = FALSE /\ row.text = 1
            /\ row.status = IF active THEN "active" ELSE "paused"
  <2>1. PICK l \in Lots, active \in BOOLEAN, row \in Row :
            /\ offers = <<LegacyOffer(l, active)>>
            /\ rows = [k \in Lots |-> IF k # l THEN NoRow ELSE row]
            /\ row.offer = 1 /\ row.marked = FALSE /\ row.text = 1
            /\ row.status = IF active THEN "active" ELSE "paused"
    BY <1>7
  <2>2. /\ rows \in [Lots -> Row] /\ rows[l] = row /\ Bound(row)
        /\ \A k \in Lots : k # l => rows[k] = NoRow /\ ~Bound(rows[k])
    BY <2>1, NoRowIsRow DEF Bound
  <2>3. PICK o \in Offer : /\ offers = <<o>> /\ o.lot = l /\ o.on = active
                           /\ o.text = 1 /\ o.marked = FALSE
    <3>1. PICK o : o = LegacyOffer(l, active)
      OBVIOUS
    <3>2. /\ o \in Offer /\ o.lot = l /\ o.on = active
          /\ o.text = 1 /\ o.marked = FALSE
      BY <3>1 DEF LegacyOffer, Offer, Editions
    <3> QED
      BY <2>1, <3>1, <3>2
  <2>4. /\ offers \in Seq(Offer) /\ Len(offers) = 1
        /\ DOMAIN offers = {1} /\ offers[1] = o
    BY <2>3
  <2>5. StoreTypeOK
    <3>1. \A k \in Lots : Bound(rows[k]) => rows[k].offer \in DOMAIN offers
      BY <2>1, <2>2, <2>4
    <3>2. Len(offers) <= 2 + MaxMishaps
      BY <2>4, BoundsAreNat
    <3> QED
      BY <1>1, <1>3, <1>5, <2>2, <2>4, <3>1, <3>2 DEF StoreTypeOK
  <2>6. IRows
    <3>1. RowFits(l, row)
      BY <2>1, <2>2 DEF RowFits
    <3> QED
      BY <2>2, <3>1, NoRowIsRow DEF IRows, RowFits
  <2>7. IBound /\ IPrice
    BY <2>1, <2>2, <2>3, <2>4 DEF IBound, IPrice
  <2>8. IOn
    BY <2>1, <2>2, <2>3, <2>4 DEF IOn
  <2>9. IMark
    BY <1>1, <2>1, <2>2, <2>3, <2>4 DEF IMark, Waits
  <2>10. ICount
    <3>1. Has(AutoLot) + Has(ManualLot) >= 1
      BY <2>2 DEF Has, Lots
    <3> QED
      BY <1>1, <2>4, <3>1 DEF ICount, Has
  <2> QED
    BY <1>2, <1>3, <2>5, <2>6, <2>7, <2>8, <2>9, <2>10 DEF IInv, ISound
<1> QED
  BY <1>4, <1>6, <1>7

\* one step per action
LEMMA NextInv == IInv /\ [Next]_vars => IInv'
<1> SUFFICES ASSUME IInv, [Next]_vars PROVE IInv'
  OBVIOUS
<1>1. CASE CapacityChanges \/ CapacityDrifts \/ CatalogSaved \/ PricesSaved
           \/ TemplatesSaved \/ MessagesSaved \/ Disconnect
  BY <1>1, WorldInv
<1>2. CASE LoopTop /\ UNCHANGED <<lotVars, configVars, holder, reqs, due,
                                  changes, mishaps, unrecorded, crossed,
                                  forgotten, lapsed>>
  BY <1>2, WorldInv
<1>3. ASSUME NEW i \in Slots, CreateLot(i) PROVE IInv'
  BY <1>3, CreateLotInv
<1>4. ASSUME NEW i \in Slots, NEW kind \in Kinds \ {"create"}, NEW lot \in Lots,
             RequestRead(i, kind, lot)
      PROVE  IInv'
  BY <1>4, RequestReadInv
<1>5. ASSUME NEW i \in Slots, RequestDecides(i) PROVE IInv'
  BY <1>5, RequestDecidesInv
<1>6. ASSUME NEW i \in Slots, CreateFailed(i) PROVE IInv'
  BY <1>6, CreateFailedInv
<1>7. ASSUME NEW i \in Slots, RequestRuns(i) PROVE IInv'
  BY <1>7, RequestRunsInv
<1>8. CASE RouteReconciles
  BY <1>8, RouteReconcilesInv
<1>9. CASE TaskLotAuto
  BY <1>9, TaskLotAutoInv
<1>10. CASE LoopReconciles
  BY <1>10, LoopReconcilesInv
<1>11. CASE Reconfigure
  BY <1>11, ReconfigureInv
<1>12. CASE JobLoads
  BY <1>12, JobLoadsInv
<1>13. CASE JobCalls
  BY <1>13, JobCallsInv
<1>14. CASE JobCommits
  BY <1>14, JobCommitsInv
<1>15. CASE JobFails
  BY <1>15, JobFailsInv
<1>16. CASE Restart
  BY <1>16, RestartInv
<1>17. CASE UNCHANGED vars
  <2>1. /\ UNCHANGED <<lotVars, configVars, loopVars, holder, reqs, due, changes,
                       mishaps, unrecorded, crossed, forgotten, lapsed>>
    BY <1>17 DEF vars
  <2>2. Rest' /\ RequestHasLoop'
    BY <2>1, RestKept DEF Rest, IInv, RequestHasLoop, configVars, loopVars
  <2> QED
    BY <2>1, <2>2, WorldStep DEF loopVars
<1> QED
  BY <1>1, <1>2, <1>3, <1>4, <1>5, <1>6, <1>7, <1>8, <1>9, <1>10, <1>11, <1>12,
     <1>13, <1>14, <1>15, <1>16, <1>17 DEF Next

\* The invariant all the theorems of the shop rest on, for any number of changes,
\* mishaps and requests (services/lot_auto_manager.py, services/lot_sync.py,
\* services/app_lifecycle.py, api/routers/lots.py).
THEOREM ShopInvariant == Spec => []IInv
<1>1. Init => IInv
  BY InitInv
<1>2. IInv /\ [Next]_vars => IInv'
  BY NextInv
<1> QED
  BY <1>1, <1>2, PTL DEF Spec

\* Types of rows, offers, requests and the job under the lock; and no more offers
\* than two lots and the mishaps account for, as a creation that is lost is found
\* again by its marker before another is made (LotSyncService.sync_lot).
THEOREM StoreTyped == Spec => []StoreTypeOK
<1>1. IInv => StoreTypeOK
  BY DEF IInv
<1> QED
  BY <1>1, ShopInvariant, PTL

\* A capacity change that is remembered while a transport is installed has a loop
\* to serve it (AppLifecycle.request_capacity_reconcile, reconfigure_funpay).
THEOREM ChangeHasLoop == Spec => []RequestHasLoop
<1>1. IInv => RequestHasLoop
  BY DEF IInv
<1> QED
  BY <1>1, ShopInvariant, PTL

\* an offer on sale, and the row of its lot
LEMMA OnSaleRow ==
    ASSUME IInv, NEW id \in DOMAIN offers, offers[id].on,
           ~Excused(offers[id].lot)
    PROVE  /\ rows[offers[id].lot].offer = id
           /\ rows[offers[id].lot].status # "deleted"
           /\ ~Held(rows[offers[id].lot])
<1>1. PICK l \in Lots : l = offers[id].lot
  BY OffersTyped
<1>2. l \notin Lost /\ ~InHand(l)
  BY <1>1 DEF Excused, Lost
<1>3. (rows[l].offer = id /\ rows[l].status = "active") \/ Selling(l, id)
  BY <1>1, <1>2 DEF IInv, ISound, IOn
<1>4. CASE rows[l].offer = id /\ rows[l].status = "active"
  BY <1>1, <1>4 DEF Held
<1>5. CASE Selling(l, id)
  <2>1. /\ Working /\ On(l) /\ holder.at = "commit" /\ holder.work.lot = l
        /\ holder.work.on /\ holder.work.new.offer = id
    BY <1>5 DEF Selling, On
  <2>2. PICK w \in WorkRow : w = holder.work
    BY <2>1, WorkTyped
  <2>3. holder.by # "request"
    BY <1>2, <2>1, OnIsWorkingOn DEF InHand
  <2>4. PICK operator \in BOOLEAN : operator = (holder.by = "request")
    OBVIOUS
  <2>5. WorkFits(w, operator) /\ Matches(w, rows[l]) /\ Sent(w)
    BY <2>1, <2>2, <2>4, InHandIs
  <2>6. Bound(w.old) /\ ~Held(w.old) /\ w.old.status # "deleted"
    BY <2>1, <2>2, <2>3, <2>4, <2>5 DEF WorkFits
  <2>7. w.new.offer = w.old.offer
    BY <2>5, <2>6 DEF WorkFits, Sent
  <2>8. rows[l] = w.old
    BY <1>2, <2>1, <2>2, <2>5 DEF Matches, Lost
  <2> QED
    BY <1>1, <2>1, <2>2, <2>6, <2>7, <2>8
<1> QED
  BY <1>3, <1>4, <1>5

\* An offer on sale is the one its lot's row names, in a row that is not deleted,
\* wherever the reconciler was stopped between a call and its commit.
THEOREM SaleIsBound == Spec => []OnSaleIsBound
<1>1. IInv => OnSaleIsBound
  BY OnSaleRow DEF OnSaleIsBound, OnSale
<1> QED
  BY <1>1, ShopInvariant, PTL

\* A lot the operator has paused is not on sale, whatever passes, price changes
\* and re-saves of published offers run meanwhile.
THEOREM HeldStaysOff == Spec => []HeldIsOff
<1>1. IInv => HeldIsOff
  BY OnSaleRow DEF HeldIsOff, OnSale
<1> QED
  BY <1>1, ShopInvariant, PTL

\* While the listener runs, every offer on sale carries its lot's marker, and a
\* purchase of it is attributed to that lot (OrderProcessor._find_lot).
THEOREM SaleIsAttributed == Spec => []SoldIsAttributed
<1>1. IInv => SoldIsAttributed
  <2> SUFFICES ASSUME IInv, gateway, NEW id \in DOMAIN offers, offers[id].on
               PROVE  /\ offers[id].marked
                      /\ FoundLot(id) = offers[id].lot \/ Excused(offers[id].lot)
    BY DEF SoldIsAttributed, OnSale
  <2>1. offers[id].marked
    BY DEF IInv, ISound, IMark
  <2>2. ASSUME ~Excused(offers[id].lot) PROVE FoundLot(id) = offers[id].lot
    <3>1. PICK l \in Lots : l = offers[id].lot
      BY OffersTyped
    <3> DEFINE byId == {k \in Lots : rows[k].offer = id}
               byToken == {k \in Lots : /\ offers[id].marked /\ offers[id].lot = k
                                        /\ Bound(rows[k]) /\ rows[k].marked}
    <3>2. rows[l].offer = id /\ id # 0
      BY <2>2, <3>1, OnSaleRow, OffersTyped
    <3>3. \A k \in Lots : rows[k].offer = id => k = l
      BY <3>1, <3>2 DEF IInv, ISound, IBound, Bound
    <3>4. byId \cup byToken = {l}
      BY <3>1, <3>2, <3>3
    <3>5. FoundLot(id) = IF \E k \in Lots : byId \cup byToken = {k}
                         THEN CHOOSE k \in Lots : k \in byId \cup byToken
                         ELSE Nothing
      BY DEF FoundLot
    <3> HIDE DEF byId, byToken
    <3>6. FoundLot(id) = l
      BY <3>4, <3>5
    <3> QED
      BY <3>1, <3>6
  <2> QED
    BY <2>1, <2>2
<1> QED
  BY <1>1, ShopInvariant, PTL

\* Outside the work in hand, FunPay shows the wording and the price the row has,
\* unless a commit was lost after its call.
THEOREM PriceStaysPublished == Spec => []PriceIsPublished
<1>1. IInv => PriceIsPublished
  <2> SUFFICES ASSUME IInv, NEW l \in Lots, Bound(rows[l]), l \notin unrecorded,
                      ~WorkingOn(l)
               PROVE  offers[rows[l].offer].text = rows[l].text
    BY DEF PriceIsPublished
  <2>1. ~Pending(l)
    BY OnIsWorkingOn DEF Pending
  <2> QED
    BY <2>1 DEF IInv, ISound, IPrice
<1> QED
  BY <1>1, ShopInvariant, PTL

-----------------------------------------------------------------------------
(* Stock at rest: the invariant *)

\* the stage of a pass before the one that settles the automatic lot
OrphanStep == [stage |-> "orphan", lot |-> AutoLot]

By(job) == holder # Nothing /\ holder.by = job
Lies(step) == holder # Nothing /\ \E k \in DOMAIN holder.todo : holder.todo[k] = step
\* the matrix stage has decided on the automatic lot, or has still to come to it
AtStock == Working /\ Head(holder.todo) = StockStep
Ahead == Lies(StockStep) /\ ~AtStock

\* A pass that is sure to come: the loop's, which clears forgotten when it ends,
\* and the one a configuration route runs; after a lapse none is, and the row may
\* be left behind.
LoopDue == IF By("loop") THEN dirty \/ Ahead
           ELSE forgotten \/ dirty \/ loop = "pass"
RouteDue == due # "no" \/ (By("route") /\ Ahead)
PassDue == LoopDue \/ RouteDue \/ lapsed = "yes"

\* the jobs whose failure is not passed over in silence
Answers == By("loop") \/ By("route") \/ lapsed = "seen"

AutoRow == rows[AutoLot]
IsActive(row) == row.status = "active"
Wanted == cap /\ Matrix /\ price # 0
Agree(active, held) == (active => cap) /\ (Wanted => active \/ held)
RowAgrees == Agree(IsActive(AutoRow), Held(AutoRow))
LeavesHeld(w) ==
    /\ w.new.status = "paused"
    /\ \/ w.new.reason # w.old.reason /\ w.new.reason \in HandReasons
       \/ w.new.reason = w.old.reason /\ AutoRow.reason \in HandReasons
WorkAgrees(w) == Agree(w.then # "end" \/ IsActive(w.new), LeavesHeld(w))

\* the operator's own switch is in the row; it sets forgotten when it ends
Switched == By("request") /\ OnAuto /\ holder.todo = << >>

\* the row agrees with the capacity and will after the work in hand, or a pass is
\* sure to come
JStock ==
    \/ PassDue
    \/ /\ On(AutoLot) => By("request") \/ WorkAgrees(holder.work)
       /\ RowAgrees \/ (On(AutoLot) /\ Answers) \/ Switched

\* the offer of an active row is on sale, or the loop is sure to save it
InSync == IsActive(AutoRow) => offers[AutoRow.offer].on
Unwritten ==
    On(AutoLot) /\ (By("loop") \/ (holder.at = "commit" /\ holder.work.call # "none"))
JSync == LoopDue \/ Unwritten \/ InSync

JWork ==
    On(AutoLot) =>
        LET w == holder.work
        IN  /\ w.old.status = AutoRow.status
            /\ w.then # "end" => AtStock /\ (Answers \/ PassDue)
            /\ ~AtStock /\ ~By("request") =>
                 /\ IsActive(w.new) => IsActive(w.old)
                 /\ Head(holder.todo) = OrphanStep => ~IsActive(w.new)

\* the orphan stage comes before the matrix stage, and nothing that finds work lies
\* between them
InOrder(todo) ==
    /\ \A i, k \in DOMAIN todo : todo[i] = StockStep /\ todo[k] = StockStep => i = k
    /\ \A i, k \in DOMAIN todo :
         todo[i] = OrphanStep /\ todo[k] = StockStep =>
            /\ i < k
            /\ \A j \in DOMAIN todo :
                 i < j /\ j < k => todo[j].stage \in {"orphan", "matrix"}
Leads(todo) ==
    \A i \in DOMAIN todo : todo[i].stage \in {"invalid", "marker", "orphan"} =>
        \E k \in DOMAIN todo : i < k /\ todo[k] = StockStep
JTodo ==
    holder # Nothing =>
        /\ InOrder(holder.todo)
        /\ holder.by # "reconf" => Leads(holder.todo)
        /\ holder.by = "request" =>
             /\ Len(holder.todo) <= 1
             /\ \A k \in DOMAIN holder.todo : holder.todo[k].lot = AutoLot => OnAuto

\* past the orphan stage the row is not active without a matrix
JOrphan == Ahead /\ ~Lies(OrphanStep) => ~IsActive(AutoRow)

JReqs == \A i \in Slots :
    reqs[i].at = "read" /\ reqs[i].lot = AutoLot /\ ~Bound(reqs[i].seen) =>
        reqs[i].seen.status = "paused"
JLoop == By("loop") => loop = "pass"
\* the scheduler's pass has decided on the automatic lot after a lapse
JSeen == lapsed = "seen" => By("task") /\ ~Ahead

IStock == JStock /\ JSync /\ JWork /\ JTodo /\ JOrphan /\ JReqs /\ JLoop /\ JSeen

-----------------------------------------------------------------------------
(* What the stages make of the automatic lot *)

\* a commit leaves in status, reason and offer what it changed
LEMMA WrittenIs ==
    ASSUME NEW row \in Row, NEW loaded \in Row, NEW changed \in Row
    PROVE  LET n == Written(row, loaded, changed)
           IN  /\ n.status = IF changed.status # loaded.status THEN changed.status
                             ELSE row.status
               /\ n.reason = IF changed.reason # loaded.reason THEN changed.reason
                             ELSE row.reason
               /\ n.offer = IF changed.offer # loaded.offer THEN changed.offer
                            ELSE row.offer
<1>1. DOMAIN row = {"status", "reason", "offer", "marked", "text"}
  BY DEF Row
<1> QED
  BY <1>1 DEF Written

\* the matrix stage: what it does agrees with the capacity
LEMMA MatrixAgrees ==
    ASSUME IInv, NEW stock \in BOOLEAN, NEW full,
           NEW w \in StageWork("matrix", AutoLot, stock, full)
    PROVE  /\ WorkAgrees(w)
           /\ w.then # "end" => ~RowAgrees
<1> DEFINE row == rows[AutoLot]
           new == Repriced(row)
<1>1. /\ row \in Row /\ RowFits(AutoLot, row) /\ AutoLot \in Lots
      /\ price \in Editions \cup {0, Nothing} /\ cap \in BOOLEAN
  BY DEF IInv, ISound, StoreTypeOK, IRows, Lots
<1>2. Matrix /\ price # Nothing
  BY DEF StageWork, Matrix
<1>3. CASE price = 0
  <2>1. w = PauseWork(AutoLot, "auto_template_error")
    BY <1>2, <1>3 DEF StageWork, TemplateErrorWork
  <2>2. w.then = "end" /\ w.new.status = "paused"
    <3>1. "auto_template_error" \in AutoReasons \cup HandReasons
      BY DEF AutoReasons
    <3>2. Paused(row, "auto_template_error").status = "paused"
      BY <1>1, <3>1, RowMade
    <3> QED
      BY <2>1, <3>2 DEF PauseWork, Work
  <2> QED
    BY <1>3, <2>2 DEF WorkAgrees, Agree, Wanted, IsActive, HasCapacity
<1>4. CASE price # 0
  <2>1. w \in MatrixWork(AutoLot, stock)
    BY <1>2, <1>4 DEF StageWork
  <2>2. price \in Editions
    BY <1>1, <1>2, <1>4
  <2>3. /\ new \in Row /\ new.status = row.status /\ new.reason = row.reason
        /\ new.offer = row.offer
    BY <1>1, <2>2, RowRepriced
  <2>4. /\ Paused(new, "auto_publish_pending") \in Row
        /\ Paused(new, "auto_publish_pending").status = "paused"
        /\ Paused(new, "auto_no_account").status = "paused"
        /\ Active(new).status = "active"
    <3>1. "auto_publish_pending" \in AutoReasons \cup HandReasons
          /\ "auto_no_account" \in AutoReasons \cup HandReasons
      BY DEF AutoReasons
    <3> QED
      BY <2>3, <3>1, RowMade
  <2> HIDE DEF new
  <2>5. CASE row.status = "absent"
    <3>1. w = Work(AutoLot, "none", FALSE, NewLot, "bind") /\ HasCapacity
      BY <2>5, <2>1 DEF MatrixWork
    <3>2. w.then = "bind"
      BY <3>1 DEF Work
    <3> QED
      BY <1>2, <1>4, <2>5, <3>1, <3>2
      DEF WorkAgrees, Agree, RowAgrees, Wanted, IsActive, HasCapacity, Held, AutoRow
  <2>6. CASE row.status # "absent" /\ HasCapacity /\ AutoPaused(row)
    <3>1. row.status = "paused" /\ ~Held(row)
      BY <2>6 DEF AutoPaused, Held, AutoReasons, HandReasons
    <3>2. CASE row.reason = "auto_publish_pending"
      <4>1. w = BindWork(AutoLot, new)
        BY <1>4, <2>6, <3>2, <2>1 DEF MatrixWork, new
      <4>2. w.then = "activate"
        BY <4>1 DEF BindWork, Work
      <4> QED
        BY <1>2, <1>4, <2>6, <3>1, <4>2
        DEF WorkAgrees, Agree, RowAgrees, Wanted, IsActive, HasCapacity, AutoRow
    <3>3. CASE row.reason # "auto_publish_pending"
      <4>1. w = Work(AutoLot, SaveOr(ActivateCall(row), row, stock), TRUE,
                     Active(new), "end")
        BY <1>4, <2>6, <3>3, <2>1 DEF MatrixWork, new
      <4>2. w.then = "end" /\ w.new = Active(new)
        BY <4>1 DEF Work
      <4> QED
        BY <2>4, <2>6, <4>2 DEF WorkAgrees, Agree, IsActive, HasCapacity
    <3> QED
      BY <3>2, <3>3
  <2>7. CASE row.status = "active"
    <3>1. ~AutoPaused(row)
      BY <2>7 DEF AutoPaused
    <3>2. CASE HasCapacity
      <4>1. w = Work(AutoLot, "save", TRUE, new, "end")
        BY <1>4, <2>7, <3>1, <3>2, <2>1 DEF MatrixWork, new
      <4>2. w.then = "end" /\ w.new = new
        BY <4>1 DEF Work
      <4> QED
        BY <2>3, <2>7, <3>2, <4>2 DEF WorkAgrees, Agree, IsActive, HasCapacity
    <3>3. CASE ~HasCapacity
      <4>1. w = Work(AutoLot, SaveOr("toggle", row, stock), FALSE,
                     Paused(new, "auto_no_account"), "end")
        BY <1>4, <2>7, <3>1, <3>3, <2>1 DEF MatrixWork, new
      <4>2. w.then = "end" /\ w.new = Paused(new, "auto_no_account")
        BY <4>1 DEF Work
      <4> QED
        BY <2>4, <3>3, <4>2 DEF WorkAgrees, Agree, Wanted, IsActive, HasCapacity
    <3> QED
      BY <3>2, <3>3
  <2>8. CASE row.status \notin {"absent", "active"} /\ ~(HasCapacity /\ AutoPaused(row))
    <3>1. w = Work(AutoLot, IF Bound(row) THEN "save" ELSE "none", FALSE, new, "end")
      BY <1>4, <2>8, <2>1 DEF MatrixWork, new
    <3>2. w.then = "end" /\ w.new = new /\ w.old = row
      BY <3>1 DEF Work
    <3>3. row.status = "paused"
      BY <1>1, <2>8 DEF RowFits, Row
    <3>4. HasCapacity => row.reason \in HandReasons
      BY <1>1, <2>8, <3>3 DEF AutoPaused, Row
    <3> QED
      BY <2>3, <3>2, <3>3, <3>4
      DEF WorkAgrees, Agree, Wanted, IsActive, HasCapacity, LeavesHeld, AutoRow
  <2> QED
    BY <1>1, <2>5, <2>6, <2>7, <2>8
<1> QED
  BY <1>3, <1>4

\* a matrix stage that finds nothing to do
LEMMA MatrixIdle ==
    ASSUME IInv, NEW stock \in BOOLEAN, NEW full,
           StageWork("matrix", AutoLot, stock, full) = {},
           ~Matrix => ~IsActive(AutoRow)
    PROVE  RowAgrees /\ (stock => ~IsActive(AutoRow))
<1> DEFINE row == rows[AutoLot]
           new == Repriced(row)
<1>1. /\ row \in Row /\ RowFits(AutoLot, row)
      /\ price \in Editions \cup {0, Nothing} /\ cap \in BOOLEAN
  BY DEF IInv, ISound, StoreTypeOK, IRows, Lots
<1>2. CASE ~Matrix
  BY <1>2 DEF RowAgrees, Agree, Wanted, IsActive
<1>3. CASE Matrix /\ price = 0
  <2>1. TemplateErrorWork(AutoLot) = {}
    BY <1>3 DEF StageWork
  <2>2. row.status # "active"
    BY <2>1 DEF TemplateErrorWork
  <2> QED
    BY <1>3, <2>2 DEF RowAgrees, Agree, Wanted, IsActive, AutoRow
<1>4. CASE Matrix /\ price # 0
  <2>1. MatrixWork(AutoLot, stock) = {}
    BY <1>4 DEF StageWork
  <2>2. CASE row.status = "absent"
    <3>1. ~cap
      BY <2>1, <2>2 DEF MatrixWork, HasCapacity
    <3> QED
      BY <2>2, <3>1 DEF RowAgrees, Agree, Wanted, IsActive, AutoRow
  <2>3. CASE row.status # "absent"
    <3>1. ~(cap /\ AutoPaused(row))
      BY <2>1, <2>3 DEF MatrixWork, HasCapacity
    <3>2. row.status = "active" => cap /\ ~stock
      BY <2>1, <2>3, <3>1 DEF MatrixWork, HasCapacity
    <3>3. row.status # "active" => row.status = "paused"
      BY <1>1, <2>3 DEF RowFits, Row
    <3>4. cap /\ row.status = "paused" => Held(row)
      BY <1>1, <3>1 DEF AutoPaused, Held, Row
    <3> QED
      BY <3>2, <3>3, <3>4 DEF RowAgrees, Agree, Wanted, IsActive, AutoRow
  <2> QED
    BY <2>2, <2>3
<1> QED
  BY <1>2, <1>3, <1>4

\* the other stages take the lot off sale without a matrix, or leave its row alone
LEMMA OtherAgrees ==
    ASSUME IInv, NEW stage \in Stages \ {"matrix"}, NEW stock, NEW full,
           NEW w \in StageWork(stage, AutoLot, stock, full)
    PROVE  /\ w.then = "end"
           /\ IsActive(w.new) => IsActive(AutoRow)
           /\ stage = "orphan" => ~IsActive(w.new)
           /\ RowAgrees => WorkAgrees(w)
<1> DEFINE row == rows[AutoLot]
<1>1. row \in Row /\ cap \in BOOLEAN
  BY DEF IInv, StoreTypeOK, Lots
<1>2. CASE stage \in {"invalid", "orphan"}
  <2>1. w = PauseWork(AutoLot, "auto_no_config") /\ ~Matrix
    BY <1>2 DEF StageWork, InvalidApplies, OrphanApplies, ConfigurationValid, Matrix
  <2>2. "auto_no_config" \in AutoReasons \cup HandReasons
    BY DEF AutoReasons
  <2>3. Paused(row, "auto_no_config").status = "paused"
    BY <1>1, <2>2, RowMade
  <2>4. w.then = "end" /\ w.new.status = "paused"
    BY <2>1, <2>3 DEF PauseWork, Work
  <2> QED
    BY <2>1, <2>4 DEF WorkAgrees, Agree, Wanted, IsActive
<1>3. CASE stage \in {"marker", "refresh"}
  <2>1. w = Work(AutoLot, "save", row.status = "active", row, "end")
    BY <1>3 DEF StageWork
  <2>2. w.then = "end" /\ w.new = row /\ w.old = row
    BY <2>1 DEF Work
  <2> QED
    BY <1>3, <2>2 DEF WorkAgrees, RowAgrees, Agree, IsActive, Held, LeavesHeld, AutoRow
<1> QED
  BY <1>2, <1>3 DEF Stages

-----------------------------------------------------------------------------
(* The order of a pass *)

\* rest is todo without its first n steps
Behind(rest, todo, n) ==
    /\ rest \in Seq(Step) /\ Len(rest) = Len(todo) - n
    /\ \A j \in DOMAIN rest : j + n \in DOMAIN todo /\ rest[j] = todo[j + n]
    /\ \A i \in DOMAIN todo :
         i > n => i - n \in DOMAIN rest /\ rest[i - n] = todo[i]

\* the list from its step with work on, and behind its head
LEMMA BehindIs ==
    ASSUME NEW todo \in Seq(Step), NEW k \in DOMAIN todo
    PROVE  /\ Behind(SubSeq(todo, k, Len(todo)), todo, k - 1)
           /\ Behind(Tail(todo), todo, 1)
           /\ Head(SubSeq(todo, k, Len(todo))) = todo[k]
           /\ Head(todo) = todo[1] /\ 1 \in DOMAIN todo
<1>1. PICK n \in Nat : n = Len(todo) /\ DOMAIN todo = 1..n
  BY LenProperties
<1>2. k \in 1..n /\ todo \in [1..n -> Step]
  BY <1>1, LenProperties
<1>3. PICK rest : rest = SubSeq(todo, k, n)
  OBVIOUS
<1>4. /\ rest \in Seq(Step) /\ Len(rest) = n - k + 1
      /\ \A i \in 1..(n - k + 1) : rest[i] = todo[k + i - 1]
  BY <1>1, <1>2, <1>3, SubSeqProperties
<1>5. DOMAIN rest = 1..(n - k + 1)
  BY <1>4, LenProperties
<1>6. Behind(rest, todo, k - 1)
  <2>1. Len(rest) = Len(todo) - (k - 1)
    BY <1>1, <1>2, <1>4
  <2>2. \A j \in DOMAIN rest : j + (k - 1) \in DOMAIN todo /\ rest[j] = todo[j + (k - 1)]
    <3> SUFFICES ASSUME NEW j \in 1..(n - k + 1)
                 PROVE  j + (k - 1) \in 1..n /\ rest[j] = todo[j + (k - 1)]
      BY <1>1, <1>5
    <3>1. k + j - 1 = j + (k - 1) /\ j + (k - 1) \in 1..n
      BY <1>2
    <3> QED
      BY <1>4, <3>1
  <2>3. \A i \in DOMAIN todo :
           i > k - 1 => i - (k - 1) \in DOMAIN rest /\ rest[i - (k - 1)] = todo[i]
    <3> SUFFICES ASSUME NEW i \in 1..n, i > k - 1
                 PROVE  i - (k - 1) \in 1..(n - k + 1) /\ rest[i - (k - 1)] = todo[i]
      BY <1>1, <1>5
    <3>1. i - (k - 1) \in 1..(n - k + 1) /\ k + (i - (k - 1)) - 1 = i
      BY <1>2
    <3> QED
      BY <1>4, <3>1
  <2> QED
    BY <1>4, <2>1, <2>2, <2>3 DEF Behind
<1>7. todo # << >> /\ 1 \in 1..n
  BY <1>1, <1>2
<1>8. PICK t : t = Tail(todo)
  OBVIOUS
<1>9. /\ t \in Seq(Step) /\ Len(t) = n - 1
      /\ \A i \in 1..Len(t) : t[i] = todo[i + 1]
  BY <1>1, <1>7, <1>8, HeadTailProperties
<1>10. DOMAIN t = 1..(n - 1)
  BY <1>9, LenProperties
<1>11. Behind(t, todo, 1)
  BY <1>1, <1>9, <1>10 DEF Behind
<1>12. Head(rest) = todo[k]
  <2>1. 1 \in 1..(n - k + 1) /\ k + 1 - 1 = k
    BY <1>2
  <2>2. rest # << >> /\ Head(rest) = rest[1]
    BY <2>1, <1>4, <1>5
  <2> QED
    BY <2>1, <2>2, <1>4
<1>13. Head(todo) = todo[1]
  BY <1>7
<1> QED
  BY <1>1, <1>3, <1>6, <1>7, <1>8, <1>11, <1>12, <1>13

\* what is left of a list in order is in order
LEMMA BehindOrder ==
    ASSUME NEW todo \in Seq(Step), NEW n \in Nat, NEW rest, Behind(rest, todo, n)
    PROVE  /\ InOrder(todo) => InOrder(rest)
           /\ Leads(todo) => Leads(rest)
<1>1. /\ DOMAIN todo = 1..Len(todo) /\ Len(todo) \in Nat
      /\ DOMAIN rest = 1..Len(rest) /\ Len(rest) \in Nat
      /\ DOMAIN todo \subseteq Nat /\ DOMAIN rest \subseteq Nat
  BY LenProperties DEF Behind
<1>2. \A j \in DOMAIN rest : j + n \in DOMAIN todo /\ rest[j] = todo[j + n]
  BY DEF Behind
<1>3. \A i \in DOMAIN todo : i > n => i - n \in DOMAIN rest /\ rest[i - n] = todo[i]
  BY DEF Behind
<1>4. ASSUME InOrder(todo) PROVE InOrder(rest)
  <2>1. ASSUME NEW i \in DOMAIN rest, NEW k \in DOMAIN rest,
               rest[i] = StockStep, rest[k] = StockStep
        PROVE  i = k
    <3>1. i + n = k + n
      BY <1>2, <1>4, <2>1 DEF InOrder
    <3> QED
      BY <1>1, <3>1
  <2>2. ASSUME NEW i \in DOMAIN rest, NEW k \in DOMAIN rest,
               rest[i] = OrphanStep, rest[k] = StockStep
        PROVE  /\ i < k
               /\ \A j \in DOMAIN rest :
                    i < j /\ j < k => rest[j].stage \in {"orphan", "matrix"}
    <3>1. /\ i + n \in DOMAIN todo /\ todo[i + n] = OrphanStep
          /\ k + n \in DOMAIN todo /\ todo[k + n] = StockStep
      BY <1>2, <2>2
    <3>2. /\ i + n < k + n
          /\ \A j \in DOMAIN todo : i + n < j /\ j < k + n =>
                todo[j].stage \in {"orphan", "matrix"}
      BY <1>4, <3>1 DEF InOrder
    <3>3. i < k
      BY <1>1, <3>2
    <3>4. ASSUME NEW j \in DOMAIN rest, i < j, j < k
          PROVE  rest[j].stage \in {"orphan", "matrix"}
      <4>1. j + n \in DOMAIN todo /\ rest[j] = todo[j + n]
        BY <1>2
      <4>2. i + n < j + n /\ j + n < k + n
        BY <1>1, <3>4
      <4> QED
        BY <3>2, <4>1, <4>2
    <3> QED
      BY <3>3, <3>4
  <2> QED
    BY <2>1, <2>2 DEF InOrder
<1>5. ASSUME Leads(todo) PROVE Leads(rest)
  <2> SUFFICES ASSUME NEW i \in DOMAIN rest,
                      rest[i].stage \in {"invalid", "marker", "orphan"}
               PROVE  \E k \in DOMAIN rest : i < k /\ rest[k] = StockStep
    BY DEF Leads
  <2>1. i + n \in DOMAIN todo /\ todo[i + n] = rest[i]
    BY <1>2
  <2>2. PICK k \in DOMAIN todo : i + n < k /\ todo[k] = StockStep
    BY <1>5, <2>1 DEF Leads
  <2>3. k > n /\ i < k - n
    BY <1>1, <2>2
  <2> QED
    BY <1>3, <2>2, <2>3
<1> QED
  BY <1>4, <1>5

\* two steps of a stage at the end of a list
Longer(u, s, stage) ==
    /\ u \in Seq(Step) /\ Len(u) = Len(s) + 2
    /\ \A i \in 1..Len(s) : u[i] = s[i]
    /\ u[Len(s) + 1] = [stage |-> stage, lot |-> AutoLot]
    /\ u[Len(s) + 2] = [stage |-> stage, lot |-> ManualLot]

LEMMA Joined ==
    ASSUME NEW s \in Seq(Step), NEW stage \in Stages
    PROVE  /\ Longer(s \o OnBoth(stage), s, stage)
           /\ s \o << >> = s
<1>1. PICK t : t = OnBoth(stage)
  OBVIOUS
<1>2. t \in Seq(Step) /\ Len(t) = 2
      /\ t[1] = [stage |-> stage, lot |-> AutoLot]
      /\ t[2] = [stage |-> stage, lot |-> ManualLot]
  <2>1. {[stage |-> stage, lot |-> AutoLot], [stage |-> stage, lot |-> ManualLot]}
          \subseteq Step
    BY DEF Step, Lots
  <2> QED
    BY <1>1, <2>1 DEF OnBoth
<1>3. PICK u : u = s \o t
  OBVIOUS
<1>4. PICK n \in Nat : n = Len(s)
  BY LenProperties
<1>5. /\ u \in Seq(Step) /\ Len(u) = n + 2
      /\ \A i \in 1..(n + 2) : u[i] = IF i <= n THEN s[i] ELSE t[i - n]
  <2>1. t \in Seq(Step) /\ Len(t) = 2
    BY <1>2
  <2>2. /\ s \o t \in Seq(Step) /\ Len(s \o t) = Len(s) + Len(t)
        /\ \A i \in 1..Len(s) + Len(t) :
              (s \o t)[i] = IF i <= Len(s) THEN s[i] ELSE t[i - Len(s)]
    BY ONLY <2>1, s \in Seq(Step), ConcatProperties, Zenon
  <2> QED
    BY <1>3, <1>4, <2>1, <2>2
<1>6. \A i \in 1..n : u[i] = s[i]
  BY <1>5
<1>7. u[n + 1] = t[1] /\ u[n + 2] = t[2]
  <2>1. n + 1 \in 1..(n + 2) /\ n + 2 \in 1..(n + 2) /\ n + 1 - n = 1 /\ n + 2 - n = 2
        /\ ~(n + 1 <= n) /\ ~(n + 2 <= n)
    OBVIOUS
  <2> QED
    BY <1>5, <2>1
<1>8. s \o << >> = s
  BY Zenon, ConcatEmptySeq
<1> QED
  BY <1>1, <1>2, <1>3, <1>4, <1>5, <1>6, <1>7, <1>8 DEF Longer

\* the steps of a pass, by number
LEMMA PassSteps ==
    ASSUME NEW published \in BOOLEAN
    PROVE  LET pass == Pass(published)
           IN  /\ pass \in Seq(Step)
               /\ DOMAIN pass = 1..(IF published THEN 10 ELSE 8)
               /\ pass[1].stage = "invalid" /\ pass[2].stage = "invalid"
               /\ pass[3].stage = "marker" /\ pass[4].stage = "marker"
               /\ pass[5] = OrphanStep
               /\ pass[6].stage = "orphan" /\ pass[6].lot = ManualLot
               /\ pass[7] = StockStep
               /\ pass[8].stage = "matrix" /\ pass[8].lot = ManualLot
               /\ published => pass[9].stage = "refresh" /\ pass[10].stage = "refresh"
<1>1. {"invalid", "marker", "orphan", "matrix", "refresh"} \subseteq Stages
  BY DEF Stages
<1>2. PICK o : o = << >>
  OBVIOUS
<1>3. o \in Seq(Step) /\ Len(o) = 0
  BY <1>2
<1>4. PICK a : a = o \o OnBoth("invalid")
  OBVIOUS
<1>5. Longer(a, o, "invalid")
  BY <1>1, <1>3, <1>4, Joined
<1>6. /\ a \in Seq(Step) /\ Len(a) = 2
      /\ a[1].stage = "invalid" /\ a[2].stage = "invalid"
  <2>1. 0 + 1 = 1 /\ 0 + 2 = 2
    OBVIOUS
  <2> QED
    BY <1>3, <1>5, <2>1 DEF Longer
<1>7. a = OnBoth("invalid")
  BY <1>2, <1>4 DEF OnBoth
<1>8. PICK b : b = a \o OnBoth("marker")
  OBVIOUS
<1>9. Longer(b, a, "marker")
  BY <1>1, <1>6, <1>8, Joined
<1>10. /\ b \in Seq(Step) /\ Len(b) = 4
       /\ b[1] = a[1] /\ b[2] = a[2]
       /\ b[3].stage = "marker" /\ b[4].stage = "marker"
  BY <1>6, <1>9 DEF Longer
<1>11. PICK c : c = b \o OnBoth("orphan")
  OBVIOUS
<1>12. Longer(c, b, "orphan")
  BY <1>1, <1>10, <1>11, Joined
<1>13. /\ c \in Seq(Step) /\ Len(c) = 6
       /\ c[1] = b[1] /\ c[2] = b[2] /\ c[3] = b[3] /\ c[4] = b[4]
       /\ c[5] = OrphanStep
       /\ c[6].stage = "orphan" /\ c[6].lot = ManualLot
  BY <1>10, <1>12 DEF Longer, OrphanStep
<1>14. PICK d : d = c \o OnBoth("matrix")
  OBVIOUS
<1>15. Longer(d, c, "matrix")
  BY <1>1, <1>13, <1>14, Joined
<1>16. /\ d \in Seq(Step) /\ Len(d) = 8
       /\ d[1] = c[1] /\ d[2] = c[2] /\ d[3] = c[3] /\ d[4] = c[4]
       /\ d[5] = c[5] /\ d[6] = c[6]
       /\ d[7] = StockStep
       /\ d[8].stage = "matrix" /\ d[8].lot = ManualLot
  BY <1>13, <1>15 DEF Longer, StockStep
<1>17. CASE ~published
  <2>1. Pass(published) = d
    <3>1. d \o << >> = d
      BY <1>1, <1>16, Joined
    <3>2. Pass(published) = d \o << >>
      BY Zenon, <1>7, <1>8, <1>11, <1>14, <1>17 DEF Pass
    <3> QED
      BY <3>1, <3>2
  <2>2. DOMAIN d = 1..8
    BY <1>16, LenProperties
  <2> QED
    BY <1>6, <1>10, <1>13, <1>16, <1>17, <2>1, <2>2
<1>18. CASE published
  <2>1. PICK e : e = d \o OnBoth("refresh")
    OBVIOUS
  <2>2. Longer(e, d, "refresh")
    BY <1>1, <1>16, <2>1, Joined
  <2>3. /\ e \in Seq(Step) /\ Len(e) = 10
        /\ e[1] = d[1] /\ e[2] = d[2] /\ e[3] = d[3] /\ e[4] = d[4]
        /\ e[5] = d[5] /\ e[6] = d[6] /\ e[7] = d[7] /\ e[8] = d[8]
        /\ e[9].stage = "refresh" /\ e[10].stage = "refresh"
    BY <1>16, <2>2 DEF Longer
  <2>4. Pass(published) = e
    BY Zenon, <1>7, <1>8, <1>11, <1>14, <1>18, <2>1 DEF Pass
  <2>5. DOMAIN e = 1..10
    BY <2>3, LenProperties
  <2>6. /\ e[1].stage = "invalid" /\ e[2].stage = "invalid"
        /\ e[3].stage = "marker" /\ e[4].stage = "marker" /\ e[5] = OrphanStep
        /\ e[6].stage = "orphan" /\ e[6].lot = ManualLot
        /\ e[7] = StockStep
        /\ e[8].stage = "matrix" /\ e[8].lot = ManualLot
    BY <1>6, <1>10, <1>13, <1>16, <2>3
  <2> QED
    BY <1>18, <2>3, <2>4, <2>5, <2>6
<1> QED
  BY <1>17, <1>18

\* a pass comes to the automatic lot's orphan stage and then to its matrix stage
LEMMA PassOrder ==
    ASSUME NEW published \in BOOLEAN
    PROVE  LET pass == Pass(published)
           IN  /\ InOrder(pass) /\ Leads(pass)
               /\ 7 \in DOMAIN pass /\ pass[7] = StockStep
               /\ 5 \in DOMAIN pass /\ pass[5] = OrphanStep
<1>1. PICK p : p = Pass(published)
  OBVIOUS
<1>2. PICK n \in {8, 10} : DOMAIN p = 1..n /\ (n = 10 => published)
  BY <1>1, PassSteps
<1>3. /\ p[1].stage = "invalid" /\ p[2].stage = "invalid"
      /\ p[3].stage = "marker" /\ p[4].stage = "marker"
      /\ p[5] = OrphanStep
      /\ p[6].stage = "orphan" /\ p[6].lot = ManualLot
      /\ p[7] = StockStep
      /\ p[8].stage = "matrix" /\ p[8].lot = ManualLot
      /\ published => p[9].stage = "refresh" /\ p[10].stage = "refresh"
  BY <1>1, PassSteps
<1>4. /\ StockStep.stage = "matrix" /\ StockStep.lot = AutoLot
      /\ OrphanStep.stage = "orphan" /\ OrphanStep.lot = AutoLot
  BY DEF StockStep, OrphanStep
<1>5. ASSUME NEW k \in DOMAIN p
      PROVE  /\ p[k] = StockStep => k = 7
             /\ p[k] = OrphanStep => k = 5
             /\ p[k].stage \in {"invalid", "marker", "orphan"} => k < 7
  <2>1. \/ k = 1 \/ k = 2 \/ k = 3 \/ k = 4 \/ k = 5 \/ k = 6 \/ k = 7 \/ k = 8
        \/ (k = 9 /\ published) \/ (k = 10 /\ published)
    BY <1>2
  <2> QED
    BY <1>3, <1>4, <2>1, LotsDiffer
<1>6. 5 \in DOMAIN p /\ 6 \in DOMAIN p /\ 7 \in DOMAIN p
  BY <1>2
<1>7. ASSUME NEW i \in DOMAIN p, NEW k \in DOMAIN p, p[i] = OrphanStep, p[k] = StockStep
      PROVE  /\ i < k
             /\ \A j \in DOMAIN p :
                  i < j /\ j < k => p[j].stage \in {"orphan", "matrix"}
  <2>1. i = 5 /\ k = 7
    BY <1>5, <1>7
  <2>2. \A j \in DOMAIN p : 5 < j /\ j < 7 => j = 6
    BY <1>2
  <2> QED
    BY <1>3, <2>1, <2>2
<1>8. InOrder(p)
  BY <1>5, <1>7 DEF InOrder
<1>9. Leads(p)
  BY <1>3, <1>5, <1>6 DEF Leads
<1> QED
  BY <1>1, <1>3, <1>6, <1>8, <1>9

\* the other lists: the markers of a new listener, and the operator's one step
LEMMA ShortOrder ==
    /\ InOrder(OnBoth("marker"))
    /\ \A k \in DOMAIN OnBoth("marker") : OnBoth("marker")[k].stage = "marker"
    /\ \A kind \in Requests, lot \in Lots :
          LET todo == <<[stage |-> kind, lot |-> lot]>>
          IN InOrder(todo) /\ Leads(todo) /\ DOMAIN todo = {1} /\ Len(todo) = 1
             /\ todo[1].stage = kind /\ todo[1].lot = lot
<1>1. StockStep.stage = "matrix" /\ OrphanStep.stage = "orphan"
  BY DEF StockStep, OrphanStep
<1>2. \A k \in DOMAIN OnBoth("marker") : OnBoth("marker")[k].stage = "marker"
  <2>1. "marker" \in Stages /\ \A k \in 1..2 : k = 1 \/ k = 2
    BY DEF Stages
  <2> QED
    BY <2>1, StagesAreSteps
<1>3. InOrder(OnBoth("marker"))
  BY <1>1, <1>2 DEF InOrder
<1>4. ASSUME NEW kind \in Requests, NEW lot \in Lots,
             NEW todo, todo = <<[stage |-> kind, lot |-> lot]>>
      PROVE  InOrder(todo) /\ Leads(todo) /\ DOMAIN todo = {1} /\ Len(todo) = 1
             /\ todo[1].stage = kind /\ todo[1].lot = lot
  <2>1. DOMAIN todo = {1} /\ Len(todo) = 1 /\ todo[1].stage = kind /\ todo[1].lot = lot
    BY <1>4
  <2>2. kind \notin {"invalid", "marker", "orphan", "matrix"}
    BY DEF Requests
  <2> QED
    BY <1>1, <2>1, <2>2 DEF InOrder, Leads
<1> QED
  BY <1>2, <1>3, <1>4

-----------------------------------------------------------------------------
(* Steps beside the job, and its taking and ending of the lock *)

\* capacity and row agree in the beginning
LEMMA InitStock ==
    ASSUME Init PROVE IStock
<1>1. /\ holder = Nothing /\ reqs = [i \in Slots |-> Idle] /\ lapsed = "no"
      /\ cap = (rows[AutoLot].status = "active")
  BY DEF Init, WorkInit
<1>2. IsActive(AutoRow) => offers[AutoRow.offer].on
  <2>1. LotInit /\ AutoLot \in Lots /\ NoRow.status = "absent"
    BY NoRowIsRow DEF Init, Lots
  <2>2. CASE rows = [l \in Lots |-> NoRow] /\ offers = << >>
    BY <2>1, <2>2 DEF IsActive, AutoRow
  <2>3. ASSUME NEW l \in Lots, NEW active \in BOOLEAN,
               offers = <<LegacyOffer(l, active)>>,
               rows = [k \in Lots |->
                         IF k # l THEN NoRow
                         ELSE IF active THEN LegacyRow("active", "none")
                         ELSE LegacyRow("paused",
                                 IF l = AutoLot THEN "auto_no_account" ELSE "manual")]
        PROVE  IsActive(AutoRow) => offers[AutoRow.offer].on
    <3>1. CASE AutoLot # l \/ ~active
      <4>1. AutoRow.status # "active"
        BY <2>1, <2>3, <3>1 DEF AutoRow, LegacyRow
      <4> QED
        BY <4>1 DEF IsActive
    <3>2. CASE AutoLot = l /\ active
      <4>1. AutoRow.offer = 1
        BY <2>1, <2>3, <3>2 DEF AutoRow, LegacyRow
      <4>2. offers[1].on = TRUE
        BY <2>3, <3>2 DEF LegacyOffer
      <4> QED
        BY <4>1, <4>2
    <3> QED
      BY <3>1, <3>2
  <2> QED
    BY <2>1, <2>2, <2>3 DEF LotInit
<1>3. JReqs
  BY <1>1 DEF JReqs, Idle
<1>4. ~On(AutoLot) /\ ~Ahead /\ \A job : ~By(job)
  BY <1>1 DEF On, Working, Ahead, Lies, By
<1>5. RowAgrees
  BY <1>1 DEF RowAgrees, Agree, Wanted, IsActive, AutoRow
<1> QED
  BY <1>1, <1>2, <1>3, <1>4, <1>5
  DEF IStock, JStock, JSync, InSync, JWork, JTodo, JOrphan, JLoop, JSeen

\* no job: what is left to say
LEMMA StockFree ==
    ASSUME IStock, holder = Nothing
    PROVE  /\ LoopDue <=> forgotten \/ dirty \/ loop = "pass"
           /\ RouteDue <=> due # "no"
           /\ PassDue \/ RowAgrees
           /\ LoopDue \/ InSync
           /\ lapsed # "seen"
BY DEF IStock, JStock, JSync, JSeen, LoopDue, RouteDue, On, Working, By, Switched,
       Unwritten

\* The step leaves the lock free: a pass is sure to come, or the row agrees with the
\* capacity; the loop is, or the offer agrees with the row.
LEMMA StockEnds ==
    ASSUME holder' = Nothing, (PassDue \/ RowAgrees)', (LoopDue \/ InSync)', JReqs',
           lapsed' # "seen"
    PROVE  IStock'
<1>1. (~On(AutoLot) /\ ~Ahead /\ (\A job : ~By(job)))'
  BY DEF On, Working, Ahead, Lies, By
<1> QED
  BY <1>1 DEF IStock, JStock, JSync, JWork, JTodo, JOrphan, JLoop, JSeen

\* A step beside the job: its list and its work are as they were, the row of the
\* automatic lot may become a held one.
LEMMA StockBeside ==
    ASSUME IInv, IStock, UNCHANGED <<holder, offers>>,
           AutoRow'.status = AutoRow.status, AutoRow'.offer = AutoRow.offer,
           AutoRow'.reason = AutoRow.reason \/ AutoRow'.reason \in HandReasons,
           LoopDue => LoopDue', RouteDue => PassDue',
           lapsed' = lapsed \/ lapsed' = "yes",
           PassDue' \/ UNCHANGED configVars,
           By("request") => (OnAuto' <=> OnAuto), JReqs', JLoop'
    PROVE  IStock'
<1>1. /\ Working' <=> Working
      /\ On(AutoLot)' <=> On(AutoLot)
      /\ AtStock' <=> AtStock
      /\ Ahead' <=> Ahead
      /\ Lies(OrphanStep)' <=> Lies(OrphanStep)
      /\ \A job : By(job)' <=> By(job)
      /\ Unwritten' <=> Unwritten
  BY DEF Working, On, AtStock, Ahead, Lies, By, Unwritten, StockStep, OrphanStep
<1>2. /\ PassDue => PassDue'
      /\ Answers => Answers' \/ PassDue'
  BY <1>1 DEF PassDue, Answers
<1>3. IsActive(AutoRow)' <=> IsActive(AutoRow)
  BY DEF IsActive
<1>4. Held(AutoRow) => Held(AutoRow)'
  BY DEF Held
<1>5. ASSUME ~PassDue' PROVE RowAgrees => RowAgrees'
  BY <1>3, <1>4, <1>5 DEF RowAgrees, Agree, Wanted, Matrix, configVars
<1>6. ASSUME ~PassDue', WorkAgrees(holder.work) PROVE WorkAgrees(holder.work)'
  <2>1. LeavesHeld(holder.work) => LeavesHeld(holder.work)'
    BY DEF LeavesHeld
  <2> QED
    BY <1>6, <2>1 DEF WorkAgrees, Agree, Wanted, Matrix, configVars, IsActive
<1>7. Switched' <=> Switched
  BY <1>1 DEF Switched
<1>8. JStock'
  BY <1>1, <1>2, <1>5, <1>6, <1>7 DEF IStock, JStock
<1>9. JSync'
  BY <1>1, <1>3 DEF IStock, JSync, InSync
<1>10. JWork'
  BY <1>1, <1>2 DEF IStock, JWork, IsActive, OrphanStep
<1>11. JTodo'
  BY <1>1 DEF IStock, JTodo, By, InOrder, Leads, StockStep, OrphanStep
<1>12. JOrphan'
  BY <1>1, <1>3 DEF IStock, JOrphan
<1>13. JSeen'
  BY <1>1 DEF IStock, JSeen
<1> QED
  BY <1>8, <1>9, <1>10, <1>11, <1>12, <1>13 DEF IStock

\* the list of the job after the step is in order
LEMMA TodoStock ==
    ASSUME NEW rest, NEW by, holder'.todo = rest, holder'.by = by, InOrder(rest),
           by # "reconf" => Leads(rest),
           by = "request" => /\ Len(rest) <= 1
                             /\ \A k \in DOMAIN rest : rest[k].lot = AutoLot => OnAuto'
    PROVE  JTodo'
<1>1. InOrder(holder.todo)'
  BY DEF InOrder, StockStep, OrphanStep
<1>2. holder'.by # "reconf" => Leads(holder.todo)'
  BY DEF Leads, StockStep
<1>3. holder'.by = "request" =>
        /\ Len(holder'.todo) <= 1
        /\ \A k \in DOMAIN holder'.todo : holder'.todo[k].lot = AutoLot => OnAuto'
  OBVIOUS
<1> QED
  BY <1>1, <1>2, <1>3 DEF JTodo

\* a job takes the lock
LEMMA StockTaken ==
    ASSUME IInv, IStock, holder = Nothing,
           NEW by \in {"request", "route", "task", "loop", "reconf"},
           NEW slot \in Nat, NEW stages \in Seq(Step),
           holder' = Job(by, slot, stages), UNCHANGED <<lotVars, configVars, lapsed>>,
           LoopDue => LoopDue', PassDue => PassDue',
           InOrder(stages), by # "reconf" => Leads(stages),
           by = "request" => /\ Len(stages) = 1
                             /\ stages[1].lot = AutoLot => OnAuto',
           \A k \in DOMAIN stages : stages[k] = StockStep =>
                \E q \in DOMAIN stages : stages[q] = OrphanStep,
           JReqs', JLoop'
    PROVE  IStock'
<1>1. /\ holder' # Nothing /\ holder'.by = by /\ holder'.todo = stages
      /\ holder'.at = "load"
  BY JobIs
<1>2. PassDue \/ RowAgrees
  BY StockFree
<1>3. LoopDue \/ InSync
  BY StockFree
<1>4. ~On(AutoLot)' /\ ~Working'
  BY <1>1 DEF On, Working
<1>5. RowAgrees => RowAgrees'
  BY DEF RowAgrees, Agree, Wanted, Matrix, IsActive, AutoRow, lotVars, configVars, Held
<1>6. InSync => InSync'
  BY DEF InSync, IsActive, AutoRow, lotVars
<1>7. JStock' /\ JSync' /\ JWork'
  BY <1>2, <1>3, <1>4, <1>5, <1>6 DEF JStock, JSync, JWork
<1>8. JTodo'
  <2>1. Len(stages) = 1 => Len(stages) <= 1 /\ \A k \in DOMAIN stages : k = 1
    BY LenProperties
  <2> QED
    BY <1>1, <2>1, TodoStock
<1>9. JOrphan'
  BY <1>1 DEF JOrphan, Ahead, Lies, StockStep, OrphanStep
<1>10. JSeen'
  BY StockFree DEF JSeen
<1> QED
  BY <1>7, <1>8, <1>9, <1>10 DEF IStock

\* the world, the routes' settings and the head of the loop
LEMMA WorldStock ==
    ASSUME IInv, IStock,
           \/ CapacityChanges \/ CapacityDrifts \/ CatalogSaved \/ PricesSaved
           \/ TemplatesSaved \/ MessagesSaved \/ Disconnect
           \/ LoopTop /\ UNCHANGED <<lotVars, configVars, holder, reqs, due,
                                     changes, mishaps, unrecorded, crossed,
                                     forgotten, lapsed>>
    PROVE  IStock'
<1>1. UNCHANGED <<rows, offers, holder, reqs>>
  BY DEF CapacityChanges, CapacityDrifts, CatalogSaved, PricesSaved, TemplatesSaved, MessagesSaved,
         Saving, Disconnect, lotVars
<1>2. /\ AutoRow' = AutoRow
      /\ By("request") => (OnAuto' <=> OnAuto)
      /\ \A job : By(job)' <=> By(job)
      /\ Ahead' <=> Ahead
      /\ JReqs'
  BY <1>1 DEF AutoRow, OnAuto, By, Ahead, Lies, AtStock, Working, StockStep, IStock,
              JReqs
<1>3. /\ LoopDue => LoopDue'
      /\ RouteDue => PassDue'
      /\ PassDue' \/ UNCHANGED configVars
      /\ lapsed' = lapsed \/ lapsed' = "yes"
      /\ JLoop'
  <2>1. CASE CapacityChanges
    <3>1. dirty' = TRUE /\ (loop = "pass" => loop' = "pass") /\ lapsed' = lapsed
      BY <2>1 DEF CapacityChanges, Request, Spawned
    <3> QED
      BY <1>2, <3>1 DEF IStock, JLoop, LoopDue, PassDue
  <2>5. CASE CapacityDrifts
    <3>1. UNCHANGED <<dirty, loop, due, forgotten>> /\ lapsed' = "yes"
      BY <2>5 DEF CapacityDrifts, loopVars
    <3> QED
      BY <1>2, <3>1 DEF IStock, JLoop, LoopDue, PassDue
  <2>2. CASE CatalogSaved \/ PricesSaved \/ TemplatesSaved \/ MessagesSaved
    <3>1. due' # "no" /\ UNCHANGED <<loopVars, forgotten, lapsed>>
      BY <2>2 DEF CatalogSaved, PricesSaved, TemplatesSaved, MessagesSaved, Saving
    <3> QED
      BY <1>2, <3>1 DEF IStock, JLoop, LoopDue, PassDue, RouteDue, loopVars
  <2>3. CASE Disconnect
    <3>1. UNCHANGED <<dirty, loop, due, forgotten, lapsed, configVars>>
      BY <2>3 DEF Disconnect, Disconnected
    <3> QED
      BY <1>2, <3>1 DEF IStock, JLoop, LoopDue, PassDue, RouteDue
  <2>4. CASE LoopTop /\ UNCHANGED <<due, configVars, forgotten, lapsed>>
    <3>1. /\ loop = "top" /\ ~By("loop")
          /\ (dirty' = FALSE /\ loop' = "pass") \/ dirty' = dirty
      BY <2>4 DEF LoopTop, IStock, JLoop
    <3> QED
      BY <1>2, <2>4, <3>1 DEF JLoop, LoopDue, PassDue, RouteDue
  <2> QED
    BY <2>1, <2>2, <2>3, <2>4, <2>5
<1> QED
  BY <1>1, <1>2, <1>3, StockBeside

\* A route's own step: at most it writes a row, of the automatic lot only to hold it.
LEMMA RouteStock ==
    ASSUME IInv, IStock,
           UNCHANGED <<holder, offers, configVars, loopVars, due, forgotten, lapsed>>,
           AutoRow'.status = AutoRow.status, AutoRow'.offer = AutoRow.offer,
           AutoRow'.reason = AutoRow.reason \/ AutoRow'.reason \in HandReasons,
           NEW i \in Slots, reqs[i].at # "runs", NEW q \in Req,
           reqs' = [reqs EXCEPT ![i] = q],
           q.at = "read" /\ q.lot = AutoLot /\ ~Bound(q.seen) => q.seen.status = "paused"
    PROVE  IStock'
<1>1. reqs \in [Slots -> Req]
  BY DEF IInv, StoreTypeOK
<1>2. JReqs'
  BY <1>1 DEF IStock, JReqs
<1>3. By("request") => (OnAuto' <=> OnAuto)
  <2> SUFFICES ASSUME By("request") PROVE OnAuto' <=> OnAuto
    OBVIOUS
  <2>1. holder.slot # i
    BY NotRunning DEF By
  <2>2. holder.slot \in Slots
    BY DEF By, IInv, ISound, IJob
  <2> QED
    BY <1>1, <2>1, <2>2 DEF OnAuto
<1>4. /\ LoopDue => LoopDue'
      /\ RouteDue => PassDue'
      /\ JLoop'
  BY DEF LoopDue, RouteDue, PassDue, By, Ahead, Lies, AtStock, Working, StockStep,
         loopVars, IStock, JLoop
<1> QED
  BY <1>2, <1>3, <1>4, StockBeside

\* a request loads its row: one that is not bound is paused
LEMMA RequestReadStock ==
    ASSUME IInv, IStock, NEW i \in Slots, NEW kind \in Kinds \ {"create"},
           NEW lot \in Lots, RequestRead(i, kind, lot)
    PROVE  IStock'
<1>1. PICK q : q = [kind |-> kind, lot |-> lot, at |-> "read", seen |-> rows[lot]]
  OBVIOUS
<1>2. rows[lot] \in Row /\ RowFits(lot, rows[lot])
  BY DEF IInv, ISound, IRows, StoreTypeOK
<1>3. /\ q \in Req /\ q.lot = lot /\ q.seen = rows[lot]
  BY <1>1, <1>2 DEF Req
<1>4. lot = AutoLot /\ ~Bound(rows[lot]) => rows[lot].status = "paused"
  BY <1>2 DEF RowFits, Row, RequestRead
<1>5. /\ reqs[i].at # "runs" /\ reqs' = [reqs EXCEPT ![i] = q]
      /\ UNCHANGED <<holder, offers, rows, configVars, loopVars, due, forgotten,
                      lapsed>>
  BY <1>1 DEF RequestRead, Arrives, Quiet, lotVars
<1>6. AutoRow' = AutoRow
  BY <1>5 DEF AutoRow
<1> QED
  BY <1>3, <1>4, <1>5, <1>6, RouteStock

\* a new manual lot, and one whose publication failed
LEMMA CreateStock ==
    ASSUME IInv, IStock, NEW i \in Slots, CreateLot(i) \/ CreateFailed(i)
    PROVE  IStock'
<1>1. reqs \in [Slots -> Req] /\ rows \in [Lots -> Row] /\ AutoLot \in Lots
      /\ ManualLot \in Lots
  BY DEF IInv, StoreTypeOK, Lots
<1>2. UNCHANGED <<holder, offers, configVars, loopVars, due, forgotten, lapsed>>
  BY DEF CreateLot, CreateFailed, Quiet
<1>3. PICK lot \in Lots, q \in Req :
        /\ q.at # "read" /\ reqs' = [reqs EXCEPT ![i] = q] /\ reqs[i].at # "runs"
        /\ \E new : rows' = [rows EXCEPT ![lot] = new]
        /\ lot = ManualLot
  <2>1. CASE CreateLot(i)
    <3>1. PICK q : q = [kind |-> "create", lot |-> ManualLot, at |-> "publish",
                        seen |-> Nothing]
      OBVIOUS
    <3>2. q \in Req /\ q.at = "publish"
      BY <1>1, <3>1 DEF Req, Kinds, Requests
    <3> QED
      BY <1>1, <2>1, <3>1, <3>2 DEF CreateLot, Arrives
  <2>2. CASE CreateFailed(i)
    <3>1. ReqFits(reqs[i])
      BY DEF IInv, ISound, IReqs
    <3>2. reqs[i].lot = ManualLot
      BY <2>2, <3>1 DEF CreateFailed, ReqFits
    <3> QED
      BY <1>1, <2>2, <3>2, ReqAnswered DEF CreateFailed
  <2> QED
    BY <2>1, <2>2
<1>4. AutoRow' = AutoRow
  BY <1>1, <1>3, LotsDiffer DEF AutoRow
<1> QED
  BY <1>2, <1>3, <1>4, RouteStock

\* The row a request writes without the lock was paused when it was read, and is
\* held from now on.
LEMMA RequestDecidesStock ==
    ASSUME IInv, IStock, NEW i \in Slots, RequestDecides(i)
    PROVE  IStock'
<1>1. /\ reqs \in [Slots -> Req] /\ rows \in [Lots -> Row] /\ AutoLot \in Lots
      /\ reqs[i] \in Req /\ ReqFits(reqs[i]) /\ reqs[i].at = "read"
  BY DEF IInv, StoreTypeOK, ISound, IReqs, Lots, RequestDecides
<1>2. UNCHANGED <<holder, offers, configVars, loopVars, due, forgotten, lapsed>>
  BY DEF RequestDecides, Quiet
<1>3. CASE /\ UNCHANGED rows
           /\ \E at \in Requests :
                 reqs' = [reqs EXCEPT ![i].at = at, ![i].seen = Nothing]
  <2>1. PICK at \in Requests :
          reqs' = [reqs EXCEPT ![i].at = at, ![i].seen = Nothing]
    BY <1>3
  <2>2. PICK r \in Req : r = reqs[i]
    BY <1>1
  <2>3. PICK q : q = [r EXCEPT !.at = at, !.seen = Nothing]
    OBVIOUS
  <2>4. q \in Req /\ q.at = at /\ at # "read"
    BY <2>3 DEF Req, Requests
  <2>5. reqs' = [reqs EXCEPT ![i] = q]
    BY <1>1, <2>1, <2>2, <2>3
  <2>6. AutoRow' = AutoRow
    BY <1>3 DEF AutoRow
  <2> QED
    BY <1>1, <1>2, <2>4, <2>5, <2>6, RouteStock
<1>4. CASE WriteUnbound(i) /\ ~Bound(reqs[i].seen) /\ reqs[i].kind # "on"
  <2>1. PICK req \in Req : req = reqs[i]
    BY <1>1
  <2>2. req.seen \in Row /\ req.kind \in {"off", "delete"} /\ req.lot \in Lots
    BY <1>1, <1>4, <2>1 DEF ReqFits
  <2>3. reqs' = [reqs EXCEPT ![i] = Answered] /\ Answered \in Req
        /\ Answered.at # "read"
    BY <1>4, ReqAnswered DEF WriteUnbound
  <2>4. CASE req.lot # AutoLot
    <3>1. AutoRow' = AutoRow
      BY <1>1, <1>4, <2>1, <2>2, <2>4 DEF WriteUnbound, AutoRow
    <3> QED
      BY <1>1, <1>2, <2>3, <3>1, RouteStock
  <2>5. CASE req.lot = AutoLot
    <3>1. req.kind = "off"
      BY <1>1, <2>1, <2>2, <2>5, LotsDiffer DEF ReqFits
    <3>2. req.seen.status = "paused"
      BY <1>1, <1>4, <2>1, <2>5 DEF IStock, JReqs
    <3>3. PICK new : new = Paused(req.seen, "manual")
      OBVIOUS
    <3>4. /\ new \in Row /\ new.status = "paused" /\ new.reason = "manual"
          /\ new.offer = req.seen.offer
      <4>1. "manual" \in AutoReasons \cup HandReasons
        BY DEF HandReasons
      <4> QED
        BY <2>2, <3>3, <4>1, RowMade
    <3>5. PICK n : n = Written(AutoRow, req.seen, new)
      OBVIOUS
    <3>6. AutoRow \in Row
      BY <1>1 DEF AutoRow
    <3>7. /\ n.status = AutoRow.status /\ n.offer = AutoRow.offer
          /\ n.reason = AutoRow.reason \/ n.reason = "manual"
      BY <2>2, <3>2, <3>4, <3>5, <3>6, WrittenIs
    <3>8. AutoRow' = n
      BY <1>1, <1>4, <2>1, <2>5, <3>1, <3>3, <3>5 DEF WriteUnbound, AutoRow
    <3> QED
      BY <1>1, <1>2, <2>3, <3>7, <3>8, RouteStock DEF HandReasons
  <2> QED
    BY <2>4, <2>5
<1>5. {"on", "off", "delete", "publish"} \subseteq Requests
  BY DEF Requests
<1> QED
  BY <1>1, <1>3, <1>4, <1>5 DEF RequestDecides, ReqFits

\* the operator's request takes the lock; without a transport it is answered
LEMMA RequestRunsStock ==
    ASSUME IInv, IStock, NEW i \in Slots, RequestRuns(i)
    PROVE  IStock'
<1>1. /\ reqs \in [Slots -> Req] /\ reqs[i] \in Req /\ reqs[i].at \in Requests
      /\ ReqFits(reqs[i]) /\ holder = Nothing
  BY DEF IInv, StoreTypeOK, ISound, IReqs, RequestRuns
<1>2. UNCHANGED <<rows, offers, configVars, loopVars, due, forgotten, lapsed>>
  BY DEF RequestRuns, Quiet, lotVars
<1>3. AutoRow' = AutoRow
  BY <1>2 DEF AutoRow
<1>4. reqs[i].at \notin {"idle", "done", "runs"} /\ reqs[i].lot \in Lots
  BY <1>1 DEF Requests, ReqFits
<1>5. CASE ~gateway
  <2>1. PICK q \in Req : q = AfterFailure(reqs[i])
    BY <1>1, <1>4, ReqFailed
  <2>2. q.at # "read"
    BY <1>1, <2>1, ReqAnswered DEF AfterFailure, Req
  <2>3. holder' = holder /\ reqs' = [reqs EXCEPT ![i] = q]
    BY <1>5, <2>1 DEF RequestRuns
  <2> QED
    BY <1>2, <1>3, <1>4, <2>2, <2>3, RouteStock
<1>6. CASE gateway
  <2>1. PICK req \in Req : req = reqs[i]
    BY <1>1
  <2>2. PICK stages : stages = <<[stage |-> req.at, lot |-> req.lot]>>
    OBVIOUS
  <2>3. /\ holder' = Job("request", i, stages)
        /\ reqs' = [reqs EXCEPT ![i].at = "runs"]
    BY <1>6, <2>1, <2>2 DEF RequestRuns, Takes
  <2>4. /\ InOrder(stages) /\ Leads(stages) /\ DOMAIN stages = {1}
        /\ Len(stages) = 1 /\ stages[1].stage \in Requests
        /\ stages[1].lot = req.lot
    BY <1>1, <1>4, <2>1, <2>2, ShortOrder
  <2>5. stages \in Seq(Step)
    <3>1. PICK step : step = [stage |-> req.at, lot |-> req.lot]
      OBVIOUS
    <3>2. step \in Step
      BY <1>1, <1>4, <2>1, <3>1 DEF Step
    <3> QED
      BY <2>2, <3>1, <3>2
  <2>6. i \in Nat /\ holder'.slot = i /\ holder' # Nothing /\ holder'.by = "request"
    BY <2>3, <2>5, JobIs DEF Slots
  <2>7. reqs'[i].lot = req.lot /\ reqs'[i].at = "runs"
    BY <1>1, <2>1, <2>3 DEF Req
  <2>8. stages[1].lot = AutoLot => OnAuto'
    BY <2>4, <2>6, <2>7 DEF OnAuto
  <2>9. JReqs' /\ JLoop'
    BY <1>1, <2>3, <2>6, <2>7 DEF IStock, JReqs, JLoop, By
  <2>10. \A k \in DOMAIN stages : stages[k] # StockStep
    BY <2>4 DEF StockStep, Requests
  <2>11. /\ LoopDue => LoopDue'
         /\ PassDue => PassDue'
    BY <1>1, <1>2, <2>6 DEF LoopDue, PassDue, RouteDue, By, loopVars
  <2> QED
    BY <1>1, <1>2, <2>3, <2>4, <2>5, <2>6, <2>8, <2>9, <2>10, <2>11, StockTaken
    DEF lotVars
<1> QED
  BY <1>5, <1>6

\* the passes
LEMMA PassStock ==
    ASSUME IInv, IStock, holder = Nothing,
           NEW by \in {"route", "task", "loop"}, NEW published \in BOOLEAN,
           holder' = Job(by, 0, Pass(published)),
           UNCHANGED <<lotVars, configVars, loopVars, reqs, forgotten, lapsed>>,
           due' = due \/ by = "route", by = "loop" => loop = "pass"
    PROVE  IStock'
<1>1. PICK pass \in Seq(Step) : pass = Pass(published)
  BY PassSteps
<1>2. /\ InOrder(pass) /\ Leads(pass)
      /\ 7 \in DOMAIN pass /\ pass[7] = StockStep
      /\ 5 \in DOMAIN pass /\ pass[5] = OrphanStep
  BY <1>1, PassOrder
<1>3. holder' # Nothing /\ holder'.by = by /\ holder'.todo = pass /\ holder'.at = "load"
  <2>1. PICK none \in Nat : none = 0
    OBVIOUS
  <2>2. by \in {"request", "route", "task", "loop", "reconf"}
    OBVIOUS
  <2>3. holder' = Job(by, none, pass)
    BY <1>1, <2>1
  <2> QED
    BY <2>2, <2>3, JobIs
<1>4. Ahead'
  BY <1>2, <1>3 DEF Ahead, Lies, AtStock, Working, StockStep
<1>5. /\ LoopDue => LoopDue'
      /\ PassDue => PassDue'
  BY <1>3, <1>4 DEF LoopDue, PassDue, RouteDue, By, loopVars
<1>6. JReqs' /\ JLoop'
  BY <1>3 DEF IStock, JReqs, JLoop, By, loopVars
<1> QED
  BY <1>1, <1>2, <1>5, <1>6, StockTaken

\* the passes and the new listener take the lock
LEMMA TakesStock ==
    ASSUME IInv, IStock,
           RouteReconciles \/ TaskLotAuto \/ LoopReconciles \/ Reconfigure
    PROVE  IStock'
<1>1. holder = Nothing
  BY DEF RouteReconciles, TaskLotAuto, LoopReconciles, Reconfigure, Takes
<1>2. (LoopDue <=> forgotten \/ dirty \/ loop = "pass")
      /\ (RouteDue <=> due # "no") /\ lapsed # "seen"
  BY <1>1, StockFree
<1>3. CASE RouteReconciles /\ gateway
  <2>1. (due = "published") \in BOOLEAN
    OBVIOUS
  <2> QED
    BY <1>1, <1>3, <2>1, PassStock DEF RouteReconciles, Takes
<1>4. CASE RouteReconciles /\ ~gateway
  <2>1. /\ forgotten' = TRUE /\ holder' = Nothing
        /\ UNCHANGED <<offers, rows, reqs, lapsed>>
    BY <1>1, <1>4 DEF RouteReconciles, lotVars
  <2>2. LoopDue' /\ JReqs'
    BY <2>1 DEF LoopDue, By, IStock, JReqs
  <2> QED
    BY <1>2, <2>1, <2>2, StockEnds DEF PassDue
<1>5. CASE TaskLotAuto
  <2>1. /\ holder' = Job("task", 0, Pass(FALSE))
        /\ UNCHANGED <<lotVars, configVars, loopVars, reqs, forgotten, lapsed, due>>
    BY <1>5 DEF TaskLotAuto, Takes, Quiet
  <2>2. FALSE \in BOOLEAN /\ "task" \in {"route", "task", "loop"}
    OBVIOUS
  <2> QED
    BY <1>1, <2>1, <2>2, PassStock
<1>6. CASE LoopReconciles /\ gateway
  <2>1. /\ holder' = Job("loop", 0, Pass(FALSE)) /\ loop = "pass"
        /\ UNCHANGED <<lotVars, configVars, loopVars, reqs, forgotten, lapsed, due>>
    BY <1>6 DEF LoopReconciles, Takes
  <2>2. FALSE \in BOOLEAN /\ "loop" \in {"route", "task", "loop"}
    OBVIOUS
  <2> QED
    BY <1>1, <2>1, <2>2, PassStock
<1>7. CASE LoopReconciles /\ ~gateway
  <2>1. /\ dirty' = TRUE /\ holder' = Nothing
        /\ UNCHANGED <<offers, rows, reqs, lapsed>>
    BY <1>1, <1>7 DEF LoopReconciles, PassEnds, lotVars
  <2>2. LoopDue' /\ JReqs'
    BY <2>1 DEF LoopDue, By, IStock, JReqs
  <2> QED
    BY <1>2, <2>1, <2>2, StockEnds DEF PassDue
<1>8. CASE Reconfigure
  <2>1. /\ holder' = Job("reconf", 0, OnBoth("marker"))
        /\ UNCHANGED <<lotVars, configVars, loopVars, reqs, due, forgotten, lapsed>>
    BY <1>8 DEF Reconfigure, Takes
  <2>2. PICK stages : stages = OnBoth("marker")
    OBVIOUS
  <2>3. /\ stages \in Seq(Step) /\ InOrder(stages)
        /\ \A k \in DOMAIN stages : stages[k] # StockStep
    <3>1. OnBoth("marker") \in Seq(Step)
      BY DEF OnBoth, Step, Stages, Lots
    <3> QED
      BY <2>2, <3>1, ShortOrder DEF StockStep
  <2>4. holder' # Nothing /\ holder'.by = "reconf"
    <3>1. PICK by \in {"request", "route", "task", "loop", "reconf"} : by = "reconf"
      OBVIOUS
    <3>2. PICK none \in Nat : none = 0
      OBVIOUS
    <3>3. holder' = Job(by, none, stages)
      BY <2>1, <2>2, <3>1, <3>2
    <3> QED
      BY <2>3, <3>1, <3>3, JobIs
  <2>5. /\ LoopDue => LoopDue'
        /\ PassDue => PassDue'
    BY <1>1, <2>1, <2>4 DEF LoopDue, PassDue, RouteDue, By, loopVars
  <2>6. JReqs' /\ JLoop'
    BY <2>1, <2>4 DEF IStock, JReqs, JLoop, By
  <2> QED
    BY <1>1, <2>1, <2>2, <2>3, <2>5, <2>6, StockTaken
<1> QED
  BY <1>3, <1>4, <1>5, <1>6, <1>7, <1>8

-----------------------------------------------------------------------------
(* The job loads, fails and ends *)

\* an orphan stage and a matrix stage that find nothing to do
LEMMA StockIdle ==
    ASSUME IInv, IStock, holder # Nothing, holder.at = "load",
           NEW s \in DOMAIN holder.todo, holder.todo[s] = StockStep,
           \A j \in DOMAIN holder.todo : j <= s => StageOf(holder.todo[j]) = {}
    PROVE  RowAgrees /\ (By("loop") => ~IsActive(AutoRow))
<1>1. PICK stock \in BOOLEAN : stock = (holder.by = "loop")
  OBVIOUS
<1>2. /\ DOMAIN holder.todo \subseteq Nat
      /\ \A j \in DOMAIN holder.todo : j <= j
  BY HolderTyped
<1>3. StageWork("matrix", AutoLot, stock, holder.full) = {}
  <2>1. StageOf(StockStep) = {}
    BY <1>2
  <2>2. StockStep.stage = "matrix" /\ StockStep.lot = AutoLot /\ "matrix" \in Stages
    BY DEF StockStep, Stages
  <2> QED
    BY <1>1, <2>1, <2>2 DEF StageOf
<1>4. ~Matrix => ~IsActive(AutoRow)
  <2>1. CASE Lies(OrphanStep)
    <3>1. PICK q \in DOMAIN holder.todo : holder.todo[q] = OrphanStep
      BY <2>1 DEF Lies
    <3>2. q < s
      BY <3>1 DEF IStock, JTodo, InOrder
    <3>3. StageOf(OrphanStep) = {}
      BY <1>2, <3>1, <3>2
    <3>4. OrphanStep.stage = "orphan" /\ OrphanStep.lot = AutoLot /\ "orphan" \in Stages
      BY DEF OrphanStep, Stages
    <3>5. StageWork("orphan", AutoLot, stock, holder.full) = {}
      BY <1>1, <3>3, <3>4 DEF StageOf
    <3>6. ~OrphanApplies(AutoLot)
      BY <3>5 DEF StageWork
    <3> QED
      BY <3>6 DEF OrphanApplies, IsActive, AutoRow
  <2>2. CASE ~Lies(OrphanStep)
    <3>1. Ahead
      BY DEF Ahead, Lies, AtStock, Working
    <3> QED
      BY <2>2, <3>1 DEF IStock, JOrphan
  <2> QED
    BY <2>1, <2>2
<1> QED
  BY <1>1, <1>3, <1>4, MatrixIdle DEF By

\* A job that raises: the loop and the routes leave word, the others have lost
\* nothing they were sure to do.
LEMMA AbandonStock ==
    ASSUME IInv, IStock, holder # Nothing, holder.todo # << >>,
           NEW effect \in BOOLEAN, Abandon(effect),
           UNCHANGED <<lotVars, configVars, due>>,
           Unwritten => effect \/ By("loop")
    PROVE  IStock'
<1>1. holder' = Nothing /\ ~By("loop")' /\ ~By("route")'
  BY DEF Abandon, By
<1>2. JReqs'
  <2>1. \A q : AfterFailure(q).at # "read" \/ AfterFailure(q).at = q.at
    BY ReqAnswered DEF AfterFailure
  <2>2. reqs \in [Slots -> Req]
    BY DEF IInv, StoreTypeOK
  <2>3. CASE holder.by # "request"
    BY <2>3 DEF Abandon, IStock, JReqs
  <2>4. CASE holder.by = "request"
    <3>1. reqs' = [reqs EXCEPT ![holder.slot] = AfterFailure(@)]
      BY <2>4 DEF Abandon
    <3>2. holder.slot \in Slots /\ reqs[holder.slot].at = "runs"
          /\ reqs[holder.slot] \in Req /\ ReqFits(reqs[holder.slot])
      BY <2>2, <2>4 DEF IInv, ISound, IJob, IReqs
    <3>3. PICK q \in Req : q = AfterFailure(reqs[holder.slot])
      BY <3>2, ReqFailed
    <3>4. q.at # "read"
      BY <3>2, <3>3, ReqAnswered DEF AfterFailure, Req
    <3> QED
      BY <2>2, <3>1, <3>2, <3>3, <3>4 DEF IStock, JReqs
  <2> QED
    BY <2>3, <2>4
<1>5. lapsed' # "seen" /\ (lapsed # "no" => lapsed' = "yes")
  <2>1. lapsed \in {"no", "yes", "seen"} /\ lapsed' = Unlooked
    BY DEF IInv, StoreTypeOK, Abandon
  <2> QED
    BY <2>1, LapseTyped
<1>3. CASE By("loop") \/ By("route") \/ effect
  <2>1. LoopDue'
    BY <1>1, <1>3 DEF Abandon, PassEnds, By, LoopDue
  <2> QED
    BY <1>1, <1>2, <1>5, <2>1, StockEnds DEF PassDue
<1>4. CASE ~By("loop") /\ ~By("route") /\ ~effect
  <2>1. UNCHANGED <<loopVars, due>> /\ (forgotten => forgotten')
    BY <1>4 DEF Abandon, By
  <2>2. (LoopDue => LoopDue') /\ (PassDue => PassDue')
    BY <1>1, <1>4, <1>5, <2>1 DEF LoopDue, PassDue, RouteDue, loopVars
  <2>3. PassDue' \/ RowAgrees
    BY <1>4, <1>5, <2>2 DEF IStock, JStock, Answers, Switched, PassDue
  <2>4. LoopDue \/ InSync
    BY <1>4 DEF IStock, JSync
  <2>5. (RowAgrees => RowAgrees') /\ (InSync => InSync')
    BY DEF RowAgrees, Agree, Wanted, Matrix, IsActive, AutoRow, lotVars, configVars,
           Held, InSync
  <2> QED
    BY <1>1, <1>2, <1>5, <2>2, <2>3, <2>4, <2>5, StockEnds
<1> QED
  BY <1>3, <1>4

\* a job with nothing more to do
LEMMA FinishStock ==
    ASSUME IInv, IStock, holder # Nothing, holder.at = "load",
           \A j \in DOMAIN holder.todo : StageOf(holder.todo[j]) = {},
           ~(holder.by = "request" /\ holder.todo # << >>), Finish,
           UNCHANGED <<lotVars, configVars, due>>
    PROVE  IStock'
<1>1. holder' = Nothing /\ ~By("loop")' /\ ~By("route")'
  BY DEF Finish, By
<1>2. ~On(AutoLot) /\ ~AtStock /\ ~Unwritten
  BY DEF On, AtStock, Working, Unwritten
<1>3. JReqs'
  <2>1. reqs \in [Slots -> Req]
    BY DEF IInv, StoreTypeOK
  <2>2. holder.by = "request" => holder.slot \in Slots
    BY DEF IInv, ISound, IJob
  <2> QED
    BY <2>1, <2>2, ReqAnswered DEF Finish, IStock, JReqs
<1>4. Lies(StockStep) => RowAgrees /\ (By("loop") => InSync)
  <2> SUFFICES ASSUME NEW k \in DOMAIN holder.todo, holder.todo[k] = StockStep
               PROVE  RowAgrees /\ (By("loop") => InSync)
    BY DEF Lies
  <2> QED
    BY StockIdle DEF InSync
<1>5. (RowAgrees => RowAgrees') /\ (InSync => InSync')
  BY DEF RowAgrees, Agree, Wanted, Matrix, IsActive, AutoRow, lotVars, configVars,
         Held, InSync
<1>8. lapsed' # "seen" /\ (lapsed = "yes" => lapsed' = "yes" \/ RowAgrees)
  <2>1. lapsed' = IF Looks(Len(holder.todo)) \/ lapsed = "seen" THEN "no" ELSE lapsed
    BY DEF Finish
  <2>2. Looks(Len(holder.todo)) => Lies(StockStep)
    BY DEF Looks, Lies
  <2> QED
    BY <1>4, <2>1, <2>2
<1>6. CASE OnAuto
  <2>1. LoopDue'
    BY <1>1, <1>6 DEF Finish, LoopDue
  <2> QED
    BY <1>1, <1>3, <1>8, <2>1, StockEnds DEF PassDue
<1>7. CASE ~OnAuto
  <2>1. PassDue \/ RowAgrees
    BY <1>2, <1>7 DEF IStock, JStock, Switched
  <2>2. LoopDue \/ InSync
    BY <1>2 DEF IStock, JSync
  <2>3. CASE By("loop")
    <3>1. (dirty' <=> dirty) /\ due' = due
      BY <2>3 DEF Finish, PassEnds, By
    <3>2. ~By("route")
      BY <2>3 DEF By
    <3>3. PassDue' \/ RowAgrees
      BY <1>1, <1>4, <1>8, <2>1, <2>3, <3>1, <3>2 DEF PassDue, LoopDue, RouteDue, Ahead
    <3>4. LoopDue' \/ InSync
      BY <1>1, <1>4, <2>2, <2>3, <3>1 DEF LoopDue, Ahead
    <3> QED
      BY <1>1, <1>3, <1>5, <1>8, <3>3, <3>4, StockEnds
  <2>4. CASE ~By("loop")
    <3>1. /\ due' = due /\ dirty' = dirty /\ (forgotten => forgotten')
          /\ dirty \/ loop' = loop
      BY <2>4 DEF Finish, Connected, By, loopVars
    <3>2. LoopDue => LoopDue'
      BY <1>1, <2>4, <3>1 DEF LoopDue
    <3>3. PassDue' \/ RowAgrees
      BY <1>4, <1>8, <2>1, <3>1, <3>2 DEF PassDue, RouteDue, Ahead
    <3> QED
      BY <1>1, <1>3, <1>5, <1>8, <2>2, <3>2, <3>3, StockEnds
  <2> QED
    BY <2>3, <2>4
<1> QED
  BY <1>6, <1>7

\* a step of another stage than the matrix stage of the automatic lot, begun
LEMMA OtherBegins ==
    ASSUME IInv, holder # Nothing, NEW k \in DOMAIN holder.todo,
           holder.todo[k] # StockStep, NEW w \in StageOf(holder.todo[k]),
           w.lot = AutoLot
    PROVE  /\ w.then = "end"
           /\ holder.by # "request" =>
                /\ IsActive(w.new) => IsActive(AutoRow)
                /\ holder.todo[k] = OrphanStep => ~IsActive(w.new)
                /\ RowAgrees => WorkAgrees(w)
<1>1. PICK step \in Step : step = holder.todo[k]
  BY HolderTyped
<1>2. Begun(w, step.lot, holder.by = "request")
  BY <1>1, StepBegins
<1>3. step.lot = AutoLot
  BY <1>2 DEF Begun
<1>4. CASE holder.by = "request"
  BY <1>2, <1>4 DEF Begun, WorkFits, WorkRow
<1>5. CASE holder.by # "request"
  <2>1. step.stage \in Stages
    BY <1>1, <1>5 DEF IInv, ISound, IJob, TodoFits
  <2>2. step.stage # "matrix"
    BY <1>1, <1>3 DEF Step, StockStep
  <2>3. w \in StageWork(step.stage, AutoLot, holder.by = "loop", holder.full)
    BY <1>1, <1>3, <2>1 DEF StageOf
  <2>4. step = OrphanStep => step.stage = "orphan"
    BY DEF OrphanStep
  <2> QED
    BY <1>1, <2>1, <2>2, <2>3, <2>4, OtherAgrees
<1> QED
  BY <1>4, <1>5

\* The job comes to the next step with work: before the automatic lot's matrix stage
\* the pass is still sure to come to it; there the work agrees with the capacity;
\* past it the stage has had nothing to do.
LEMMA LoadsStock ==
    ASSUME IInv, IStock, holder # Nothing, holder.at = "load",
           NEW k \in DOMAIN holder.todo, NEW w \in StageOf(holder.todo[k]),
           \A j \in DOMAIN holder.todo : StageOf(holder.todo[j]) # {} => k <= j,
           holder' = [Begin(w) EXCEPT
                        !.todo = SubSeq(holder.todo, k, Len(holder.todo))],
           UNCHANGED <<lotVars, configVars, loopVars, reqs, due, forgotten>>,
           lapsed' = LooksAt(k)
    PROVE  IStock'
<1>1. PICK job \in JobRow, todo \in Seq(Step) :
        job = holder /\ todo = holder.todo /\ k \in DOMAIN todo /\ job # Nothing
        /\ DOMAIN todo \subseteq Nat /\ k \in Nat
  BY HolderTyped
<1>2. PICK rest : rest = SubSeq(todo, k, Len(todo))
  OBVIOUS
<1>3. Behind(rest, todo, k - 1) /\ Head(rest) = todo[k]
  BY <1>1, <1>2, BehindIs
<1>4. Begun(w, todo[k].lot, job.by = "request") /\ w \in WorkRow
  BY <1>1, StepBegins DEF Begun
<1>5. PICK h : h = holder'
  OBVIOUS
<1>6. /\ h # Nothing /\ h.by = job.by /\ h.slot = job.slot /\ h.full = job.full
      /\ h.todo = rest /\ h.work = w /\ h.at \in {"call", "commit"}
  <2>1. PICK b \in JobRow :
          /\ b = Begin(w) /\ b.by = job.by /\ b.slot = job.slot /\ b.full = job.full
          /\ b.work = w /\ b.at = IF w.call = "none" THEN "commit" ELSE "call"
    BY <1>1, <1>4, BeginIs
  <2>2. h = [b EXCEPT !.todo = rest]
    BY <1>1, <1>2, <1>5, <2>1
  <2>3. rest \in Seq(Step)
    BY <1>3 DEF Behind
  <2>4. h \in JobRow
    BY <2>2, <2>3 DEF JobRow
  <2> QED
    BY <2>1, <2>2, <2>4, MarkersDiffer DEF JobRow
<1>7. /\ Working' /\ ~Working /\ ~AtStock /\ ~On(AutoLot) /\ ~Unwritten /\ ~Switched
      /\ On(AutoLot)' <=> w.lot = AutoLot
      /\ AtStock' <=> todo[k] = StockStep
      /\ \A j : By(j)' <=> By(j)
      /\ OnAuto' <=> OnAuto
  <2>1. todo # << >>
    BY <1>1
  <2> QED
    BY <1>1, <1>3, <1>5, <1>6, <2>1
    DEF Working, AtStock, On, Unwritten, Switched, By, OnAuto, StockStep
<1>8. /\ PassDue \/ RowAgrees
      /\ LoopDue \/ InSync
  BY <1>7 DEF IStock, JStock, JSync
<1>9. /\ AutoRow' = AutoRow
      /\ RowAgrees' <=> RowAgrees
      /\ WorkAgrees(w)' <=> WorkAgrees(w)
      /\ InSync' <=> InSync
  BY DEF AutoRow, RowAgrees, WorkAgrees, LeavesHeld, InSync, Agree, Wanted, Matrix,
         Held, IsActive, lotVars, configVars
<1>10. w.lot = AutoLot => w.old = AutoRow /\ todo[k].lot = AutoLot
  BY <1>4 DEF Begun, AutoRow
\* the list that is left
<1>11. \A step : /\ Lies(step) <=> \E i \in DOMAIN todo : todo[i] = step
                 /\ Lies(step)' <=> \E i \in DOMAIN rest : rest[i] = step
  BY <1>1, <1>5, <1>6 DEF Lies
<1>12. InOrder(todo) /\ (job.by # "reconf" => Leads(todo))
  BY <1>1 DEF IStock, JTodo
<1>13. JTodo'
  <2>1. k - 1 \in Nat
    BY <1>1, HolderTyped
  <2>2. InOrder(rest) /\ (job.by # "reconf" => Leads(rest))
    BY <1>3, <1>12, <2>1, BehindOrder
  <2>3. job.by = "request" =>
          /\ Len(rest) <= 1
          /\ \A j \in DOMAIN rest : rest[j].lot = AutoLot => OnAuto
    <3>1. job.by = "request" =>
            /\ Len(todo) <= 1
            /\ \A j \in DOMAIN todo : todo[j].lot = AutoLot => OnAuto
      BY <1>1 DEF IStock, JTodo
    <3>2. Len(todo) \in Nat /\ Len(rest) = Len(todo) - (k - 1)
          /\ \A j \in DOMAIN rest : j + (k - 1) \in DOMAIN todo
                                    /\ rest[j] = todo[j + (k - 1)]
      BY <1>3, LenProperties DEF Behind
    <3>3. job.by = "request" => Len(rest) <= 1
      BY <2>1, <3>1, <3>2
    <3> QED
      BY <3>1, <3>2, <3>3
  <2>4. holder'.todo = rest /\ holder'.by = job.by
    BY <1>5, <1>6
  <2> QED
    BY <1>7, <2>2, <2>3, <2>4, TodoStock
<1>14. JReqs' /\ JLoop'
  BY <1>7 DEF IStock, JReqs, JLoop, loopVars
\* what is sure to come
<1>15. ASSUME ~By("loop") \/ (Ahead => Ahead') PROVE LoopDue => LoopDue'
  BY <1>7, <1>15 DEF LoopDue, loopVars
<1>16. ASSUME Ahead => Ahead', lapsed' = lapsed PROVE PassDue => PassDue'
  BY <1>7, <1>15, <1>16 DEF PassDue, RouteDue
\* whether the pass has come to the automatic lot
<1>20. Looks(k) <=> \E i \in DOMAIN todo : i <= k /\ todo[i] = StockStep
  BY <1>1 DEF Looks
<1>21. lapsed \in {"no", "yes", "seen"} /\ (~Looks(k) => lapsed' = lapsed)
       /\ (lapsed' = "seen" => lapsed = "seen" \/ By("task"))
  BY <1>1 DEF LooksAt, IInv, StoreTypeOK, By
\* a work of another stage
<1>17. ASSUME todo[k] # StockStep, PassDue' \/ RowAgrees, LoopDue' \/ InSync, JOrphan',
              lapsed' = "seen" => ~Ahead'
       PROVE  IStock'
  <2>1. w.lot = AutoLot =>
          /\ w.then = "end"
          /\ job.by # "request" =>
               /\ IsActive(w.new) => IsActive(AutoRow)
               /\ todo[k] = OrphanStep => ~IsActive(w.new)
               /\ RowAgrees => WorkAgrees(w)
    BY <1>1, <1>17, OtherBegins
  <2>2. JStock'
    BY <1>1, <1>5, <1>6, <1>7, <1>9, <1>17, <2>1 DEF JStock, By
  <2>3. JSync'
    BY <1>9, <1>17 DEF JSync
  <2>4. JWork'
    BY <1>1, <1>3, <1>5, <1>6, <1>7, <1>9, <1>10, <2>1
    DEF JWork, By, IsActive, OrphanStep
  <2>5. JSeen'
    BY <1>7, <1>17, <1>21 DEF IStock, JSeen
  <2> QED
    BY <1>13, <1>14, <1>17, <2>2, <2>3, <2>4, <2>5 DEF IStock
<1>18. CASE ~Lies(StockStep)
  <2>1. todo[k] # StockStep /\ ~Ahead
    BY <1>1, <1>11, <1>18 DEF Ahead
  <2>2. ~Lies(StockStep)'
    BY <1>3, <1>11, <1>18 DEF Behind
  <2>3. JOrphan' /\ ~Ahead'
    BY <2>2 DEF JOrphan, Ahead, StockStep
  <2>4. lapsed' = lapsed
    BY <1>11, <1>18, <1>20, <1>21
  <2> QED
    BY <1>8, <1>15, <1>16, <1>17, <2>1, <2>3, <2>4
<1>19. CASE Lies(StockStep)
  <2>1. PICK s \in DOMAIN todo : todo[s] = StockStep /\ s \in Nat
    BY <1>1, <1>11, <1>19
  <2>2. \A i \in DOMAIN todo : todo[i] = StockStep => i = s
    BY <1>12, <2>1 DEF InOrder
  <2>3. Ahead /\ job.by # "request"
    <3>1. job.by = "request" => StockStep.stage \in Requests
      BY <1>1, <2>1 DEF IInv, ISound, IJob, TodoFits
    <3> QED
      BY <1>7, <1>19, <3>1 DEF Ahead, StockStep, Requests
  <2>4. CASE k < s
    <3>1. todo[k] # StockStep
      BY <1>1, <2>2, <2>4
    <3>2. Lies(StockStep)'
      <4>1. \A i \in DOMAIN todo :
               i > k - 1 => i - (k - 1) \in DOMAIN rest /\ rest[i - (k - 1)] = todo[i]
        BY <1>3 DEF Behind
      <4>2. s > k - 1
        BY <1>1, <2>1, <2>4
      <4>3. \E i \in DOMAIN rest : rest[i] = StockStep
        BY <2>1, <4>1, <4>2
      <4> QED
        BY <1>5, <1>6, <4>3 DEF Lies, StockStep
    <3>3. Ahead'
      BY <1>7, <3>1, <3>2 DEF Ahead, StockStep
    <3>4. JOrphan'
      <4> SUFFICES ASSUME ~Lies(OrphanStep)' PROVE ~IsActive(AutoRow)
        BY <1>9 DEF JOrphan, OrphanStep, IsActive
      <4>1. CASE ~Lies(OrphanStep)
        BY <2>3, <4>1 DEF IStock, JOrphan
      <4>2. CASE Lies(OrphanStep)
        <5>1. PICK q \in DOMAIN todo : todo[q] = OrphanStep /\ q \in Nat
          BY <1>1, <1>11, <4>2
        <5>2. q < k
          <6>1. \A i \in DOMAIN todo :
                   i > k - 1 => i - (k - 1) \in DOMAIN rest /\ rest[i - (k - 1)] = todo[i]
            BY <1>3 DEF Behind
          <6>2. ~(q > k - 1)
            BY <1>11, <5>1, <6>1
          <6> QED
            BY <1>1, <5>1, <6>2
        <5>3. todo[k].stage \in {"orphan", "matrix"} /\ todo[k] # OrphanStep
          <6>1. todo[k].stage \in {"orphan", "matrix"}
            <7>1. \A j \in DOMAIN todo :
                     q < j /\ j < s => todo[j].stage \in {"orphan", "matrix"}
              BY <1>12, <2>1, <5>1 DEF InOrder
            <7> QED
              BY <1>1, <2>4, <5>2, <7>1
          <6>2. k - (k - 1) \in DOMAIN rest /\ rest[k - (k - 1)] = todo[k]
            <7>1. \A i \in DOMAIN todo :
                     i > k - 1 => i - (k - 1) \in DOMAIN rest /\ rest[i - (k - 1)] = todo[i]
              BY <1>3 DEF Behind
            <7>2. k > k - 1
              BY <1>1
            <7> QED
              BY <1>1, <7>1, <7>2
          <6> QED
            BY <1>11, <6>1, <6>2
        <5>4. todo[k] \in Step /\ todo[k].lot # AutoLot
          BY <1>1, <3>1, <5>3, HolderTyped DEF Step, StockStep, OrphanStep
        <5>5. StageOf(todo[k]) = {}
          <6>1. StageOf(todo[k]) = StageWork(todo[k].stage, todo[k].lot,
                                             holder.by = "loop", holder.full)
            BY <5>3 DEF StageOf, Stages
          <6> QED
            BY <5>3, <5>4, <6>1 DEF StageWork, OrphanApplies
        <5> QED
          BY <1>1, <5>5
      <4> QED
        BY <4>1, <4>2
    <3>5. lapsed' = lapsed /\ lapsed # "seen"
      <4>1. ~Looks(k)
        BY <1>1, <1>20, <2>1, <2>2, <2>4
      <4> QED
        BY <1>21, <2>3, <4>1 DEF IStock, JSeen
    <3> QED
      BY <1>8, <1>15, <1>16, <1>17, <3>1, <3>3, <3>4, <3>5
  <2>5. CASE k = s
    <3>1. w \in StageWork("matrix", AutoLot, job.by = "loop", job.full)
          /\ w.lot = AutoLot
      <4>1. StockStep.stage = "matrix" /\ StockStep.lot = AutoLot /\ "matrix" \in Stages
        BY DEF StockStep, Stages
      <4>2. w \in StageOf(StockStep) /\ w.lot = StockStep.lot
        BY <1>1, <1>4, <2>1, <2>5 DEF Begun
      <4> QED
        BY <1>1, <4>1, <4>2 DEF StageOf
    <3>2. WorkAgrees(w) /\ (w.then # "end" => ~RowAgrees)
      <4>1. (job.by = "loop") \in BOOLEAN
        OBVIOUS
      <4> QED
        BY <3>1, <4>1, MatrixAgrees
    <3>3. On(AutoLot)' /\ AtStock' /\ ~Ahead'
      BY <1>7, <2>1, <2>5, <3>1 DEF Ahead
    <3>9. /\ job.by \in {"route", "task", "loop"}
          /\ job.by = "task" => lapsed' = "seen" \/ (lapsed = "no" /\ lapsed' = lapsed)
      <4>1. job.by # "reconf"
        BY <1>1, <2>1 DEF IInv, ISound, IJob, TodoFits, StockStep
      <4>2. Looks(k)
        BY <1>1, <1>20, <2>1, <2>5
      <4> QED
        BY <1>1, <1>21, <2>3, <4>1, <4>2 DEF LooksAt, JobRow
    <3>4. Answers' \/ (PassDue => PassDue')
      <4>1. CASE By("loop") \/ By("route")
        BY <1>7, <4>1 DEF Answers
      <4>2. CASE By("task")
        BY <1>1, <1>7, <1>15, <3>9, <4>2 DEF Answers, PassDue, RouteDue, By
      <4> QED
        BY <1>1, <3>9, <4>1, <4>2 DEF By
    <3>5. JStock'
      BY <1>5, <1>6, <1>8, <1>9, <3>2, <3>3, <3>4 DEF JStock
    <3>6. JSync'
      BY <1>7, <1>8, <1>9, <1>15, <3>3 DEF JSync, Unwritten
    <3>7. JWork'
      BY <1>5, <1>6, <1>8, <1>9, <1>10, <3>1, <3>2, <3>3, <3>4 DEF JWork
    <3>8. JOrphan'
      BY <3>3 DEF JOrphan
    <3>10. JSeen'
      BY <1>7, <1>21, <2>3, <3>3 DEF IStock, JSeen
    <3> QED
      BY <1>13, <1>14, <3>5, <3>6, <3>7, <3>8, <3>10 DEF IStock
  <2>6. CASE s < k
    <3>1. RowAgrees /\ (By("loop") => ~IsActive(AutoRow))
      <4>1. \A j \in DOMAIN todo : j <= s => StageOf(todo[j]) = {}
        <5> SUFFICES ASSUME NEW j \in DOMAIN todo, j <= s PROVE StageOf(todo[j]) = {}
          OBVIOUS
        <5>1. j \in Nat /\ ~(k <= j)
          BY <1>1, <2>1, <2>6
        <5> QED
          BY <1>1, <5>1
      <4> QED
        BY <1>1, <2>1, <4>1, StockIdle
    <3>2. todo[k] # StockStep
      BY <1>1, <2>2, <2>6
    <3>3. ~Lies(StockStep)'
      <4>1. \A j \in DOMAIN rest : j + (k - 1) \in DOMAIN todo
                                   /\ rest[j] = todo[j + (k - 1)] /\ j \in Nat /\ j >= 1
        BY <1>3, LenProperties DEF Behind
      <4> QED
        BY <1>1, <1>11, <2>1, <2>2, <2>6, <4>1
    <3>4. JOrphan' /\ ~Ahead'
      BY <3>3 DEF JOrphan, Ahead, StockStep
    <3>5. LoopDue' \/ InSync
      BY <1>8, <1>15, <3>1 DEF InSync
    <3> QED
      BY <1>17, <3>1, <3>2, <3>4, <3>5
  <2> QED
    BY <1>1, <2>1, <2>4, <2>5, <2>6
<1> QED
  BY <1>18, <1>19

\* load and decide, or end
LEMMA JobLoadsStock ==
    ASSUME IInv, IStock, JobLoads PROVE IStock'
<1>1. /\ holder # Nothing /\ holder.at = "load" /\ ~Working
      /\ UNCHANGED <<lotVars, configVars, due>>
  BY DEF JobLoads, Working
<1> DEFINE todo == holder.todo
           busy == {k \in DOMAIN todo : StageOf(todo[k]) # {}}
<1>2. CASE busy # {}
  <2>1. busy \in SUBSET Nat
    BY <1>1, HolderTyped
  <2>2. Min(busy) \in busy /\ \A j \in busy : Min(busy) <= j
    <3> HIDE DEF busy
    <3> QED
      BY <1>2, <2>1, MinNat
  <2>3. PICK k : k = Min(busy)
    OBVIOUS
  <2>4. k \in DOMAIN todo /\ \A j \in DOMAIN todo : StageOf(todo[j]) # {} => k <= j
    BY <2>2, <2>3
  <2>5. PICK w \in StageOf(todo[k]) :
          holder' = [Begin(w) EXCEPT !.todo = SubSeq(todo, k, Len(todo))]
    BY <1>2, <2>3 DEF JobLoads
  <2>6. UNCHANGED <<loopVars, reqs, forgotten>> /\ lapsed' = LooksAt(k)
    BY <1>2, <2>3 DEF JobLoads
  <2> QED
    BY <1>1, <2>4, <2>5, <2>6, LoadsStock
<1>3. CASE busy = {} /\ holder.by = "request" /\ todo # << >>
  <2>1. Abandon(FALSE) /\ ~Unwritten
    BY <1>1, <1>3 DEF JobLoads, Unwritten, On
  <2> QED
    BY <1>1, <1>3, <2>1, AbandonStock
<1>4. CASE busy = {} /\ ~(holder.by = "request" /\ todo # << >>)
  <2>1. Finish
    BY <1>4 DEF JobLoads
  <2> QED
    BY <1>1, <1>4, <2>1, FinishStock
<1> QED
  BY <1>2, <1>3, <1>4

\* the job past the head of its list
LEMMA TailStock ==
    ASSUME IInv, IStock, holder # Nothing, holder.todo # << >>,
           NEW h, h = holder', GoneOn(h), reqs' = reqs
    PROVE  /\ ~Working' /\ ~On(AutoLot)' /\ ~AtStock'
           /\ (\A job : By(job)' <=> By(job)) /\ (OnAuto' <=> OnAuto)
           /\ JTodo' /\ JReqs'
           /\ \A step : Head(holder.todo) # step => (Lies(step)' <=> Lies(step))
           /\ Head(holder.todo) = StockStep => ~Lies(StockStep)'
           /\ By("request") => holder'.todo = << >>
<1>1. PICK todo, rest : todo \in Seq(Step) /\ todo = holder.todo /\ rest = Tail(todo)
  BY HolderTyped
<1>2. /\ h # Nothing /\ h.by = holder.by /\ h.slot = holder.slot
      /\ h.at = "load" /\ h.todo = rest
  BY <1>1 DEF GoneOn
<1>3. 1 \in DOMAIN todo
  BY <1>1, LenProperties
<1>4. Behind(rest, todo, 1) /\ Head(todo) = todo[1]
  BY <1>1, <1>3, BehindIs
<1>5. /\ \A j \in DOMAIN rest : j + 1 \in DOMAIN todo /\ rest[j] = todo[j + 1]
                                /\ j \in Nat /\ j >= 1
      /\ \A i \in DOMAIN todo :
           i > 1 => i - 1 \in DOMAIN rest /\ rest[i - 1] = todo[i]
      /\ \A i \in DOMAIN todo : i \in Nat /\ (i = 1 \/ i > 1)
      /\ rest \in Seq(Step) /\ Len(rest) = Len(todo) - 1
      /\ Len(todo) \in Nat /\ Len(rest) \in Nat
  BY <1>4, LenProperties DEF Behind
<1>6. /\ ~Working' /\ ~On(AutoLot)' /\ ~AtStock'
      /\ (\A job : By(job)' <=> By(job)) /\ (OnAuto' <=> OnAuto)
  BY <1>2 DEF Working, On, AtStock, By, OnAuto
<1>7. /\ InOrder(todo) /\ (holder.by # "reconf" => Leads(todo))
      /\ holder.by = "request" =>
           /\ Len(todo) <= 1
           /\ \A k \in DOMAIN todo : todo[k].lot = AutoLot => OnAuto
  BY <1>1 DEF IStock, JTodo
<1>8. InOrder(rest) /\ (holder.by # "reconf" => Leads(rest))
  <2>1. PICK n \in Nat : n = 1
    OBVIOUS
  <2>2. todo \in Seq(Step)
    BY <1>1
  <2> QED
    BY <1>4, <1>7, <2>1, <2>2, BehindOrder
<1>9. holder.by = "request" => Len(rest) = 0
  BY <1>5, <1>7
<1>10. JTodo'
  <2>1. holder.by = "request" =>
          /\ Len(rest) <= 1
          /\ \A k \in DOMAIN rest : rest[k].lot = AutoLot => OnAuto
    BY <1>5, <1>7, <1>9
  <2> QED
    BY <1>2, <1>6, <1>8, <2>1, TodoStock
<1>11. \A step : /\ Lies(step) <=> \E k \in DOMAIN todo : todo[k] = step
                 /\ Lies(step)' <=> \E k \in DOMAIN rest : rest[k] = step
  BY <1>1, <1>2 DEF Lies
<1>12. ASSUME NEW step, todo[1] # step PROVE Lies(step)' <=> Lies(step)
  BY <1>5, <1>11, <1>12
<1>13. ASSUME todo[1] = StockStep PROVE ~Lies(StockStep)'
  <2> SUFFICES ASSUME NEW j \in DOMAIN rest, rest[j] = StockStep PROVE FALSE
    BY <1>2 DEF Lies, StockStep
  <2>1. j + 1 = 1
    BY <1>3, <1>5, <1>7, <1>13 DEF InOrder
  <2> QED
    BY <1>5, <2>1
<1>14. JReqs'
  BY DEF IStock, JReqs
<1>15. By("request") => rest = << >>
  BY <1>5, <1>9, EmptySeq DEF By
<1> QED
  BY <1>1, <1>2, <1>4, <1>6, <1>10, <1>12, <1>13, <1>14, <1>15

\* a call or a commit that fails
LEMMA JobFailsStock ==
    ASSUME IInv, IStock, JobFails PROVE IStock'
<1> DEFINE effect == holder.at = "commit" /\ holder.work.call # "none"
<1>1. /\ holder # Nothing /\ Working
      /\ UNCHANGED <<lotVars, configVars, due>>
  BY DEF JobFails, Working
<1>2. holder.todo # << >>
  BY <1>1, InHandIs
<1>3. Unwritten => effect \/ By("loop")
  BY DEF Unwritten
<1>4. CASE ~Tolerated(holder)
  <2>1. PICK e \in BOOLEAN : e = effect
    OBVIOUS
  <2>2. Abandon(e)
    BY <1>4, <2>1 DEF JobFails
  <2> HIDE DEF effect
  <2> QED
    BY <1>1, <1>2, <1>3, <2>1, <2>2, AbandonStock
<1>5. CASE Tolerated(holder)
  <2>1. /\ holder' = Remaining(holder) /\ UNCHANGED <<loopVars, reqs, lapsed>>
        /\ forgotten' = (forgotten \/ effect)
    BY <1>5 DEF JobFails
  <2>2. PICK h : h = holder' /\ GoneOn(h)
    BY <1>1, <1>2, <2>1, RemainingIs
  <2>3. /\ Head(holder.todo).stage = "marker"
        /\ Head(holder.todo) # StockStep /\ Head(holder.todo) # OrphanStep
    BY <1>5 DEF Tolerated, StockStep, OrphanStep
  <2>4. /\ ~Working' /\ ~On(AutoLot)' /\ ~AtStock' /\ ~AtStock
        /\ \A job : By(job)' <=> By(job)
        /\ JTodo' /\ JReqs'
        /\ Lies(StockStep)' <=> Lies(StockStep)
        /\ Lies(OrphanStep)' <=> Lies(OrphanStep)
    <3>1. \A step : Head(holder.todo) # step => (Lies(step)' <=> Lies(step))
      BY <1>1, <1>2, <2>1, <2>2, TailStock
    <3>2. Lies(StockStep)' <=> Lies(StockStep)
      BY <2>3, <3>1 DEF StockStep
    <3>3. Lies(OrphanStep)' <=> Lies(OrphanStep)
      BY <2>3, <3>1 DEF OrphanStep
    <3>4. ~AtStock
      BY <2>3 DEF AtStock
    <3> QED
      BY <1>1, <1>2, <2>1, <2>2, <3>2, <3>3, <3>4, TailStock
  <2>5. lapsed # "seen" /\ (Answers => Ahead)
    <3>1. holder.by # "reconf" => \E k \in DOMAIN holder.todo : holder.todo[k] = StockStep
      <4>1. PICK todo \in Seq(Step) : todo = holder.todo /\ 1 \in DOMAIN todo
        BY <1>1, <1>2, HolderTyped, LenProperties
      <4>2. todo[1].stage = "marker"
        BY <2>3, <4>1, BehindIs
      <4> QED
        BY <1>1, <4>1, <4>2 DEF IStock, JTodo, Leads
    <3>2. By("task") \/ By("loop") \/ By("route") => Ahead
      BY <2>4, <3>1 DEF By, Ahead, Lies
    <3>3. lapsed # "seen"
      BY <3>2 DEF IStock, JSeen
    <3> QED
      BY <3>2, <3>3 DEF Answers
  <2>6. Ahead' <=> Ahead
    BY <2>4 DEF Ahead, StockStep
  <2>7. LoopDue => LoopDue'
    BY <2>1, <2>4, <2>6 DEF LoopDue, loopVars
  <2>8. PassDue => PassDue'
    BY <1>1, <2>1, <2>4, <2>6, <2>7 DEF PassDue, RouteDue
  <2>9. /\ AutoRow' = AutoRow
        /\ RowAgrees' <=> RowAgrees
        /\ InSync' <=> InSync
    BY <1>1 DEF AutoRow, RowAgrees, InSync, Agree, Wanted, Matrix, Held, IsActive,
                lotVars, configVars
  <2>10. PassDue \/ RowAgrees
    <3>1. Answers => PassDue
      BY <2>4, <2>5 DEF Answers, PassDue, LoopDue, RouteDue
    <3> QED
      BY <1>2, <3>1 DEF IStock, JStock, Switched
  <2>11. LoopDue' \/ InSync
    <3>1. By("loop") => LoopDue
      BY <2>5 DEF Answers, LoopDue
    <3>2. ~By("loop") /\ effect => LoopDue'
      BY <2>1, <2>4 DEF LoopDue
    <3> QED
      BY <1>3, <2>7, <3>1, <3>2 DEF IStock, JSync
  <2>12. JOrphan'
    BY <2>4, <2>6, <2>9 DEF IStock, JOrphan, OrphanStep, IsActive
  <2>13. JLoop'
    BY <2>1, <2>4 DEF IStock, JLoop, loopVars
  <2>14. JSeen'
    BY <2>1, <2>5 DEF JSeen
  <2> QED
    BY <2>4, <2>8, <2>9, <2>10, <2>11, <2>12, <2>13, <2>14
    DEF IStock, JStock, JSync, JWork
<1> QED
  BY <1>4, <1>5

\* a restart says that what was to come is lost
LEMMA RestartStock ==
    ASSUME IInv, IStock, Restart PROVE IStock'
<1>1. /\ holder' = Nothing
      /\ forgotten' = (forgotten \/ dirty \/ loop # "none" \/ due # "no"
                                 \/ holder # Nothing)
      /\ UNCHANGED <<lotVars, configVars>>
  BY DEF Restart
<1>5. lapsed' # "seen" /\ (lapsed = "yes" => lapsed' = "yes")
  <2>1. lapsed \in {"no", "yes", "seen"} /\ lapsed' = Unlooked
    BY DEF IInv, StoreTypeOK, Restart
  <2> QED
    BY <2>1, LapseTyped
<1>2. JReqs'
  BY ReqAnswered DEF Restart, IStock, JReqs
<1>3. CASE forgotten'
  <2>1. LoopDue'
    BY <1>1, <1>3 DEF LoopDue, By
  <2> QED
    BY <1>1, <1>2, <1>5, <2>1, StockEnds DEF PassDue
<1>4. CASE ~forgotten'
  <2>1. (RowAgrees \/ lapsed = "yes") /\ InSync
    BY <1>1, <1>4, StockFree DEF PassDue
  <2>2. (RowAgrees => RowAgrees') /\ InSync'
    BY <1>1, <2>1 DEF RowAgrees, Agree, Wanted, Matrix, IsActive, AutoRow, lotVars,
                      configVars, Held, InSync
  <2>3. (PassDue \/ RowAgrees)'
    BY <1>5, <2>1, <2>2 DEF PassDue
  <2> QED
    BY <1>1, <1>2, <1>5, <2>2, <2>3, StockEnds
<1> QED
  BY <1>3, <1>4

\* an accepted call: the row and what is to be written into it are as they were
LEMMA JobCallsStock ==
    ASSUME IInv, IStock, JobCalls PROVE IStock'
<1>1. /\ holder # Nothing /\ holder.at = "call" /\ Working /\ Called(holder.work)
      /\ UNCHANGED <<rows, configVars, loopVars, reqs, due, forgotten, lapsed>>
  BY DEF JobCalls, Working
<1>2. PICK w \in WorkRow : w = holder.work
  BY <1>1, WorkTyped
<1>3. PICK id, v, h, o2 : /\ h = holder' /\ o2 = offers'
                          /\ Taken(o2, id, w) /\ Accepted(h, v, id)
  BY <1>1, <1>2, CallTaken
<1>4. /\ h # Nothing /\ h.by = holder.by /\ h.slot = holder.slot
      /\ h.todo = holder.todo /\ h.at = "commit" /\ h.work = v
      /\ v.lot = w.lot /\ v.call = w.call /\ v.old = w.old /\ v.then = w.then
      /\ v.new.status = w.new.status /\ v.new.reason = w.new.reason
  BY <1>2, <1>3 DEF Accepted
<1>5. /\ Working' /\ (On(AutoLot)' <=> On(AutoLot)) /\ (AtStock' <=> AtStock)
      /\ \A job : By(job)' <=> By(job)
      /\ OnAuto' <=> OnAuto
      /\ \A step : Lies(step)' <=> Lies(step)
  BY <1>1, <1>2, <1>3, <1>4 DEF Working, On, AtStock, By, OnAuto, Lies, StockStep
<1>6. /\ Ahead' <=> Ahead
      /\ Lies(OrphanStep)' <=> Lies(OrphanStep)
      /\ Switched' <=> Switched
      /\ Answers' <=> Answers
      /\ LoopDue' <=> LoopDue
      /\ RouteDue' <=> RouteDue
  <2>1. Lies(OrphanStep)' <=> Lies(OrphanStep)
    BY <1>5 DEF OrphanStep
  <2>2. Ahead' <=> Ahead
    BY <1>5 DEF Ahead, StockStep
  <2>3. (Switched' <=> Switched) /\ (Answers' <=> Answers)
    BY <1>1, <1>3, <1>4, <1>5 DEF Switched, Answers
  <2>4. (LoopDue' <=> LoopDue) /\ (RouteDue' <=> RouteDue)
    BY <1>1, <1>5, <2>2 DEF LoopDue, RouteDue, loopVars
  <2> QED
    BY <2>1, <2>2, <2>3, <2>4
<1>7. /\ AutoRow' = AutoRow
      /\ RowAgrees' <=> RowAgrees
      /\ WorkAgrees(v)' <=> WorkAgrees(w)
  BY <1>1, <1>4
  DEF AutoRow, RowAgrees, WorkAgrees, LeavesHeld, Agree, Wanted, Matrix, Held, IsActive,
      configVars
<1>8. JStock'
  BY <1>1, <1>2, <1>3, <1>4, <1>5, <1>6, <1>7 DEF IStock, JStock, PassDue
<1>9. JSync'
  <2>1. CASE On(AutoLot)
    <3>1. w.call # "none"
      BY <1>1, <1>2, InHandIs DEF Unsent
    <3>2. Unwritten'
      BY <1>3, <1>4, <1>5, <2>1, <3>1 DEF Unwritten
    <3> QED
      BY <3>2 DEF JSync
  <2>2. CASE ~On(AutoLot)
    <3>1. LoopDue \/ InSync
      BY <2>2 DEF IStock, JSync, Unwritten
    <3>2. InSync => InSync'
      <4> SUFFICES ASSUME InSync, IsActive(AutoRow) PROVE o2[AutoRow.offer].on
        BY <1>3, <1>7 DEF InSync, IsActive
      <4>1. AutoLot \in Lots
        BY DEF Lots
      <4>2. Bound(AutoRow)
        BY <4>1 DEF IsActive, AutoRow, IInv, ISound, IRows, RowFits
      <4>3. AutoRow.offer \in DOMAIN offers /\ offers[AutoRow.offer].lot = AutoLot
        BY <4>1, <4>2 DEF AutoRow, IInv, ISound, IBound
      <4>4. w.lot # AutoLot
        BY <1>1, <1>2, <2>2 DEF On
      <4>5. o2[AutoRow.offer] = offers[AutoRow.offer]
        BY <1>3, <4>3, <4>4 DEF Taken
      <4> QED
        BY <4>5 DEF InSync
    <3> QED
      BY <1>6, <3>1, <3>2 DEF JSync
  <2> QED
    BY <2>1, <2>2
<1>10. JWork'
  BY <1>1, <1>2, <1>3, <1>4, <1>5, <1>6, <1>7
  DEF IStock, JWork, PassDue, IsActive, OrphanStep
<1>11. JTodo'
  <2>1. JTodo
    BY DEF IStock
  <2>2. PICK todo : todo = holder.todo /\ h.todo = todo
    BY <1>4
  <2>3. /\ InOrder(todo) /\ (holder.by # "reconf" => Leads(todo))
        /\ holder.by = "request" =>
             /\ Len(todo) <= 1
             /\ \A k \in DOMAIN todo : todo[k].lot = AutoLot => OnAuto
    BY <1>1, <2>1, <2>2 DEF JTodo
  <2> QED
    BY <1>3, <1>4, <1>5, <2>2, <2>3, TodoStock
<1>12. JOrphan' /\ JReqs' /\ JLoop' /\ JSeen'
  BY <1>1, <1>5, <1>6, <1>7
  DEF IStock, JOrphan, JReqs, JLoop, JSeen, IsActive, loopVars
<1> QED
  BY <1>8, <1>9, <1>10, <1>11, <1>12 DEF IStock

\* The commit of a work on the automatic lot: its row has the status the work leads
\* to, the reason too or one that holds it, and the offer is as the row says.
LEMMA CommittedStock ==
    ASSUME IInv, IStock, On(AutoLot), holder.at = "commit",
           NEW n, n = Written(AutoRow, holder.work.old, holder.work.new)
    PROVE  /\ n.status = holder.work.new.status
           /\ Held(n) <=> LeavesHeld(holder.work)
           /\ IsActive(n) => offers[n.offer].on
<1>1. Working /\ holder # Nothing
  BY DEF On, Working
<1>2. PICK w \in WorkRow : w = holder.work /\ w.lot = AutoLot
  BY <1>1, WorkTyped DEF On
<1>3. w.old \in Row /\ w.new \in Row /\ w.on \in BOOLEAN /\ AutoRow \in Row
  BY <1>1, <1>2, WorkTyped DEF AutoRow
<1>4. w.old.status = AutoRow.status
  BY <1>2 DEF IStock, JWork
<1>5. PICK operator \in BOOLEAN : operator = (holder.by = "request")
  OBVIOUS
<1>6. WorkFits(w, operator) /\ Matches(w, AutoRow) /\ Sent(w)
  BY <1>1, <1>2, <1>5, InHandIs DEF AutoRow
<1>7. /\ n.status = IF w.new.status # w.old.status THEN w.new.status
                    ELSE AutoRow.status
      /\ n.reason = IF w.new.reason # w.old.reason THEN w.new.reason
                    ELSE AutoRow.reason
      /\ n.offer = IF w.new.offer # w.old.offer THEN w.new.offer
                   ELSE AutoRow.offer
  BY <1>2, <1>3, WrittenIs
<1>8. n.status = w.new.status
  BY <1>4, <1>7
<1>9. n.offer = w.new.offer
  BY <1>6, <1>7 DEF Matches
<1>10. Held(n) <=> LeavesHeld(w)
  BY <1>7, <1>8 DEF Held, LeavesHeld
<1>11. ASSUME IsActive(n) PROVE offers[n.offer].on
  <2>1. w.on = TRUE /\ w.call # "none"
    BY <1>3, <1>6, <1>8, <1>11 DEF IsActive, WorkFits
  <2>2. w.call \in {"save", "toggle", "delete"}
    BY <2>1 DEF WorkRow
  <2>3. w.call = "save" => offers[w.new.offer].on = w.on
    BY <1>6 DEF Sent, Form
  <2>4. w.call \in {"toggle", "delete"} => offers[w.new.offer].on = w.on
    BY <1>6 DEF Sent
  <2> QED
    BY <1>9, <2>1, <2>2, <2>3, <2>4
<1> QED
  BY <1>2, <1>8, <1>10, <1>11

\* A commit settles the row of the automatic lot, or a stage before its matrix stage;
\* the operator's switch is settled by what it leaves at its end.
LEMMA JobCommitsStock ==
    ASSUME IInv, IStock, JobCommits PROVE IStock'
<1>1. /\ holder # Nothing /\ holder.at = "commit" /\ Working
      /\ UNCHANGED <<offers, configVars, loopVars, reqs, due, forgotten, lapsed>>
  BY DEF JobCommits, Working
<1>2. PICK w \in WorkRow : w = holder.work
  BY <1>1, WorkTyped
<1>3. PICK lot \in Lots, r \in Row : lot = w.lot /\ r = rows[lot]
  BY <1>1, <1>2, WorkTyped
<1>4. PICK n : n = Written(r, w.old, w.new)
  OBVIOUS
<1>5. /\ rows' = [rows EXCEPT ![lot] = n]
      /\ holder' = IF w.then = "end" THEN Done(holder) ELSE Begin(Following(w))
  BY <1>2, <1>3, <1>4 DEF JobCommits
<1>6. /\ rows \in [Lots -> Row] /\ AutoLot \in Lots
      /\ lot = AutoLot => AutoRow = r /\ AutoRow' = n
      /\ lot # AutoLot => AutoRow' = AutoRow
  BY <1>3, <1>5 DEF IInv, StoreTypeOK, AutoRow, Lots
<1>7. PICK operator \in BOOLEAN : operator = (holder.by = "request")
  OBVIOUS
<1>8. /\ WorkFits(w, operator) /\ holder.todo # << >>
      /\ Head(holder.todo).lot = lot
  BY <1>1, <1>2, <1>3, <1>7, InHandIs
<1>9. On(AutoLot) <=> lot = AutoLot
  BY <1>1, <1>2, <1>3 DEF On
<1>10. lot = AutoLot =>
         /\ n.status = w.new.status
         /\ Held(n) <=> LeavesHeld(w)
         /\ IsActive(n) => offers[n.offer].on
         /\ w.old.status = AutoRow.status
         /\ w.then # "end" => AtStock /\ (Answers \/ PassDue)
         /\ ~AtStock /\ ~By("request") =>
              /\ IsActive(w.new) => IsActive(w.old)
              /\ Head(holder.todo) = OrphanStep => ~IsActive(w.new)
  BY <1>1, <1>2, <1>4, <1>6, <1>9, CommittedStock DEF IStock, JWork
<1>11. StockStep.lot = AutoLot /\ OrphanStep.lot = AutoLot
  BY DEF StockStep, OrphanStep
\* the step a request works on is not the matrix stage
<1>12. Lies(StockStep) => holder.by # "request"
  <2> SUFFICES ASSUME NEW k \in DOMAIN holder.todo, holder.todo[k] = StockStep
               PROVE  holder.by # "request"
    BY DEF Lies
  <2> QED
    BY <1>1 DEF IInv, ISound, IJob, TodoFits, StockStep, Requests
<1>13. AtStock => Lies(StockStep)
  <2>1. PICK todo \in Seq(Step) : todo = holder.todo /\ 1 \in DOMAIN todo
    BY <1>1, <1>8, HolderTyped, LenProperties
  <2>2. Head(todo) = todo[1]
    BY <2>1, BehindIs
  <2> QED
    BY <1>1, <2>1, <2>2 DEF AtStock, Lies
<1>14. CASE w.then = "end"
  <2>1. PICK h : h = holder' /\ GoneOn(h)
    BY <1>1, <1>5, <1>8, <1>14, DoneIs
  <2>2. /\ ~Working' /\ ~On(AutoLot)' /\ ~AtStock'
        /\ (\A job : By(job)' <=> By(job)) /\ (OnAuto' <=> OnAuto)
        /\ JTodo' /\ JReqs'
        /\ \A step : Head(holder.todo) # step => (Lies(step)' <=> Lies(step))
        /\ Head(holder.todo) = StockStep => ~Lies(StockStep)'
        /\ By("request") => holder'.todo = << >>
    BY <1>1, <1>8, <2>1, TailStock
  <2>3. /\ Ahead' <=> Ahead
        /\ Head(holder.todo) # OrphanStep => (Lies(OrphanStep)' <=> Lies(OrphanStep))
    <3>1. CASE Head(holder.todo) = StockStep
      BY <1>1, <2>2, <3>1 DEF Ahead, AtStock, StockStep, OrphanStep
    <3>2. CASE Head(holder.todo) # StockStep
      <4>1. Lies(StockStep)' <=> Lies(StockStep)
        BY <2>2, <3>2 DEF StockStep
      <4>2. ~AtStock
        BY <3>2 DEF AtStock
      <4> QED
        BY <2>2, <4>1, <4>2 DEF Ahead, StockStep, OrphanStep
    <3> QED
      BY <3>1, <3>2
  <2>4. /\ LoopDue' <=> LoopDue
        /\ PassDue' <=> PassDue
    BY <1>1, <2>2, <2>3 DEF LoopDue, PassDue, RouteDue, loopVars
  <2>5. JLoop' /\ JSeen'
    BY <1>1, <2>2, <2>3 DEF IStock, JLoop, JSeen, loopVars
  <2>6. PassDue' \/ RowAgrees' \/ Switched'
    <3>1. CASE lot # AutoLot
      <4>1. PassDue \/ RowAgrees
        BY <1>8, <1>9, <3>1 DEF IStock, JStock, Switched
      <4>2. RowAgrees => RowAgrees'
        BY <1>1, <1>6, <3>1 DEF RowAgrees, Agree, Wanted, Matrix, configVars
      <4> QED
        BY <2>4, <4>1, <4>2
    <3>2. CASE lot = AutoLot /\ By("request")
      <4>1. OnAuto
        <5>1. PICK todo \in Seq(Step) : todo = holder.todo /\ 1 \in DOMAIN todo
          BY <1>1, <1>8, HolderTyped, LenProperties
        <5>2. todo[1].lot = AutoLot
          BY <1>8, <3>2, <5>1, BehindIs
        <5> QED
          BY <1>1, <3>2, <5>1, <5>2 DEF IStock, JTodo, By
      <4> QED
        BY <2>1, <2>2, <3>2, <4>1 DEF Switched
    <3>3. CASE lot = AutoLot /\ ~By("request")
      <4>1. PassDue \/ WorkAgrees(w)
        BY <1>2, <1>9, <3>3 DEF IStock, JStock
      <4>2. WorkAgrees(w) => RowAgrees'
        BY <1>1, <1>6, <1>10, <1>14, <3>3
        DEF WorkAgrees, RowAgrees, Agree, Wanted, Matrix, IsActive, configVars
      <4> QED
        BY <2>4, <4>1, <4>2
    <3> QED
      BY <3>1, <3>2, <3>3
  <2>7. LoopDue' \/ InSync'
    <3>1. CASE lot # AutoLot
      <4>1. LoopDue \/ InSync
        BY <1>9, <3>1 DEF IStock, JSync, Unwritten
      <4> QED
        BY <1>1, <1>6, <2>4, <3>1, <4>1 DEF InSync, IsActive
    <3>2. CASE lot = AutoLot
      BY <1>1, <1>6, <1>10, <3>2 DEF InSync, IsActive
    <3> QED
      BY <3>1, <3>2
  <2>8. JOrphan'
    <3> SUFFICES ASSUME Ahead, ~Lies(OrphanStep)' PROVE ~IsActive(AutoRow')
      BY <2>3 DEF JOrphan, OrphanStep, IsActive
    <3>1. ~AtStock /\ ~By("request")
      BY <1>12 DEF Ahead, By
    <3>2. CASE Head(holder.todo) = OrphanStep
      BY <1>6, <1>8, <1>10, <1>11, <3>1, <3>2 DEF IsActive
    <3>3. CASE Head(holder.todo) # OrphanStep
      <4>1. ~IsActive(AutoRow)
        BY <2>3, <3>3 DEF IStock, JOrphan
      <4> QED
        BY <1>6, <1>10, <3>1, <4>1 DEF IsActive
    <3> QED
      BY <3>2, <3>3
  <2> QED
    BY <2>2, <2>5, <2>6, <2>7, <2>8 DEF IStock, JStock, JSync, JWork
<1>15. CASE w.then # "end"
  <2>1. lot = AutoLot /\ w.then \in {"bind", "activate"} /\ w.new.status = "paused"
    BY <1>3, <1>8, <1>15 DEF WorkFits, WorkRow
  <2>2. PICK v : v = Following(w)
    OBVIOUS
  <2>3. /\ v \in WorkRow /\ v.lot = w.lot /\ v.old = w.new
        /\ v.then # "end" \/ IsActive(v.new)
    <3>1. w.new \in Row
      BY DEF WorkRow
    <3>2. Active(w.new).status = "active"
      BY <3>1, RowMade
    <3> QED
      BY <2>1, <2>2, <3>2, FollowingIs DEF IsActive
  <2>4. PICK h : h = holder'
    OBVIOUS
  <2>5. /\ h # Nothing /\ h.by = holder.by /\ h.slot = holder.slot
        /\ h.todo = holder.todo /\ h.work = v /\ h.at \in {"call", "commit"}
    <3>1. PICK job \in JobRow : job = holder
      BY <1>1, WorkTyped
    <3>2. h = Begin(v)
      BY <1>5, <1>15, <2>2, <2>4
    <3> QED
      BY <2>3, <3>1, <3>2, BeginIs
  <2>6. /\ Working' /\ On(AutoLot)' /\ AtStock'
        /\ \A job : By(job)' <=> By(job)
        /\ OnAuto' <=> OnAuto
    BY <1>1, <1>3, <1>10, <1>15, <2>1, <2>3, <2>4, <2>5
    DEF Working, On, AtStock, By, OnAuto, StockStep
  <2>7. AtStock /\ ~Ahead /\ ~Ahead' /\ (Answers \/ PassDue)
    BY <1>10, <1>15, <2>1, <2>6 DEF Ahead
  <2>8. /\ LoopDue' <=> LoopDue
        /\ PassDue' <=> PassDue
        /\ Answers' <=> Answers
    BY <1>1, <2>6, <2>7 DEF LoopDue, PassDue, RouteDue, Answers, loopVars
  <2>9. JStock'
    <3>1. ~By("request")
      BY <1>12, <1>13, <2>7 DEF By
    <3>2. PassDue \/ cap
      BY <1>2, <1>9, <1>15, <2>1, <3>1 DEF IStock, JStock, WorkAgrees, Agree
    <3>3. cap => WorkAgrees(v)'
      BY <1>1, <2>3 DEF WorkAgrees, Agree, IsActive, configVars
    <3> QED
      BY <2>4, <2>5, <2>6, <2>7, <2>8, <3>2, <3>3 DEF JStock
  <2>10. JSync'
    BY <1>6, <1>10, <2>1 DEF JSync, InSync, IsActive
  <2>11. JWork'
    BY <1>6, <1>10, <2>1, <2>3, <2>4, <2>5, <2>6, <2>7, <2>8 DEF JWork
  <2>12. JTodo'
    <3>1. JTodo
      BY DEF IStock
    <3>2. PICK todo : todo = holder.todo /\ h.todo = todo
      BY <2>5
    <3>3. /\ InOrder(todo) /\ (holder.by # "reconf" => Leads(todo))
          /\ holder.by = "request" =>
               /\ Len(todo) <= 1
               /\ \A k \in DOMAIN todo : todo[k].lot = AutoLot => OnAuto
      BY <1>1, <3>1, <3>2 DEF JTodo
    <3> QED
      BY <2>4, <2>5, <2>6, <3>2, <3>3, TodoStock
  <2>13. JOrphan' /\ JReqs' /\ JLoop' /\ JSeen'
    BY <1>1, <2>6, <2>7 DEF IStock, JOrphan, JReqs, JLoop, JSeen, loopVars
  <2> QED
    BY <2>9, <2>10, <2>11, <2>12, <2>13 DEF IStock
<1> QED
  BY <1>14, <1>15

-----------------------------------------------------------------------------
(* Stock at rest: the theorem *)

\* one step per action
LEMMA NextStock == IInv /\ IStock /\ [Next]_vars => IStock'
<1> SUFFICES ASSUME IInv, IStock, [Next]_vars PROVE IStock'
  OBVIOUS
<1>1. CASE CapacityChanges \/ CapacityDrifts \/ CatalogSaved \/ PricesSaved
           \/ TemplatesSaved \/ MessagesSaved \/ Disconnect
  BY <1>1, WorldStock
<1>2. CASE LoopTop /\ UNCHANGED <<lotVars, configVars, holder, reqs, due,
                                  changes, mishaps, unrecorded, crossed,
                                  forgotten, lapsed>>
  BY <1>2, WorldStock
<1>3. ASSUME NEW i \in Slots, CreateLot(i) \/ CreateFailed(i) PROVE IStock'
  BY <1>3, CreateStock
<1>4. ASSUME NEW i \in Slots, NEW kind \in Kinds \ {"create"}, NEW lot \in Lots,
             RequestRead(i, kind, lot)
      PROVE  IStock'
  BY <1>4, RequestReadStock
<1>5. ASSUME NEW i \in Slots, RequestDecides(i) PROVE IStock'
  BY <1>5, RequestDecidesStock
<1>6. ASSUME NEW i \in Slots, RequestRuns(i) PROVE IStock'
  BY <1>6, RequestRunsStock
<1>7. CASE RouteReconciles \/ TaskLotAuto \/ LoopReconciles \/ Reconfigure
  BY <1>7, TakesStock
<1>8. CASE JobLoads
  BY <1>8, JobLoadsStock
<1>9. CASE JobCalls
  BY <1>9, JobCallsStock
<1>10. CASE JobCommits
  BY <1>10, JobCommitsStock
<1>11. CASE JobFails
  BY <1>11, JobFailsStock
<1>12. CASE Restart
  BY <1>12, RestartStock
<1>13. CASE UNCHANGED vars
  <2>1. UNCHANGED <<lotVars, configVars, loopVars, holder, reqs, due, forgotten, lapsed>>
    BY <1>13 DEF vars
  <2>2. UNCHANGED <<holder, offers, configVars>> /\ AutoRow' = AutoRow
    BY <2>1 DEF lotVars, AutoRow
  <2>3. /\ By("request") => (OnAuto' <=> OnAuto)
        /\ LoopDue => LoopDue'
        /\ RouteDue => PassDue'
        /\ JReqs' /\ JLoop'
    BY <2>1 DEF OnAuto, LoopDue, RouteDue, PassDue, By, Ahead, Lies, AtStock, Working,
                StockStep, loopVars, IStock, JReqs, JLoop
  <2> QED
    BY <2>1, <2>2, <2>3, StockBeside
<1> QED
  BY <1>1, <1>2, <1>3, <1>4, <1>5, <1>6, <1>7, <1>8, <1>9, <1>10, <1>11, <1>12, <1>13
  DEF Next

\* Once the loop and the routes have nothing left to do, the automatic lot is on sale
\* exactly if it has capacity: a change that comes while a pass runs, while one
\* fails or while no transport is installed is not lost; a change that requested no
\* pass stands until the next one has come to the lot
\* (AppLifecycle.request_capacity_reconcile, _capacity_reconcile_loop,
\* _task_limits_check; LotAutoManager._check_capacity).
THEOREM StockAtRest == Spec => []StockAgreesAtRest
<1>1. Init => IStock
  BY InitStock
<1>2. IInv /\ IStock => StockAgreesAtRest
  <2> SUFFICES ASSUME IInv, IStock, AtRest, gateway, ~forgotten, lapsed # "yes"
               PROVE  StockAgrees
    BY DEF StockAgreesAtRest
  <2>1. holder = Nothing /\ loop = "none" /\ due = "no" /\ ~dirty
    BY DEF AtRest, IInv, RequestHasLoop
  <2>2. RowAgrees /\ InSync
    BY <2>1, StockFree DEF PassDue
  <2>3. AutoLot \in Lots
    BY DEF Lots
  <2>4. ASSUME ~cap, Shown, ~Excused(AutoLot) PROVE FALSE
    <3>1. PICK id \in DOMAIN offers : offers[id].lot = AutoLot /\ offers[id].on
      BY <2>4 DEF Shown, OnSale
    <3>2. AutoLot \notin Lost
      BY <2>4 DEF Excused, Lost
    <3>3. ~Selling(AutoLot, id)
      BY <2>1 DEF Selling, On, Working
    <3>4. IsActive(AutoRow)
      BY <3>1, <3>2, <3>3 DEF IInv, ISound, IOn, IsActive, AutoRow
    <3> QED
      BY <2>2, <2>4, <3>4 DEF RowAgrees, Agree
  <2>5. ASSUME cap, Matrix, price # 0, ~Held(rows[AutoLot]) PROVE Shown
    <3>1. IsActive(AutoRow)
      BY <2>2, <2>5 DEF RowAgrees, Agree, Wanted, AutoRow
    <3>2. Bound(AutoRow)
      BY <2>3, <3>1 DEF IsActive, AutoRow, IInv, ISound, IRows, RowFits
    <3>3. AutoRow.offer \in DOMAIN offers /\ offers[AutoRow.offer].lot = AutoLot
      BY <2>3, <3>2 DEF AutoRow, IInv, ISound, IBound
    <3>4. offers[AutoRow.offer].on
      BY <2>2, <3>1 DEF InSync
    <3> QED
      BY <3>3, <3>4 DEF Shown, OnSale
  <2> QED
    BY <2>4, <2>5 DEF StockAgrees
<1> QED
  BY <1>1, <1>2, NextStock, ShopInvariant, PTL DEF Spec

=============================================================================
