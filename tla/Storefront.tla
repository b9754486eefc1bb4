----------------------------- MODULE Storefront -----------------------------
(***************************************************************************)
(* The seller's shop: reconciler passes, the operator's lot requests and   *)
(* the replacement of the transport take turns under one lock, while the   *)
(* routes also write lot rows outside it, capacity changes at any moment,  *)
(* FunPay calls and commits fail and the process restarts.                 *)
(***************************************************************************)
EXTENDS CapacityLoop

CONSTANTS
    MaxChanges,   \* capacity, catalogue, price and transport changes
    MaxMishaps,   \* failed calls and commits, and restarts
    MaxRequests   \* the operator's requests

ASSUME BoundsAreNat == MaxChanges \in Nat /\ MaxMishaps \in Nat
                       /\ MaxRequests \in Nat

VARIABLES
    holder,      \* the job that has _funpay_lock, or Nothing
    reqs,        \* the operator's requests, by number
    due,         \* the reconcile a configuration route still has to run
    changes, mishaps,
    unrecorded,  \* ghost: lots with a remote effect whose commit was lost
    crossed,     \* ghost: lots a route wrote over what it had not seen
    forgotten,   \* ghost: something lost that no loop will retry
    lapsed       \* ghost: "yes" once capacity has changed without a request,
                 \* until a pass looks; "seen" while that pass may still fail

vars == <<lotVars, configVars, loopVars, holder, reqs, due, changes, mishaps,
          unrecorded, crossed, forgotten, lapsed>>

Slots == 1..MaxRequests
Kinds == {"create", "on", "off", "delete"}

Req == [kind : Kinds \cup {"unused"}, lot : Lots \cup {Nothing},
        at : {"idle", "done", "read", "runs", "failed"} \cup Requests,
        seen : Row \cup {Nothing}]

Step == [stage : Stages \cup Requests, lot : Lots]

JobRow == [by : {"request", "route", "task", "loop", "reconf"}, slot : Nat,
           todo : Seq(Step), work : WorkRow \cup {Nothing},
           at : {"load", "call", "commit"}, full : SUBSET Lots]

ASSUME MarkersDiffer ==
    /\ Nothing \notin Lots
    /\ Nothing \notin Editions \cup {0}
    /\ Nothing \notin Row
    /\ Nothing \notin WorkRow
    /\ Nothing \notin JobRow

Idle == [kind |-> "unused", lot |-> Nothing, at |-> "idle", seen |-> Nothing]
Answered == [Idle EXCEPT !.at = "done"]

Job(by, slot, stages) ==
    [by |-> by, slot |-> slot, todo |-> stages, work |-> Nothing,
     at |-> "load", full |-> {}]

OnBoth(stage) == <<[stage |-> stage, lot |-> AutoLot],
                   [stage |-> stage, lot |-> ManualLot]>>

Pass(published) ==
    OnBoth("invalid") \o OnBoth("marker") \o OnBoth("orphan") \o OnBoth("matrix")
        \o (IF published THEN OnBoth("refresh") ELSE << >>)

WorkInit ==
    /\ holder = Nothing
    /\ reqs = [i \in Slots |-> Idle]
    /\ due = "no"
    /\ changes = 0 /\ mishaps = 0
    /\ unrecorded = {} /\ crossed = {} /\ forgotten = FALSE /\ lapsed = "no"

Init ==
    /\ LotInit /\ LoopInit /\ WorkInit
    /\ cap = (rows[AutoLot].status = "active")
    /\ offered = TRUE /\ price = 1

-----------------------------------------------------------------------------
(* The world: capacity, catalogue and prices.                              *)

Changing == changes < MaxChanges /\ changes' = changes + 1

(* A committed rental, release, validation or proxy change.                *)
CapacityChanges ==
    /\ Changing
    /\ cap' = ~cap
    /\ Request
    /\ UNCHANGED <<lotVars, offered, price, holder, reqs, due, mishaps,
                   unrecorded, crossed, forgotten, lapsed>>

(* Nobody asks for a pass when a measurement, a route's health or the     *)
(* subscription is no longer good enough, nor when the limit task queues   *)
(* checks; and a commit may be the last thing a process did.               *)
CapacityDrifts ==
    /\ Changing
    /\ cap' = ~cap
    /\ lapsed' = "yes"
    /\ UNCHANGED <<lotVars, offered, price, loopVars, holder, reqs, due, mishaps,
                   unrecorded, crossed, forgotten>>

(* A route commits a setting and then runs a pass before it answers: the   *)
(* catalogue and price routes a plain one, the template routes one that    *)
(* saves every published offer again.                                      *)
Saving(pass) ==
    /\ due = "no" /\ due' = pass
    /\ Changing
    /\ UNCHANGED <<lotVars, cap, loopVars, holder, reqs, mishaps, unrecorded,
                   crossed, forgotten, lapsed>>

CatalogSaved ==
    /\ offered' = ~offered
    /\ UNCHANGED price
    /\ Saving("plain")

PricesSaved ==
    /\ price' \in CASE price = Nothing -> Editions \cup {0}
                    [] price = 0 -> {Nothing}
                    [] OTHER -> (Editions \ {price}) \cup {Nothing}
    /\ UNCHANGED offered
    /\ Saving("plain")

(* The template of the offer itself: its edition changes, for better or    *)
(* worse; without a matrix row only the manual lot is saved again.         *)
TemplatesSaved ==
    /\ price' \in IF price = Nothing THEN {Nothing}
                  ELSE (Editions \cup {0}) \ {price}
    /\ UNCHANGED offered
    /\ Saving("published")

(* The payment message: part of the form, not of the row.                  *)
MessagesSaved ==
    /\ UNCHANGED <<offered, price>>
    /\ Saving("published")

-----------------------------------------------------------------------------
(* The operator's lot requests.  Up to the lock, and where no offer is     *)
(* bound, a route works on the row its own session has loaded.             *)

Quiet == UNCHANGED <<configVars, loopVars, due, mishaps, lapsed>>

(* Requests are numbered in the order they arrive.                        *)
Arrives(i) ==
    /\ Changing
    /\ reqs[i].at = "idle"
    /\ \A j \in 1..(i - 1) : reqs[j].at # "idle"

CreateLot(i) ==
    /\ Arrives(i)
    /\ rows[ManualLot].status = "absent" /\ ConfigurationValid
    /\ rows' = [rows EXCEPT ![ManualLot] =
                    Paused([NoRow EXCEPT !.text = 1], "manual_pending_sync")]
    /\ reqs' = [reqs EXCEPT ![i] = [kind |-> "create", lot |-> ManualLot,
                                    at |-> "publish", seen |-> Nothing]]
    /\ UNCHANGED <<offers, holder, unrecorded, crossed, forgotten>>
    /\ Quiet

(* PATCH and DELETE load the row.                                          *)
RequestRead(i, kind, lot) ==
    /\ Arrives(i)
    /\ rows[lot].status # "absent"
    /\ IF kind = "delete" THEN lot = ManualLot ELSE rows[lot].status # "deleted"
    /\ kind = "on" => ConfigurationValid
    /\ reqs' = [reqs EXCEPT ![i] = [kind |-> kind, lot |-> lot, at |-> "read",
                                    seen |-> rows[lot]]]
    /\ UNCHANGED <<lotVars, holder, unrecorded, crossed, forgotten>>
    /\ Quiet

WorkingOn(lot) ==
    IF holder = Nothing \/ lot = Nothing THEN FALSE
    ELSE IF holder.work = Nothing THEN FALSE ELSE holder.work.lot = lot

(* An unbound lot is paused or deleted without the lock.                   *)
WriteUnbound(i) ==
    LET req == reqs[i]
        new == IF req.kind = "off" THEN Paused(req.seen, "manual")
               ELSE [req.seen EXCEPT !.status = "deleted",
                                     !.reason = "manual_deleted"]
    IN  /\ rows' = [rows EXCEPT ![req.lot] = Written(@, req.seen, new)]
        /\ crossed' = IF rows[req.lot] # req.seen \/ WorkingOn(req.lot)
                      THEN crossed \cup {req.lot} ELSE crossed
        /\ reqs' = [reqs EXCEPT ![i] = Answered]

RequestDecides(i) ==
    LET req == reqs[i]
    IN  /\ req.at = "read"
        /\ IF Bound(req.seen)
           THEN /\ reqs' = [reqs EXCEPT ![i].at = req.kind, ![i].seen = Nothing]
                /\ UNCHANGED <<rows, crossed>>
           ELSE IF req.kind = "on"
           THEN /\ reqs' = [reqs EXCEPT ![i].at = "publish",
                                        ![i].seen = Nothing]
                /\ UNCHANGED <<rows, crossed>>
           ELSE WriteUnbound(i)
        /\ UNCHANGED <<offers, holder, unrecorded, forgotten>>
        /\ Quiet /\ UNCHANGED changes

(* A publication that failed leaves its new lot paused.                    *)
CreateFailed(i) ==
    /\ reqs[i].at = "failed"
    /\ LET lot == reqs[i].lot
           new == Paused(rows[lot], "sync_failed")
       IN  /\ rows' = [rows EXCEPT ![lot] = new]
           /\ crossed' = IF rows[lot].status = "active" \/ WorkingOn(lot)
                         THEN crossed \cup {lot} ELSE crossed
    /\ reqs' = [reqs EXCEPT ![i] = Answered]
    /\ UNCHANGED <<offers, holder, unrecorded, forgotten>>
    /\ Quiet /\ UNCHANGED changes

AfterFailure(req) ==
    IF req.kind = "create" THEN [req EXCEPT !.at = "failed"] ELSE Answered

-----------------------------------------------------------------------------
(* Taking _funpay_lock.                                                    *)

Takes(job) == holder = Nothing /\ holder' = job

RequestRuns(i) ==
    LET req == reqs[i]
    IN  /\ holder = Nothing
        /\ req.at \in Requests
        /\ IF gateway
           THEN /\ Takes(Job("request", i, <<[stage |-> req.at, lot |-> req.lot]>>))
                /\ reqs' = [reqs EXCEPT ![i].at = "runs"]
           ELSE /\ reqs' = [reqs EXCEPT ![i] = AfterFailure(req)]
                /\ UNCHANGED holder
        /\ UNCHANGED <<lotVars, unrecorded, crossed, forgotten>>
        /\ Quiet /\ UNCHANGED changes

(* The pass a configuration route waits for; without a transport it fails  *)
(* and is not tried again.                                                 *)
RouteReconciles ==
    /\ holder = Nothing
    /\ due # "no"
    /\ IF gateway
       THEN Takes(Job("route", 0, Pass(due = "published"))) /\ UNCHANGED forgotten
       ELSE forgotten' = TRUE /\ UNCHANGED holder
    /\ due' = "no"
    /\ UNCHANGED <<lotVars, configVars, loopVars, reqs, changes, mishaps,
                   unrecorded, crossed, lapsed>>

(* The scheduler's pass, every ten minutes, and the operator's "sync".      *)
TaskLotAuto ==
    /\ gateway
    /\ Takes(Job("task", 0, Pass(FALSE)))
    /\ UNCHANGED <<lotVars, reqs, unrecorded, crossed, forgotten>>
    /\ Quiet /\ UNCHANGED changes

LoopReconciles ==
    /\ loop = "pass"
    /\ holder = Nothing
    /\ IF gateway
       THEN Takes(Job("loop", 0, Pass(FALSE))) /\ UNCHANGED loopVars
       ELSE PassEnds(FALSE) /\ UNCHANGED holder
    /\ UNCHANGED <<lotVars, configVars, reqs, due, changes, mishaps,
                   unrecorded, crossed, forgotten, lapsed>>

(* A key is installed: published lots get their marker before the new      *)
(* listener starts.  Replacing a working key is one of the changes.        *)
Reconfigure ==
    /\ IF gateway THEN Changing ELSE UNCHANGED changes
    /\ Takes(Job("reconf", 0, OnBoth("marker")))
    /\ UNCHANGED <<lotVars, configVars, loopVars, reqs, due, mishaps,
                   unrecorded, crossed, forgotten, lapsed>>

Disconnect ==
    /\ gateway /\ holder = Nothing
    /\ Changing
    /\ Disconnected
    /\ UNCHANGED <<lotVars, configVars, holder, reqs, due, mishaps, unrecorded,
                   crossed, forgotten, lapsed>>

-----------------------------------------------------------------------------
(* The job under the lock: load and decide, call, commit.                  *)

Mishap == mishaps < MaxMishaps /\ mishaps' = mishaps + 1

OnAuto == holder.by = "request" /\ reqs[holder.slot].lot = AutoLot

(* A pass comes to the automatic lot with the capacity of that moment; the *)
(* loop and the routes answer for what they then do, the scheduler's task  *)
(* only once it has ended.                                                 *)
StockStep == [stage |-> "matrix", lot |-> AutoLot]

Looks(upto) == \E k \in DOMAIN holder.todo :
                  k <= upto /\ holder.todo[k] = StockStep

LooksAt(upto) ==
    IF ~Looks(upto) \/ lapsed = "no" THEN lapsed
    ELSE IF holder.by = "task" THEN "seen" ELSE "no"

Unlooked == IF lapsed = "seen" THEN "yes" ELSE lapsed

(* How a job that raised ends, and what it leaves to be retried.           *)
Abandon(effect) ==
    /\ holder' = Nothing
    /\ IF holder.by = "loop" THEN PassEnds(FALSE) ELSE UNCHANGED loopVars
    /\ reqs' = IF holder.by = "request"
               THEN [reqs EXCEPT ![holder.slot] = AfterFailure(@)] ELSE reqs
    /\ forgotten' = (forgotten \/ holder.by = "route"
                              \/ (effect /\ holder.by # "loop"))
    /\ lapsed' = Unlooked

(* The operator's own switch of the automatic lot looks at no capacity and *)
(* asks for no pass.                                                       *)
Finish ==
    /\ holder' = Nothing
    /\ CASE holder.by = "loop" -> PassEnds(TRUE)
         [] holder.by = "reconf" -> Connected
         [] OTHER -> UNCHANGED loopVars
    /\ reqs' = IF holder.by = "request"
               THEN [reqs EXCEPT ![holder.slot] = Answered] ELSE reqs
    /\ forgotten' = ((forgotten /\ holder.by # "loop") \/ OnAuto)
    /\ lapsed' = IF Looks(Len(holder.todo)) \/ lapsed = "seen" THEN "no" ELSE lapsed

StageOf(step) ==
    IF step.stage \in Stages
    THEN StageWork(step.stage, step.lot, holder.by = "loop", holder.full)
    ELSE RequestWork(step.stage, step.lot)

Begin(work) ==
    [holder EXCEPT !.work = work,
                   !.at = IF work.call = "none" THEN "commit" ELSE "call"]

(* The next stage with something to do; a request that refuses raises.     *)
JobLoads ==
    /\ holder # Nothing
    /\ holder.at = "load"
    /\ LET busy == {k \in DOMAIN holder.todo : StageOf(holder.todo[k]) # {}}
           k == Min(busy)
       IN  IF busy # {}
           THEN /\ \E work \in StageOf(holder.todo[k]) :
                     holder' = [Begin(work) EXCEPT
                        !.todo = SubSeq(holder.todo, k, Len(holder.todo))]
                /\ lapsed' = LooksAt(k)
                /\ UNCHANGED <<loopVars, reqs, forgotten>>
           ELSE IF holder.by = "request" /\ holder.todo # << >>
           THEN Abandon(FALSE)
           ELSE Finish
    /\ UNCHANGED <<lotVars, configVars, due, changes, mishaps, unrecorded,
                   crossed>>

(* An offer saved for a work: the row in memory has its id and the marker. *)
BoundTo(work, id) ==
    [work EXCEPT !.new = [work.new EXCEPT !.offer = id, !.marked = TRUE]]

(* What the accepted call makes of the offers and of the row in memory.    *)
Called(work) ==
    LET row == work.new
    IN  CASE work.call = "save" ->
               /\ offers' = Saved(work.lot, row, work.on)
               /\ holder' = [holder EXCEPT
                     !.at = "commit",
                     !.work = BoundTo(work, SavedId(work.lot, row))]
          [] work.call = "toggle" ->
               /\ offers' = Toggled(row.offer, work.on)
               /\ holder' = [holder EXCEPT !.at = "commit"]
          [] OTHER ->
               /\ offers' = Deleted(row.offer)
               /\ holder' = [holder EXCEPT !.at = "commit"]

JobCalls ==
    /\ holder # Nothing
    /\ holder.at = "call"
    /\ Reachable(holder.work.new)
    /\ Called(holder.work)
    /\ UNCHANGED <<rows, configVars, loopVars, reqs, due, changes, mishaps,
                   unrecorded, crossed, forgotten, lapsed>>

Remaining(job) ==
    [job EXCEPT !.work = Nothing, !.at = "load", !.todo = Tail(@)]

(* A lot the pass has just saved whole is not saved again at its end.      *)
Done(job) ==
    [Remaining(job) EXCEPT
        !.full = IF job.work.call = "save" THEN @ \cup {job.work.lot} ELSE @]

(* A new automatic lot is bound before it is put on sale.                  *)
Following(work) ==
    CASE work.then = "bind" ->
           [work EXCEPT !.old = work.new, !.call = "save", !.then = "activate"]
      [] work.then = "activate" ->
           [work EXCEPT !.old = work.new, !.new = Active(work.new),
                        !.call = "toggle", !.on = TRUE, !.then = "end"]

JobCommits ==
    /\ holder # Nothing
    /\ holder.at = "commit"
    /\ LET work == holder.work
       IN  /\ rows' = [rows EXCEPT ![work.lot] =
                            Written(@, work.old, work.new)]
           /\ holder' = IF work.then = "end" THEN Done(holder)
                        ELSE Begin(Following(work))
    /\ UNCHANGED <<offers, configVars, loopVars, reqs, due, changes, mishaps,
                   unrecorded, crossed, forgotten, lapsed>>

ToleratedAtStart(job) == Head(job.todo).stage = "marker"

(* A call that is refused or lost, or a commit that fails after it.  The   *)
(* marker stage goes on with the next lot, unless an active lot would be   *)
(* listened for without its marker; everything else raises.                *)
Tolerated(job) ==
    LET stage == Head(job.todo).stage
    IN  stage = "marker" /\ (job.by # "reconf" \/ job.work.old.status # "active")

JobFails ==
    /\ holder # Nothing
    /\ holder.at \in {"call", "commit"}
    /\ IF holder.at = "call" /\ ~Reachable(holder.work.new)
       THEN UNCHANGED mishaps ELSE Mishap
    /\ LET effect == holder.at = "commit" /\ holder.work.call # "none"
       IN  /\ unrecorded' = IF effect THEN unrecorded \cup {holder.work.lot}
                            ELSE unrecorded
           /\ IF Tolerated(holder)
              THEN /\ holder' = Remaining(holder)
                   /\ forgotten' = (forgotten \/ effect)
                   /\ UNCHANGED <<loopVars, reqs, lapsed>>
              ELSE Abandon(effect)
    /\ UNCHANGED <<lotVars, configVars, due, changes, crossed>>

(* stop() or a crash, at any point; start() connects again.                *)
Restart ==
    /\ Mishap
    /\ LoopForgets
    /\ holder' = Nothing
    /\ due' = "no"
    /\ reqs' = [i \in Slots |-> IF reqs[i].at = "idle" THEN reqs[i]
                                ELSE Answered]
    /\ unrecorded' = IF holder = Nothing THEN unrecorded
                     ELSE IF holder.at # "commit" THEN unrecorded
                     ELSE unrecorded \cup {holder.work.lot}
    /\ forgotten' = (forgotten \/ dirty \/ loop # "none" \/ due # "no"
                               \/ holder # Nothing)
    /\ lapsed' = Unlooked
    /\ UNCHANGED <<lotVars, configVars, changes, crossed>>

Next ==
    \/ CapacityChanges
    \/ CapacityDrifts
    \/ CatalogSaved
    \/ PricesSaved
    \/ TemplatesSaved
    \/ MessagesSaved
    \/ \E i \in Slots :
          \/ CreateLot(i)
          \/ \E kind \in Kinds \ {"create"}, lot \in Lots :
                RequestRead(i, kind, lot)
          \/ RequestDecides(i)
          \/ CreateFailed(i)
          \/ RequestRuns(i)
    \/ RouteReconciles
    \/ TaskLotAuto
    \/ LoopTop /\ UNCHANGED <<lotVars, configVars, holder, reqs, due, changes,
                              mishaps, unrecorded, crossed, forgotten, lapsed>>
    \/ LoopReconciles
    \/ Reconfigure
    \/ Disconnect
    \/ JobLoads
    \/ JobCalls
    \/ JobCommits
    \/ JobFails
    \/ Restart

Spec == Init /\ [][Next]_vars

-----------------------------------------------------------------------------
(* Types, and the bound on strays: a lost creation costs a mishap.         *)
StoreTypeOK ==
    /\ rows \in [Lots -> Row]
    /\ offers \in Seq(Offer) /\ Len(offers) <= 2 + MaxMishaps
    /\ {cap, offered, gateway, dirty, forgotten} \subseteq BOOLEAN
    /\ price \in Editions \cup {0, Nothing}
    /\ loop \in {"none", "top", "pass"} /\ lapsed \in {"no", "yes", "seen"}
    /\ due \in {"no", "plain", "published"}
    /\ holder \in JobRow \cup {Nothing}
    /\ reqs \in [Slots -> Req]
    /\ changes \in Nat /\ mishaps \in 0..MaxMishaps
    /\ unrecorded \subseteq Lots /\ crossed \subseteq Lots
    /\ \A l \in Lots : Bound(rows[l]) => rows[l].offer \in DOMAIN offers

OnSale(id) == offers[id].on

(* The operator's own operation on a lot is between its call and its       *)
(* commit.                                                                 *)
InHand(lot) ==
    IF ~WorkingOn(lot) THEN FALSE
    ELSE holder.by = "request" /\ holder.at = "commit"

Excused(lot) == lot \in unrecorded \cup crossed \/ InHand(lot)

(* An offer on sale is one a lot's row knows by id and has not deleted: a  *)
(* sale is never made from an offer the bot can neither pause nor find,    *)
(* wherever the reconciler was stopped.  Only the operator's direct        *)
(* publication can leave one behind, when its commit is lost.              *)
OnSaleIsBound ==
    \A id \in DOMAIN offers :
        OnSale(id) =>
            LET row == rows[offers[id].lot]
            IN  \/ row.offer = id /\ row.status # "deleted"
                \/ Excused(offers[id].lot)

(* A lot the operator paused is off sale until he puts it back, whatever   *)
(* passes, price changes and re-saves run meanwhile.                       *)
HeldIsOff ==
    \A id \in DOMAIN offers :
        OnSale(id) => ~Held(rows[offers[id].lot]) \/ Excused(offers[id].lot)

(* While the listener runs, a purchase of any offer on sale is attributed  *)
(* to its lot, and by the lot's own marker too should the id be missing    *)
(* from the order page.                                                    *)
SoldIsAttributed ==
    gateway => \A id \in DOMAIN offers :
                  OnSale(id) => /\ offers[id].marked
                                /\ \/ FoundLot(id) = offers[id].lot
                                   \/ Excused(offers[id].lot)

(* Outside the work in hand, FunPay shows the wording and price the row    *)
(* has, so the next pass can tell by the row whether anything changed.     *)
PriceIsPublished ==
    \A l \in Lots :
        LET row == rows[l]
        IN  Bound(row) =>
               \/ offers[row.offer].text = row.text
               \/ l \in unrecorded \/ WorkingOn(l)

(* A remembered capacity change has a loop to serve it whenever there is a *)
(* transport to serve it with.                                             *)
RequestHasLoop == dirty /\ gateway => loop # "none"

Shown == \E id \in DOMAIN offers : offers[id].lot = AutoLot /\ OnSale(id)

StockAgrees ==
    /\ ~cap => ~Shown \/ Excused(AutoLot)
    /\ cap /\ Matrix /\ price # 0 => Shown \/ Held(rows[AutoLot])

AtRest == holder = Nothing /\ loop = "none" /\ due = "no"

(* Once the loop and the routes have nothing left to do, the automatic lot *)
(* is on sale exactly if it has capacity, without waiting for a scheduled  *)
(* pass: changes made while a pass runs, while one fails and while no      *)
(* transport is installed are not lost.  Only a change that requests no    *)
(* pass is made up for by the next one, whoever runs it.                   *)
StockAgreesAtRest ==
    AtRest /\ gateway => StockAgrees \/ forgotten \/ lapsed = "yes"
=============================================================================
