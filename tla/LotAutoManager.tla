--------------------------- MODULE LotAutoManager ---------------------------
(***************************************************************************)
(* What one pass of the lot reconciler does to one lot: each of its stages *)
(* reads the row, decides, calls FunPay and commits.  Here are the stages, *)
(* when each applies and the call and row it leads to                      *)
(* (services/lot_auto_manager.py), together with the operations the        *)
(* operator's routes run under the same lock (app_lifecycle.py).           *)
(***************************************************************************)
EXTENDS LotSync

VARIABLES
    cap,       \* an account exists that a sale of AutoLot could be given
    offered,   \* tier, duration and scope of the lots are enabled
    price      \* the price-matrix row of AutoLot: its edition, or Nothing

configVars == <<cap, offered, price>>

(* _check_capacity asks for what an allocation would: a sellable, measured *)
(* and unoccupied account with time enough left.  Here only its answer.    *)
HasCapacity == cap

(* The catalogue still offers what the lot sells.                          *)
ConfigurationValid == offered

Matrix == offered /\ price # Nothing

(* A unit of work on one lot: the call, the row it leads to, what follows. *)
Work(lot, call, on, new, then) ==
    [lot |-> lot, call |-> call, on |-> on, old |-> rows[lot], new |-> new,
     then |-> then]

Paused(row, reason) == [row EXCEPT !.status = "paused", !.reason = reason]
Active(row) == [row EXCEPT !.status = "active", !.reason = "none"]

WorkRow == [lot : Lots, call : {"none", "save", "toggle", "delete"},
            on : BOOLEAN, old : Row, new : Row,
            then : {"end", "bind", "activate"}]

PauseWork(lot, reason) ==
    Work(lot, IF Bound(rows[lot]) THEN "toggle" ELSE "none", FALSE,
         Paused(rows[lot], reason), "end")

(* activate_lot: an offer without the marker is saved whole.               *)
ActivateCall(row) == IF row.marked THEN "toggle" ELSE "save"

(* Stages of a pass; "refresh" belongs to a pass that was asked to re-save *)
(* published offers.                                                       *)
Stages == {"invalid", "marker", "orphan", "matrix", "refresh"}
Requests == {"publish", "on", "off", "delete"}

InvalidApplies(lot) == rows[lot].status = "active" /\ ~ConfigurationValid

MarkerApplies(lot) ==
    Bound(rows[lot]) /\ rows[lot].status # "deleted" /\ ~rows[lot].marked

OrphanApplies(lot) ==
    lot = AutoLot /\ rows[lot].status = "active" /\ ~Matrix

RefreshApplies(lot, full) ==
    /\ Bound(rows[lot])
    /\ rows[lot].status \in {"active", "paused"}
    /\ lot \notin full

Repriced(row) == [row EXCEPT !.text = price]
Changed(row) == row.text # price

AutoPausedAny(row) == row.status = "paused"

AutoPaused(row) == row.status = "paused" /\ row.reason \in AutoReasons

BindWorkOnSale(lot, row) ==
    [Work(lot, "save", TRUE, Paused(row, "auto_publish_pending"), "activate")
        EXCEPT !.old = rows[lot]]

(* _publish_pending_lot starts with an inactive offer.                     *)
BindWork(lot, row) ==
    [Work(lot, "save", FALSE, Paused(row, "auto_publish_pending"), "activate")
        EXCEPT !.old = rows[lot]]

SaveOrStock(call, row, stock) == IF stock THEN "save" ELSE call

SaveOr(call, row, stock) == IF Changed(row) \/ stock THEN "save" ELSE call

NewLot == Paused(Repriced(NoRow), "auto_publish_pending")

(* The branch of the matrix stage a lot takes: at most one work.           *)
MatrixWork(lot, stock) ==
    LET row == rows[lot]
        new == IF price = 0 THEN row ELSE Repriced(row)
        touched == Changed(row) \/ stock
    IN  IF row.status = "absent" THEN
            {w \in {Work(lot, "none", FALSE, NewLot, "bind")} : HasCapacity}
        ELSE IF HasCapacity /\ AutoPaused(row) THEN
            {IF row.reason = "auto_publish_pending" THEN BindWork(lot, new)
             ELSE Work(lot, SaveOr(ActivateCall(row), row, stock), TRUE,
                       Active(new), "end")}
        ELSE IF HasCapacity /\ row.status = "active" THEN
            {w \in {Work(lot, "save", TRUE, new, "end")} : touched}
        ELSE IF row.status = "active" THEN
            {Work(lot, SaveOr("toggle", row, stock), FALSE,
                  Paused(new, "auto_no_account"), "end")}
        ELSE
            {w \in {Work(lot, IF Bound(row) THEN "save" ELSE "none", FALSE,
                         new, "end")} : touched}

(* A template that cannot be rendered takes its offer off sale.            *)
TemplateErrorWork(lot) ==
    {w \in {PauseWork(lot, "auto_template_error")} :
        rows[lot].status = "active"}

(* The work of one stage for one lot; the empty set when it has none.      *)
StageWork(stage, lot, stock, full) ==
    LET row == rows[lot]
        resave(cond) == {w \in {Work(lot, "save", row.status = "active",
                                     row, "end")} : cond}
    IN  CASE stage = "invalid" ->
               {w \in {PauseWork(lot, IF lot = AutoLot THEN "auto_no_config"
                                      ELSE "catalog_unavailable")} :
                    InvalidApplies(lot)}
          [] stage = "marker" -> resave(MarkerApplies(lot))
          [] stage = "orphan" ->
               {w \in {PauseWork(lot, "auto_no_config")} : OrphanApplies(lot)}
          [] stage = "refresh" -> resave(RefreshApplies(lot, full))
          [] OTHER -> IF lot # AutoLot \/ ~Matrix THEN {}
                      ELSE IF price = 0 THEN TemplateErrorWork(lot)
                      ELSE MatrixWork(lot, stock)

(* sync_manual_lot, set_lot_active and delete_lot: the empty set when the  *)
(* operation refuses.                                                      *)
RequestWork(kind, lot) ==
    LET row == rows[lot]
    IN  CASE kind = "publish" ->
               {w \in {Work(lot, "save", TRUE, Active(row), "end")} :
                    ConfigurationValid}
          [] kind = "on" ->
               {w \in {Work(lot, ActivateCall(row), TRUE, Active(row), "end")} :
                    ConfigurationValid /\ Bound(row)}
          [] kind = "off" ->
               {w \in {PauseWork(lot, "manual")} : Bound(row)}
          [] OTHER ->
               {w \in {Work(lot, "delete", FALSE,
                            [row EXCEPT !.status = "deleted",
                                        !.reason = "manual_deleted"], "end")} :
                    Bound(row) /\ row.marked}
=============================================================================
