------------------------------ MODULE LotSync ------------------------------
(***************************************************************************)
(* Lots and the FunPay offers published for them.  A row of the lots table *)
(* is written only after FunPay has accepted the matching offer form, so   *)
(* every operation is a call that changes remote state followed by a       *)
(* commit of local state.  This module holds both states, what each call   *)
(* does to the offers (services/lot_sync.py over the gateway) and what the *)
(* commit of a stale ORM object does to a row.                             *)
(***************************************************************************)
EXTENDS Integers, Sequences, FiniteSetsExt

CONSTANTS
    AutoLot,     \* the lot of a price-matrix row, kept by the reconciler
    ManualLot,   \* a lot the operator publishes by hand
    Nothing

ASSUME LotsDiffer == AutoLot # ManualLot

VARIABLES
    rows,     \* lot -> its row
    offers    \* the offers on FunPay carrying a lot's token, in id order

lotVars == <<rows, offers>>

Lots == {AutoLot, ManualLot}

(* Wording and price of an offer, told apart only by edition; edition 0 is *)
(* a template that cannot be rendered.                                     *)
Editions == {1, 2}

AutoReasons == {"none", "auto_publish_pending", "auto_no_account",
                "auto_no_config", "auto_template_error"}
HandReasons == {"manual", "manual_pending_sync", "sync_failed",
                "catalog_unavailable", "manual_deleted"}

Row == [status : {"absent", "active", "paused", "deleted"},
        reason : AutoReasons \cup HandReasons,
        offer : Nat, marked : BOOLEAN, text : Editions]

Offer == [lot : Lots, on : BOOLEAN, text : Editions, marked : BOOLEAN,
          gone : BOOLEAN]

NoRow == [status |-> "absent", reason |-> "none", offer |-> 0,
          marked |-> FALSE, text |-> 1]

Bound(row) == row.offer # 0

(* Paused by the operator, or by a safety rule only he may lift.           *)
Held(row) == row.status = "paused" /\ row.reason \in HandReasons

(* An offer left by a publication that was never recorded: it is found     *)
(* again by its title and price and adopted only for the lot's own token.  *)
Recoverable(lot, text) ==
    {id \in DOMAIN offers : /\ offers[id].lot = lot
                            /\ offers[id].text = text
                            /\ ~offers[id].gone}

(* FunPay answers a creation with no id: the gateway finds the new offer   *)
(* by its marker.                                                          *)
NewId == Len(offers) + 1

SavedIdForgotten(lot, row) ==
    LET found == Recoverable(lot, row.text)
    IN IF found = {} \/ Bound(row) THEN NewId ELSE Min(found)

(* sync_lot: the bound offer, else the oldest recovered one, else a new    *)
(* one.                                                                    *)
SavedId(lot, row) ==
    IF Bound(row) THEN row.offer
    ELSE LET found == Recoverable(lot, row.text)
         IN IF found = {} THEN NewId ELSE Min(found)

Duplicates(lot, row) ==
    IF Bound(row) THEN {}
    ELSE Recoverable(lot, row.text) \ {SavedId(lot, row)}

Retired(offer) == [offer EXCEPT !.on = FALSE, !.gone = TRUE]

(* The whole form, the lot's ownership marker in its descriptions.         *)
Form(lot, row, active) ==
    [lot |-> lot, on |-> active, text |-> row.text, marked |-> TRUE,
     gone |-> FALSE]

Saved(lot, row, active) ==
    LET id == SavedId(lot, row)
        kept == [i \in DOMAIN offers |->
                    IF i \in Duplicates(lot, row) THEN Retired(offers[i])
                    ELSE offers[i]]
    IN IF id = NewId THEN Append(kept, Form(lot, row, active))
       ELSE [kept EXCEPT ![id] = Form(lot, row, active)]

Toggled(id, active) == [offers EXCEPT ![id].on = active]

Deleted(id) == [offers EXCEPT ![id] = Retired(@)]

(* FunPay has no form any more for an offer that was deleted.              *)
Reachable(row) == Bound(row) => ~offers[row.offer].gone

(* _find_lot, when a sale arrives: the lot bound to the offer's id, the lot *)
(* whose token its description carries, and no lot when the two disagree.  *)
FoundLot(id) ==
    LET byId == {l \in Lots : rows[l].offer = id}
        byToken == {l \in Lots : /\ offers[id].marked /\ offers[id].lot = l
                                 /\ Bound(rows[l]) /\ rows[l].marked}
    IN IF \E l \in Lots : byId \cup byToken = {l}
       THEN CHOOSE l \in Lots : l \in byId \cup byToken
       ELSE Nothing

(* A commit writes the attributes the session changed since it loaded the  *)
(* row, over whatever another session has written in between.              *)
Written(row, loaded, changed) ==
    [f \in DOMAIN row |->
        IF changed[f] # loaded[f] THEN changed[f] ELSE row[f]]

(* Lots published by a release without ownership markers.                  *)
LegacyRow(status, reason) ==
    [status |-> status, reason |-> reason, offer |-> 1, marked |-> FALSE,
     text |-> 1]
LegacyOffer(lot, active) ==
    [lot |-> lot, on |-> active, text |-> 1, marked |-> FALSE, gone |-> FALSE]

LotInit ==
    \/ rows = [l \in Lots |-> NoRow] /\ offers = << >>
    \/ \E l \in Lots, active \in BOOLEAN :
          /\ offers = <<LegacyOffer(l, active)>>
          /\ rows = [k \in Lots |->
                IF k # l THEN NoRow
                ELSE IF active THEN LegacyRow("active", "none")
                ELSE LegacyRow("paused",
                        IF l = AutoLot THEN "auto_no_account" ELSE "manual")]
=============================================================================
