--------------------------- MODULE MCRentalSystem ---------------------------
EXTENDS RentalSystem, TLC

Symmetric ==
    Permutations(Orders) \cup Permutations(Accounts) \cup Permutations(Workers)

\* A bound of the run two_orders: not every slot is at a !replace of one order.
InReplacement(w, o) ==
    \E s \in {"check", "checked", "replace", "replace_kicked"} :
      At(w, s) /\ task[w].ord = o
OneReplacement ==
    \A o \in Orders, v, w \in Workers :
      InReplacement(v, o) /\ InReplacement(w, o) => v = w
=============================================================================
