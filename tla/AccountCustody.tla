--------------------------- MODULE AccountCustody ---------------------------
(***************************************************************************)
(* What the rental core promises of an account (README.md:17-18): it has   *)
(* one renter at a time, only the renter is shown its secrets, and nobody  *)
(* gets it before all sessions opened with those secrets are logged out.   *)
(***************************************************************************)
CONSTANTS Orders, Accounts, NoAccount

VARIABLES
    rents,  \* the account each order rents
    shown,  \* the orders shown an account's secrets since its last logout
    lost    \* accounts whose logouts the promise no longer covers

custodyVars == <<rents, shown, lost>>

Init ==
    /\ rents = [o \in Orders |-> NoAccount]
    /\ shown = [a \in Accounts |-> {}]
    /\ lost = {}

Clean(a) == shown[a] = {} \/ a \in lost

\* no renter, and no session of a former one
Free(a) == (\A o \in Orders : rents[o] # a) /\ Clean(a)

\* the order leaves the account it rents, if any, only once that is logged out
LoggedOut(o) == rents[o] # NoAccount => Clean(rents[o])

Rent(o, a) ==
    /\ Free(a) /\ LoggedOut(o)
    /\ rents' = [rents EXCEPT ![o] = a]
    /\ UNCHANGED <<shown, lost>>

GiveBack(o) ==
    /\ rents[o] # NoAccount /\ LoggedOut(o)
    /\ rents' = [rents EXCEPT ![o] = NoAccount]
    /\ UNCHANGED <<shown, lost>>

Show(o) ==
    /\ rents[o] # NoAccount
    /\ shown' = [shown EXCEPT ![rents[o]] = @ \cup {o}]
    /\ UNCHANGED <<rents, lost>>

LogOut(a) ==
    /\ shown' = [shown EXCEPT ![a] = {}]
    /\ UNCHANGED <<rents, lost>>

\* a late write may disturb one account: nobody is moved by it or shown anything
Lose(a) ==
    /\ lost' = lost \cup {a}
    /\ UNCHANGED <<rents, shown>>

Next ==
    \/ \E o \in Orders : GiveBack(o) \/ Show(o) \/ \E a \in Accounts : Rent(o, a)
    \/ \E a \in Accounts : LogOut(a) \/ Lose(a)

Spec == Init /\ [][Next]_custodyVars
=============================================================================
