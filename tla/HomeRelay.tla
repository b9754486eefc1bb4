------------------------------ MODULE HomeRelay ------------------------------
(***************************************************************************)
(* Pairing the home relay: setup, enrollment and deletion of its route     *)
(* (api/routers/proxy_routes.py).  Each couples a row in the database to a *)
(* line in the relay's authorized_keys file, which no transaction covers.  *)
(* Setup and enrollment hold the lock of the route while they change the   *)
(* file; a deletion and the two compensations do not.                      *)
(***************************************************************************)
EXTENDS ProxyRoutes

VARIABLES
  token,     \* the HomeRelaySetup that is neither consumed nor expired
  key,       \* the managed line of authorized_keys; "unknown" to its PC, or "told"
  pairing,   \* who holds the lock of the route, after changing the file
  undoing,   \* a compensation after a failed commit, without the lock
  deleting,  \* delete_proxy_route, after it gave up its locks
  mishaps    \* ghost: a step was cut off; a pairing or edit overtook a deletion

relayVars == <<token, key, pairing, undoing, deleting, mishaps>>

Unlocked == pairing = "none"
\* bound: no pairing or deletion begins during a compensation or after a mishap
Calm == undoing = {} /\ mishaps = {}
Home_ == routes[Home]

\* the row of the route is written with a new revision
WriteHome(row) == routes' = [routes EXCEPT ![Home] = row] /\ Overtaken(Home, TRUE, FALSE)
FailClosed == [Home_ EXCEPT !.state = IF @ = "absent" THEN @ ELSE "off",
                            !.online = FALSE, !.proven = FALSE]
KeepRoute == UNCHANGED <<routes, login, probes>>

\* revoke_authorized_key, or the first half of install_authorized_key: the line
\* is removed and every session is killed, unless the file cannot be written or
\* the sidecar does not acknowledge (OSError)
Revoked(ok) ==
    /\ key' \in IF ok THEN {"none"} ELSE {"none", key}
    /\ tunnel' \in IF ok THEN {FALSE} ELSE {FALSE, tunnel}
\* the row does not know yet; only a new key is another transport
Unproven == routes' = [routes EXCEPT ![Home].proven = FALSE]

-----------------------------------------------------------------------------
(* setup_home_relay *)

SetupCreates ==
    /\ ~Exists(Home) /\ Unlocked /\ Calm
    /\ WriteHome(NewRoute)
    /\ token' = "live"
    /\ UNCHANGED <<default, account, tunnel, key, pairing, undoing, deleting>>

MayPair == Exists(Home) /\ Unlocked /\ ~InUse(Home)

\* the old key goes first: the row still says what it said
SetupRevokes(ok) ==
    /\ MayPair /\ Calm
    /\ Revoked(ok) /\ Unproven
    /\ pairing' = IF ok THEN "setup" ELSE "setup_failed"
    /\ UNCHANGED <<default, account, login, probes, token, undoing, deleting>>

SetupCommits(ok) ==
    /\ pairing \in {"setup", "setup_failed"}
    /\ pairing' = "none"
    /\ IF ok
       THEN /\ WriteHome(IF pairing = "setup" THEN NewRoute ELSE FailClosed)
            /\ token' = IF pairing = "setup" THEN "live" ELSE "none"
            /\ UNCHANGED undoing
       ELSE /\ undoing = {} /\ deleting = "none"   \* bound: one compensation at a time
            /\ undoing' = {"mark"}
            /\ KeepRoute /\ UNCHANGED token
    /\ UNCHANGED <<default, account, tunnel, key, deleting>>

TokenExpires ==
    /\ token = "live"
    /\ token' = "none"
    /\ UNCHANGED <<routeVars, key, pairing, undoing, deleting>>

-----------------------------------------------------------------------------
(* enroll_home_relay: the PC presents the token and its new key *)

EnrollInstalls ==
    /\ token = "live" /\ Exists(Home) /\ Unlocked /\ Calm
    /\ key' = "unknown" /\ tunnel' = FALSE
    /\ Unproven /\ Overtaken(Home, FALSE, TRUE) /\ Decertified(Home)
    /\ pairing' = "enroll"
    /\ UNCHANGED <<default, token, undoing, deleting>>

EnrollRefused ==
    /\ token = "live" /\ Exists(Home) /\ Unlocked /\ Calm
    /\ Revoked(FALSE)
    /\ WriteHome(FailClosed)
    /\ UNCHANGED <<default, account, token, pairing, undoing, deleting>>

EnrollCommits(ok) ==
    /\ pairing = "enroll"
    /\ pairing' = "none"
    /\ IF ok
       THEN /\ WriteHome([Home_ EXCEPT !.state = "on", !.online = FALSE])
            /\ token' = "none" /\ key' = "told"
            /\ UNCHANGED undoing
       ELSE /\ undoing = {} /\ deleting = "none"
            /\ undoing' = {"revoke", "mark"}
            /\ KeepRoute /\ UNCHANGED <<token, key>>
    /\ UNCHANGED <<default, account, tunnel, deleting>>

\* the compensations: the key of a failed enrollment first, then the row
UndoRevokes(ok) ==
    /\ "revoke" \in undoing
    /\ Revoked(ok) /\ Unproven
    /\ undoing' = {"mark"}
    /\ UNCHANGED <<default, account, login, probes, token, pairing, deleting>>

UndoMarks(ok) ==
    /\ undoing = {"mark"} /\ Unlocked
    /\ undoing' = {}
    /\ IF ok THEN WriteHome(FailClosed) ELSE KeepRoute
    /\ UNCHANGED <<default, account, tunnel, token, key, pairing, deleting>>

-----------------------------------------------------------------------------
(* delete_proxy_route of the home relay: disabled, revoked, deleted *)

DeleteDisables ==
    /\ Exists(Home) /\ Unlocked /\ ~InUse(Home) /\ Calm
    /\ deleting = "none"                    \* bound: one deletion at a time
    /\ deleting' = "disabled"
    /\ WriteHome(FailClosed)
    /\ UNCHANGED <<default, account, tunnel, token, key, pairing, undoing>>

\* Faulty variant: the row goes, the key stays.
DeleteForgets(ok) == UNCHANGED <<key, tunnel>>
DeleteRevoked(ok) == Revoked(ok)

DeleteRevokes(ok) ==
    /\ deleting = "disabled"
    /\ ok \/ Unlocked                        \* the error is noted in the row
    /\ DeleteRevoked(ok) /\ Unproven
    /\ deleting' = IF ok THEN "revoked" ELSE "none"
    /\ UNCHANGED <<default, account, login, probes, token, pairing, undoing>>

\* Faulty variant: nothing restricts the deletion.
ReferencedBefore == FALSE
\* a reference that appeared meanwhile (RESTRICT) keeps the row, offline
Referenced == InUse(Home)
DeleteEnds ==
    /\ deleting = "revoked" /\ Unlocked
    /\ deleting' = "none"
    /\ IF Referenced
       THEN WriteHome([Home_ EXCEPT !.online = FALSE, !.proven = FALSE])
            /\ UNCHANGED token
       ELSE WriteHome([FailClosed EXCEPT !.state = "absent"]) /\ token' = "none"
    /\ UNCHANGED <<default, account, tunnel, key, pairing, undoing>>

-----------------------------------------------------------------------------
(* The PC, and a restart of the process. *)

Connect(up) ==
    /\ tunnel # up /\ (up => key = "told")
    /\ tunnel' = up
    /\ UNCHANGED <<routes, default, account, login, probes, token, key, pairing, undoing, deleting>>

\* every request in flight is gone and its transaction with it; the checks are
\* queued again
Restart ==
    /\ probes' = <<>>
    /\ login' = [a \in Accounts |-> NoLogin]
    /\ account' = [a \in Accounts |->
         [account[a] EXCEPT !.job = IF @ = "running" THEN "pending" ELSE @]]
    /\ pairing' = "none" /\ undoing' = {} /\ deleting' = "none"
    /\ UNCHANGED <<routes, default, tunnel, token, key>>

Init ==
    /\ routes = [r \in Routes |-> [NewRoute EXCEPT !.state = "absent"]]
    /\ default = Direct
    /\ account = [a \in Accounts |-> [route |-> Inherit, active |-> FALSE,
                                      job |-> "pending", certified |-> Nobody]]
    /\ login = [a \in Accounts |-> NoLogin]
    /\ probes = <<>> /\ tunnel = FALSE
    /\ token = "none" /\ key = "none" /\ pairing = "none"
    /\ undoing = {} /\ deleting = "none" /\ mishaps = {}

\* Something brings the relay back while it is being deleted.
Overtakes ==
    /\ deleting # "none"
    /\ \/ Home_.state # "on" /\ routes'[Home].state = "on"
       \/ key = "none" /\ key' # "none"
\* Nothing shows any more: no login is offered the relay, what is in flight
\* knows of the change, and a key has its row.
Repaired ==
    /\ deleting' = "none" /\ ~routes'[Home].online
    /\ \A i \in DOMAIN probes' : probes'[i].same => probes'[i].truly
    /\ \A a \in Accounts : login'[a].same => login'[a].truly
    /\ key' # "none" => routes'[Home].state # "absent"
Records(new) == mishaps' = IF Repaired THEN {} ELSE mishaps \cup new

Next ==
    \/ /\ \/ RoutesNext(Unlocked) /\ UNCHANGED <<token, key, pairing, undoing, deleting>>
          \/ SetupCreates \/ TokenExpires \/ EnrollInstalls \/ EnrollRefused
          \/ DeleteDisables \/ DeleteEnds \/ UndoMarks(TRUE)
          \/ \E ok \in BOOLEAN : \/ SetupRevokes(ok) \/ SetupCommits(ok) \/ EnrollCommits(ok)
                                 \/ UndoRevokes(ok) \/ DeleteRevokes(ok) \/ Connect(ok)
       /\ Records(IF Overtakes THEN {"overtaken"} ELSE {})
    \/ UndoMarks(FALSE) /\ Records({"cut"})
    \/ Restart /\ Records(IF Unlocked /\ undoing = {} /\ deleting = "none" THEN {}
                          ELSE {"cut"})

Spec == Init /\ [][Next]_<<routeVars, relayVars>>

-----------------------------------------------------------------------------
(* Types: rows, snapshots and pairings keep their shape, and no account is   *)
(* assigned to a route that does not exist (the RESTRICT of its reference). *)
RoutesTypeOK ==
    /\ routes \in [Routes -> Route]
    /\ default \in Routes \cup {Direct}
    /\ account \in [Accounts -> AccountRow]
    /\ login \in [Accounts -> Login]
    /\ probes \in Seq(Probe) /\ Len(probes) <= MaxProbes
    /\ tunnel \in BOOLEAN /\ token \in {"none", "live"}
    /\ key \in {"none", "unknown", "told"}
    /\ pairing \in {"none", "setup", "setup_failed", "enroll"}
    /\ undoing \subseteq {"revoke", "mark"}
    /\ deleting \in {"none", "disabled", "revoked"}
    /\ mishaps \subseteq {"cut", "overtaken"}
    /\ \A r \in Routes : InUse(r) => Exists(r)

\* The home relay's row lags behind its key while a pairing, a compensation or
\* a deletion is at work, and after one of them was cut off or overtaken, until
\* the next probe sees that.
Settled(r) ==
    r = Home => Unlocked /\ undoing = {} /\ deleting = "none" /\ mishaps = {}

\* A route offered to logins was reached through the transport it has now, and
\* nothing recorded since says otherwise: no late probe, edit or pairing makes
\* it selectable.
OnlineIsProven ==
    \A r \in Routes : Selectable(r) /\ Settled(r) => routes[r].proven

\* An account for sale was checked through the very route and transport that it
\* has, whatever the operator changed while logins, probes and pairings were in
\* flight or cut off: a route that comes back needs no new check.
ActiveIsCertified ==
    \A a \in Accounts : account[a].active => account[a].certified = Effective(a)

\* services/proxy_routes.py: a relay key is removed before its database route
\* is deleted; no compensation, retry or restart leaves a key that still opens
\* the relay without a row that shows it.  (An enrollment that gets in between
\* the deletion's two transactions does.)
KeyHasRoute == key # "none" /\ "overtaken" \notin mishaps => Exists(Home)
=============================================================================
