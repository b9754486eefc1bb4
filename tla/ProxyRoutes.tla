----------------------------- MODULE ProxyRoutes -----------------------------
(***************************************************************************)
(* Login routes: services/proxy_routes.py and api/routers/proxy_routes.py, *)
(* without the pairing of the home relay (HomeRelay).  A route is used by  *)
(* logins, probed by a sweep and by the operator, and edited while both    *)
(* are under way.                                                          *)
(*                                                                         *)
(* config_revision only ever answers whether a snapshot is still current,  *)
(* so a probe or a login in flight carries that answer: "same".  "truly"   *)
(* is the fact behind it: nothing about the transport has changed since.   *)
(***************************************************************************)
EXTENDS Naturals, Sequences

CONSTANTS Routes, Accounts,
          Home,          \* the route of mode home_relay, there is at most one
          Direct,        \* no route
          Inherit,       \* the account has no route of its own
          Nobody,        \* no login in flight
          MaxProbes      \* bound: probes in flight (the sweep, the operator)

ASSUME RoutesAssumption ==
    /\ Home \in Routes /\ MaxProbes \in Nat
    /\ Direct \notin Routes /\ Inherit \notin Routes /\ Nobody \notin Routes
    /\ Direct # Nobody

VARIABLES
  routes,    \* ProxyRoute
  default,   \* SellerSettings.default_proxy_route_id
  account,   \* Account: proxy_route_id, status, an active check job
  login,     \* the browser login of each account, with its BrowserProxy
  probes,    \* the probes in flight, in the order in which they began
  tunnel     \* the home relay is connected with an authorised key

routeVars == <<routes, default, account, login, probes, tunnel>>

\* online: status "online" and a fresh last_checked_at, the only distinction any
\* code draws
Route == [state : {"absent", "off", "on"}, online : BOOLEAN, proven : BOOLEAN]
AccountRow == [route : Routes \cup {Inherit},
               active : BOOLEAN,             \* status "active", or another one
               job : {"none", "pending", "running"},
               certified : Routes \cup {Direct, Nobody}]  \* the transport that passed last
Login == [via : Routes \cup {Direct, Nobody}, same : BOOLEAN, truly : BOOLEAN, job : BOOLEAN]
NoLogin == [via |-> Nobody, same |-> TRUE, truly |-> TRUE, job |-> FALSE]
Probe == [route : Routes, same : BOOLEAN, behind : BOOLEAN, truly : BOOLEAN]

Exists(r) == routes[r].state # "absent"
\* proxy_route_check_is_fresh and the conditions around it
Selectable(r) == routes[r].state = "on" /\ routes[r].online
Effective(a) == IF account[a].route = Inherit THEN default ELSE account[a].route
InUse(r) == default = r \/ \E a \in Accounts : account[a].route = r
NewRoute == [state |-> "on", online |-> FALSE, proven |-> FALSE]
Usable(a) == Effective(a) \in {Direct} \cup {r \in Routes : Selectable(r)}

\* what a new revision (bump) or another transport (moved) of r means for the
\* probes and logins in flight
Overtaken(r, bump, moved) ==
    /\ probes' = [i \in DOMAIN probes |->
         IF probes[i].route # r THEN probes[i]
         ELSE [probes[i] EXCEPT !.same = @ /\ ~bump, !.truly = @ /\ ~moved]]
    /\ login' = [a \in Accounts |->
         IF login[a].via # r THEN login[a]
         ELSE [login[a] EXCEPT !.same = @ /\ ~bump, !.truly = @ /\ ~moved]]
\* no check speaks for a transport that moved
Decertified(r) ==
    account' = [a \in Accounts |-> IF account[a].certified = r
                                   THEN [account[a] EXCEPT !.certified = Nobody]
                                   ELSE account[a]]

\* accounts whose login path changed: _queue_accounts_after_route_change
Queued(row) == [row EXCEPT !.active = FALSE, !.job = "pending"]
\* _lock_accounts_for_route_change refuses while one of them is being checked
Unchecked(S) == \A a \in S : account[a].job = "none"
Requeue(S) == account' = [a \in Accounts |-> IF a \in S THEN Queued(account[a])
                                             ELSE account[a]]
Inheriting == {a \in Accounts : account[a].route = Inherit}
Users(r) == {a \in Accounts : Effective(a) = r}

-----------------------------------------------------------------------------
(* The operator's endpoints.  free: no pairing holds the lock of the route. *)

CreateRoute(r) ==
    /\ r # Home /\ ~Exists(r)
    /\ routes' = [routes EXCEPT ![r] = NewRoute]
    /\ UNCHANGED <<default, account, login, probes, tunnel>>

SetDefault(r, free) ==
    /\ r # default /\ Unchecked(Inheriting)
    /\ IF r = Direct THEN TRUE ELSE free /\ Selectable(r)
    /\ default' = r
    /\ Requeue(Inheriting)
    /\ UNCHANGED <<routes, login, probes, tunnel>>

\* update_account with proxy_route_id
Assign(a, r, free) ==
    /\ r # account[a].route /\ Unchecked({a})
    /\ IF r = Inherit THEN TRUE ELSE free /\ Selectable(r)
    /\ account' = [account EXCEPT ![a] = Queued([@ EXCEPT !.route = r])]
    /\ UNCHANGED <<routes, default, login, probes, tunnel>>

\* update_proxy_route, another endpoint or other credentials: only unused
EditTransport(r) ==
    /\ r # Home /\ Exists(r) /\ ~InUse(r)
    /\ routes' = [routes EXCEPT ![r] = [NewRoute EXCEPT !.state = routes[r].state]]
    /\ Overtaken(r, TRUE, TRUE) /\ Decertified(r)
    /\ UNCHANGED <<default, tunnel>>

\* update_proxy_route, enabled: its accounts are checked again
Toggle(r, free) ==
    /\ Exists(r) /\ free /\ Unchecked(Users(r))
    /\ routes[r].state = "on" => default # r
    /\ routes' = [routes EXCEPT ![r] =
         [NewRoute EXCEPT !.state = IF routes[r].state = "on" THEN "off" ELSE "on"]]
    /\ Requeue(Users(r))
    /\ Overtaken(r, TRUE, FALSE)
    /\ UNCHANGED <<default, tunnel>>

DeleteCustom(r) ==
    /\ r # Home /\ Exists(r) /\ ~InUse(r)
    /\ routes' = [routes EXCEPT ![r] = [NewRoute EXCEPT !.state = "absent"]]
    /\ Overtaken(r, TRUE, TRUE) /\ Decertified(r)
    /\ UNCHANGED <<default, tunnel>>

-----------------------------------------------------------------------------
(* Probes. *)

ProbeBegin(r) ==
    /\ routes[r].state = "on" /\ Len(probes) < MaxProbes
    /\ probes' = Append(probes, [route |-> r, same |-> TRUE, behind |-> FALSE,
                                 truly |-> TRUE])
    /\ UNCHANGED <<routes, default, account, login, tunnel>>

\* an answer can only come through the relay while it is connected
Reaches(r) == r = Home => tunnel

\* the probes of r that began before the one at position n are now too old
LeftBehind(s, r, n) ==
    [i \in DOMAIN s |-> IF s[i].route = r /\ i < n THEN [s[i] EXCEPT !.behind = TRUE]
                        ELSE s[i]]
WithoutProbe(s, n) == SubSeq(s, 1, n - 1) \o SubSeq(s, n + 1, Len(s))

\* Faulty variant: a probe is published whatever was recorded after it began.
PublishableLate(p) == routes[p.route].state = "on" /\ p.same
\* publish_proxy_probe_result, the WHERE of its UPDATE
Publishable(p) == routes[p.route].state = "on" /\ p.same /\ ~p.behind

\* proven: this probe saw the transport as it is, and no failure came after it
ProbeEnd(n, ok, free) ==
    LET p == probes[n]
    IN /\ n \in DOMAIN probes
       /\ ok => Reaches(p.route)
       /\ IF Publishable(p)
          THEN /\ p.route = Home => free
               /\ routes' = [routes EXCEPT ![p.route] =
                    [@ EXCEPT !.online = ok, !.proven = ok /\ p.truly /\ ~p.behind]]
               /\ probes' = WithoutProbe(LeftBehind(probes, p.route, n), n)
          ELSE /\ probes' = WithoutProbe(probes, n)
               /\ UNCHANGED routes
       /\ UNCHANGED <<default, account, login, tunnel>>

FreshnessEnds(r) ==
    /\ routes[r].online
    /\ routes' = [routes EXCEPT ![r] = [@ EXCEPT !.online = FALSE, !.proven = FALSE]]
    /\ UNCHANGED <<default, account, login, probes, tunnel>>

-----------------------------------------------------------------------------
(* Logins: a queued check, or the validator of !replace, which has no job.  *)

ScheduleCheck(a) ==
    /\ account[a].job = "none"
    /\ account' = [account EXCEPT ![a].job = "pending"]
    /\ UNCHANGED <<routes, default, login, probes, tunnel>>

\* resolve_browser_proxy: a configured route that is not usable is never bypassed
LoginBegin(a, job) ==
    /\ login[a] = NoLogin /\ Usable(a)
    /\ job => account[a].job = "pending"
    /\ account' = IF job THEN [account EXCEPT ![a].job = "running"] ELSE account
    /\ login' = [login EXCEPT ![a] = [via |-> Effective(a), same |-> TRUE,
                                           truly |-> TRUE, job |-> job]]
    /\ UNCHANGED <<routes, default, probes, tunnel>>

Ended(a, active, job) ==
    [account[a] EXCEPT !.active = active,
                       !.job = IF login[a].job \/ job # "none" THEN job ELSE @]

LoginRefused(a) ==
    /\ account[a].job = "pending" /\ ~Usable(a)
    /\ account' = [account EXCEPT ![a].active = FALSE, ![a].job = "none"]
    /\ UNCHANGED <<routes, default, login, probes, tunnel>>

\* Faulty variant: the selection is not compared again.
SelectionAssumed(a) == TRUE
\* assert_proxy_selection_unchanged, with the Account locked
SelectionUnchanged(a) == login[a].via = Effective(a) /\ login[a].same

LoginPasses(a) ==
    /\ login[a].via # Nobody
    /\ login[a].via = Home => tunnel
    /\ IF SelectionUnchanged(a)
       THEN account' = [account EXCEPT ![a] =
              [Ended(a, TRUE, "none") EXCEPT
                 !.certified = IF login[a].truly THEN login[a].via ELSE Nobody]]
       ELSE account' = [account EXCEPT ![a] =
              IF login[a].job THEN Ended(a, FALSE, "pending")
              ELSE Ended(a, FALSE, "none")]
    /\ login' = [login EXCEPT ![a] = NoLogin]
    /\ UNCHANGED <<routes, default, probes, tunnel>>

\* mark_proxy_route_offline if the proxy was at fault: what is recorded now is
\* newer than any probe in flight.  keeps: _preserve_scheduled_active_account.
LoginFails(a, proxyFault, keeps, free) ==
    LET r == login[a].via
    IN /\ r # Nobody
       /\ keeps => login[a].job /\ account[a].active
       /\ proxyFault /\ r = Home => free
       /\ IF proxyFault /\ r # Direct /\ login[a].same /\ routes[r].state = "on"
          THEN /\ routes' = [routes EXCEPT ![r] =
                    [@ EXCEPT !.online = FALSE, !.proven = FALSE]]
               /\ probes' = LeftBehind(probes, r, Len(probes) + 1)
          ELSE UNCHANGED <<routes, probes>>
       /\ account' = [account EXCEPT ![a] = Ended(a, keeps, "none")]
       /\ login' = [login EXCEPT ![a] = NoLogin]
       /\ UNCHANGED <<default, tunnel>>

RoutesNext(free) ==
    \/ \E r \in Routes :
         \/ CreateRoute(r) \/ SetDefault(r, r = Home => free) \/ EditTransport(r)
         \/ Toggle(r, r = Home => free) \/ DeleteCustom(r) \/ ProbeBegin(r)
         \/ FreshnessEnds(r)
         \/ \E a \in Accounts : Assign(a, r, r = Home => free)
    \/ SetDefault(Direct, TRUE)
    \/ \E n \in 1..MaxProbes, ok \in BOOLEAN : ProbeEnd(n, ok, free)
    \/ \E a \in Accounts :
         \/ Assign(a, Inherit, TRUE) \/ ScheduleCheck(a) \/ LoginRefused(a)
         \/ LoginPasses(a)
         \/ \E b \in BOOLEAN : LoginBegin(a, b)
         \/ \E fault, keeps \in BOOLEAN : LoginFails(a, fault, keeps, free)
=============================================================================
