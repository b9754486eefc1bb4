---------------------------- MODULE Routes_proofs ----------------------------
(***************************************************************************)
(* Login routes and the home relay, for any routes, accounts and number of *)
(* probes in flight: types; only proven routes are offered; an account for *)
(* sale was checked over the route it has; a relay key has its row.        *)
(***************************************************************************)
EXTENDS HomeRelay, SequenceTheorems, TLAPS

-----------------------------------------------------------------------------
(* The invariant *)

\* a check or a validator that takes the selection for unchanged is right
ILogins == \A a \in Accounts : login[a].same => login[a].truly

Installing == pairing \in {"setup", "enroll"}
\* A token goes to a relay that nobody uses, whose old key is gone and which no
\* login in flight takes for unchanged: a new key makes nobody's check worthless.
IToken ==
    /\ token = "live" \/ ~Unlocked => ~InUse(Home)
    /\ token = "live" \/ Installing => ~tunnel /\ key # "told"
    /\ token = "live" \/ pairing = "enroll" =>
         /\ ~routes[Home].online
         /\ \A a \in Accounts : login[a].via = Home => ~login[a].same

\* nothing has overtaken a deletion
Tracked == "overtaken" \notin mishaps
\* The key goes before the row; whatever is at work has its row, and a
\* compensation has the relay to itself.
IKey ==
    /\ ~Unlocked \/ undoing # {} \/ deleting # "none" => Exists(Home)
    /\ undoing # {} => Unlocked /\ deleting = "none"
    /\ deleting = "revoked" \/ ~Exists(Home) =>
         /\ Tracked => key = "none"
         /\ key = "none" => ~tunnel

\* the probes of r whose result would be published saw the transport as it is
Sees(r) ==
    \A i \in DOMAIN probes : probes[i].route = r /\ probes[i].same => probes[i].truly
Shown(r) == routes[r].online => routes[r].proven
\* no probe in flight and no freshness can bring the relay back
Silent ==
    /\ ~routes[Home].online
    /\ \A i \in DOMAIN probes : probes[i].route = Home => ~probes[i].same
IProbes ==
    /\ \A r \in Routes : Settled(r) => Shown(r) /\ Sees(r)
    /\ deleting # "none" /\ Tracked => routes[Home].state # "on" /\ Silent

ISound == ILogins /\ ActiveIsCertified /\ IToken /\ IKey /\ IProbes
IInv == RoutesTypeOK /\ ISound

\* RoutesTypeOK in two halves: the tables and what is in flight, and the relay
ITables ==
    /\ routes \in [Routes -> Route]
    /\ default \in Routes \cup {Direct}
    /\ account \in [Accounts -> AccountRow]
    /\ login \in [Accounts -> Login]
    /\ probes \in Seq(Probe) /\ Len(probes) <= MaxProbes
    /\ tunnel \in BOOLEAN
    /\ \A r \in Routes : InUse(r) => Exists(r)
IRelay ==
    /\ token \in {"none", "live"}
    /\ key \in {"none", "unknown", "told"}
    /\ pairing \in {"none", "setup", "setup_failed", "enroll"}
    /\ undoing \subseteq {"revoke", "mark"}
    /\ deleting \in {"none", "disabled", "revoked"}
    /\ mishaps \subseteq {"cut", "overtaken"}

-----------------------------------------------------------------------------
(* Probes: what the operators on the sequence return *)

LEMMA WithoutProbeTyped ==
    ASSUME NEW S, NEW s \in Seq(S), NEW n \in DOMAIN s
    PROVE  LET t == WithoutProbe(s, n)
           IN /\ t \in Seq(S) /\ Len(t) = Len(s) - 1
              /\ \A i \in DOMAIN t : \E j \in DOMAIN s : t[i] = s[j]
<1>1. Len(s) \in Nat /\ DOMAIN s = 1..Len(s) /\ n \in 1..Len(s)
  BY LenProperties
<1>2. \A i \in 1..Len(s) : s[i] \in S
  BY <1>1, ElementOfSeq
<1>3. PICK u : u = SubSeq(s, 1, n - 1)
  OBVIOUS
<1>4. PICK v : v = SubSeq(s, n + 1, Len(s))
  OBVIOUS
<1>5. /\ u \in Seq(S) /\ Len(u) = n - 1
      /\ \A i \in 1..(n - 1) : u[i] = s[i]
  <2>1. \A i \in 1..(n - 1) : s[i] \in S
    BY <1>1, <1>2
  <2>2. /\ u \in Seq(S) /\ Len(u) = IF 1 <= n - 1 THEN n - 1 - 1 + 1 ELSE 0
        /\ \A i \in 1..(n - 1 - 1 + 1) : u[i] = s[1 + i - 1]
    BY <1>1, <1>3, <2>1, SubSeqProperties
  <2> QED
    BY <1>1, <2>2
<1>6. /\ v \in Seq(S) /\ Len(v) = Len(s) - n
      /\ \A i \in 1..(Len(s) - n) : v[i] = s[n + i]
  <2>1. \A i \in (n + 1)..Len(s) : s[i] \in S
    BY <1>1, <1>2
  <2>2. /\ v \in Seq(S)
        /\ Len(v) = IF n + 1 <= Len(s) THEN Len(s) - (n + 1) + 1 ELSE 0
        /\ \A i \in 1..(Len(s) - (n + 1) + 1) : v[i] = s[(n + 1) + i - 1]
    BY <1>1, <1>4, <2>1, SubSeqProperties
  <2> QED
    BY <1>1, <2>2
<1>7. PICK t : t = u \o v
  OBVIOUS
<1>8. /\ t \in Seq(S) /\ Len(t) = Len(s) - 1
      /\ \A i \in 1..(Len(s) - 1) : t[i] = IF i <= n - 1 THEN u[i] ELSE v[i - (n - 1)]
  <2>1. /\ t \in Seq(S) /\ Len(t) = Len(u) + Len(v)
        /\ \A i \in 1..(Len(u) + Len(v)) :
             t[i] = IF i <= Len(u) THEN u[i] ELSE v[i - Len(u)]
    BY <1>5, <1>6, <1>7, ConcatProperties
  <2>2. Len(u) + Len(v) = Len(s) - 1
    BY <1>1, <1>5, <1>6
  <2> QED
    BY <1>5, <2>1, <2>2
<1>9. ASSUME NEW i \in 1..(Len(s) - 1) PROVE \E j \in DOMAIN s : t[i] = s[j]
  <2>1. CASE i <= n - 1
    <3>1. i \in 1..(n - 1) /\ i \in DOMAIN s
      BY <1>1, <2>1
    <3>2. t[i] = s[i]
      BY <1>5, <1>8, <2>1, <3>1
    <3> QED
      BY <3>1, <3>2
  <2>2. CASE i > n - 1
    <3>1. i - (n - 1) \in 1..(Len(s) - n) /\ n + (i - (n - 1)) \in 1..Len(s)
      BY <1>1, <2>2
    <3>2. t[i] = v[i - (n - 1)]
      BY <1>1, <1>8, <2>2
    <3>3. t[i] = s[n + (i - (n - 1))]
      BY <1>6, <3>1, <3>2
    <3> QED
      BY <1>1, <3>1, <3>3
  <2> QED
    BY <1>1, <2>1, <2>2
<1>10. DOMAIN t = 1..(Len(s) - 1)
  BY <1>1, <1>8, LenProperties
<1> QED
  BY <1>3, <1>4, <1>7, <1>8, <1>9, <1>10 DEF WithoutProbe

\* the fate of a probe that is not taken away: it may fall behind
LEMMA LeftBehindTyped ==
    ASSUME NEW s \in Seq(Probe), NEW r \in Routes, NEW n \in Int
    PROVE  LET t == LeftBehind(s, r, n)
           IN /\ t \in Seq(Probe) /\ Len(t) = Len(s) /\ DOMAIN t = DOMAIN s
              /\ \A i \in DOMAIN s : /\ t[i].route = s[i].route
                                     /\ t[i].same = s[i].same
                                     /\ t[i].truly = s[i].truly
<1>1. Len(s) \in Nat /\ DOMAIN s = 1..Len(s) /\ \A i \in 1..Len(s) : s[i] \in Probe
  BY LenProperties, ElementOfSeq
<1>2. PICK t : t = LeftBehind(s, r, n)
  OBVIOUS
<1>3. t = [i \in 1..Len(s) |-> IF s[i].route = r /\ i < n
                               THEN [s[i] EXCEPT !.behind = TRUE] ELSE s[i]]
  BY <1>1, <1>2 DEF LeftBehind
<1>4. ASSUME NEW i \in 1..Len(s)
      PROVE  /\ t[i] \in Probe /\ t[i].route = s[i].route
             /\ t[i].same = s[i].same /\ t[i].truly = s[i].truly
  <2>1. PICK x \in Probe : x = s[i]
    BY <1>1
  <2>2. PICK y : y = [x EXCEPT !.behind = TRUE]
    OBVIOUS
  <2>3. y \in Probe /\ y.route = x.route /\ y.same = x.same /\ y.truly = x.truly
    BY <2>2 DEF Probe
  <2>4. t[i] = x \/ t[i] = y
    BY <1>3, <2>1, <2>2
  <2> QED
    BY <2>1, <2>3, <2>4
<1>5. t \in [1..Len(s) -> Probe]
  BY <1>3, <1>4
<1>6. t \in Seq(Probe) /\ Len(t) = Len(s)
  BY <1>1, <1>5, IsASeq, LenProperties
<1> QED
  BY <1>1, <1>2, <1>3, <1>4, <1>6

\* what Overtaken does to each probe and login in flight
ProbesMoved(r, b, m) ==
    /\ probes' \in Seq(Probe) /\ Len(probes') = Len(probes)
    /\ DOMAIN probes' = DOMAIN probes
    /\ \A i \in DOMAIN probes :
         /\ probes'[i].route = probes[i].route
         /\ probes'[i].same <=> probes[i].same /\ (probes[i].route = r => ~b)
         /\ probes'[i].truly <=> probes[i].truly /\ (probes[i].route = r => ~m)
LoginsMoved(r, b, m) ==
    /\ login' \in [Accounts -> Login]
    /\ \A a \in Accounts :
         /\ login'[a].via = login[a].via
         /\ login'[a].same <=> login[a].same /\ (login[a].via = r => ~b)
         /\ login'[a].truly <=> login[a].truly /\ (login[a].via = r => ~m)

LEMMA OvertakenProbes ==
    ASSUME NEW r \in Routes, NEW b \in BOOLEAN, NEW m \in BOOLEAN,
           probes \in Seq(Probe), Overtaken(r, b, m)
    PROVE  ProbesMoved(r, b, m)
<1>1. /\ Len(probes) \in Nat /\ DOMAIN probes = 1..Len(probes)
      /\ \A i \in 1..Len(probes) : probes[i] \in Probe
  BY LenProperties, ElementOfSeq
<1>2. PICK t : t = probes'
  OBVIOUS
<1>3. t = [i \in 1..Len(probes) |->
             IF probes[i].route # r THEN probes[i]
             ELSE [probes[i] EXCEPT !.same = @ /\ ~b, !.truly = @ /\ ~m]]
  BY <1>1, <1>2 DEF Overtaken
<1>4. ASSUME NEW i \in 1..Len(probes)
      PROVE  /\ t[i] \in Probe /\ t[i].route = probes[i].route
             /\ t[i].same <=> probes[i].same /\ (probes[i].route = r => ~b)
             /\ t[i].truly <=> probes[i].truly /\ (probes[i].route = r => ~m)
  <2>1. PICK x \in Probe : x = probes[i]
    BY <1>1
  <2>2. PICK same \in BOOLEAN : same = (x.same /\ ~b)
    OBVIOUS
  <2>3. PICK truly \in BOOLEAN : truly = (x.truly /\ ~m)
    OBVIOUS
  <2>4. PICK y : y = [x EXCEPT !.same = same, !.truly = truly]
    OBVIOUS
  <2>5. y \in Probe /\ y.route = x.route /\ y.same = same /\ y.truly = truly
    BY <2>4 DEF Probe
  <2>6. t[i] = IF x.route # r THEN x ELSE y
    BY <1>3, <2>1, <2>2, <2>3, <2>4
  <2>7. x.same \in BOOLEAN /\ x.truly \in BOOLEAN
    BY DEF Probe
  <2> QED
    BY <2>1, <2>2, <2>3, <2>5, <2>6, <2>7
<1>5. t \in [1..Len(probes) -> Probe]
  BY <1>3, <1>4
<1>6. t \in Seq(Probe) /\ Len(t) = Len(probes) /\ DOMAIN t = 1..Len(probes)
  BY <1>1, <1>5, IsASeq, LenProperties
<1> QED
  BY <1>1, <1>2, <1>4, <1>6 DEF ProbesMoved

LEMMA OvertakenLogins ==
    ASSUME NEW r \in Routes, NEW b \in BOOLEAN, NEW m \in BOOLEAN,
           login \in [Accounts -> Login], Overtaken(r, b, m)
    PROVE  LoginsMoved(r, b, m)
<1>1. PICK t : t = login'
  OBVIOUS
<1>2. t = [a \in Accounts |->
             IF login[a].via # r THEN login[a]
             ELSE [login[a] EXCEPT !.same = @ /\ ~b, !.truly = @ /\ ~m]]
  BY <1>1 DEF Overtaken
<1>3. ASSUME NEW a \in Accounts
      PROVE  /\ t[a] \in Login /\ t[a].via = login[a].via
             /\ t[a].same <=> login[a].same /\ (login[a].via = r => ~b)
             /\ t[a].truly <=> login[a].truly /\ (login[a].via = r => ~m)
  <2>1. PICK x \in Login : x = login[a]
    OBVIOUS
  <2>2. PICK same \in BOOLEAN : same = (x.same /\ ~b)
    OBVIOUS
  <2>3. PICK truly \in BOOLEAN : truly = (x.truly /\ ~m)
    OBVIOUS
  <2>4. PICK y : y = [x EXCEPT !.same = same, !.truly = truly]
    OBVIOUS
  <2>5. y \in Login /\ y.via = x.via /\ y.same = same /\ y.truly = truly
    BY <2>4 DEF Login
  <2>6. t[a] = IF x.via # r THEN x ELSE y
    BY <1>2, <2>1, <2>2, <2>3, <2>4
  <2>7. x.same \in BOOLEAN /\ x.truly \in BOOLEAN
    BY DEF Login
  <2> QED
    BY <2>1, <2>2, <2>3, <2>5, <2>6, <2>7
<1>4. t \in [Accounts -> Login]
  BY <1>2, <1>3
<1> QED
  BY <1>1, <1>3, <1>4 DEF LoginsMoved

-----------------------------------------------------------------------------
(* The tables: what writing a row, a queue or a certificate does *)

LEMMA RouteWritten ==
    ASSUME NEW r \in Routes, NEW row \in Route, routes \in [Routes -> Route],
           routes' = [routes EXCEPT ![r] = row]
    PROVE  /\ routes' \in [Routes -> Route] /\ routes'[r] = row
           /\ \A q \in Routes \ {r} : routes'[q] = routes[q]
OBVIOUS

\* the accounts of S wait for a new check, their routes stay
Requeued(S) ==
    /\ account' \in [Accounts -> AccountRow]
    /\ \A a \in Accounts :
         /\ account'[a].route = account[a].route
         /\ account'[a].certified = account[a].certified
         /\ account'[a].active <=> account[a].active /\ a \notin S

LEMMA RequeueEffect ==
    ASSUME NEW S, account \in [Accounts -> AccountRow], Requeue(S)
    PROVE  Requeued(S)
<1>1. PICK t : t = account'
  OBVIOUS
<1>2. t = [a \in Accounts |-> IF a \in S THEN Queued(account[a]) ELSE account[a]]
  BY <1>1 DEF Requeue
<1>3. ASSUME NEW a \in Accounts
      PROVE  /\ t[a] \in AccountRow /\ t[a].route = account[a].route
             /\ t[a].certified = account[a].certified
             /\ t[a].active <=> account[a].active /\ a \notin S
  <2>1. PICK x \in AccountRow : x = account[a]
    OBVIOUS
  <2>2. PICK y : y = [x EXCEPT !.active = FALSE, !.job = "pending"]
    OBVIOUS
  <2>3. y \in AccountRow /\ y.route = x.route /\ y.certified = x.certified /\ ~y.active
    BY <2>2 DEF AccountRow
  <2>4. t[a] = IF a \in S THEN y ELSE x
    BY <1>2, <2>1, <2>2 DEF Queued
  <2> QED
    BY <2>1, <2>3, <2>4
<1>4. t \in [Accounts -> AccountRow]
  BY <1>2, <1>3
<1> QED
  BY <1>1, <1>3, <1>4 DEF Requeued

LEMMA DecertifiedEffect ==
    ASSUME NEW r \in Routes, account \in [Accounts -> AccountRow], Decertified(r)
    PROVE  /\ account' \in [Accounts -> AccountRow]
           /\ \A a \in Accounts :
                /\ account'[a].route = account[a].route
                /\ account'[a].active <=> account[a].active
                /\ account[a].certified # r =>
                     account'[a].certified = account[a].certified
<1>1. PICK t : t = account'
  OBVIOUS
<1>2. t = [a \in Accounts |-> IF account[a].certified = r
                              THEN [account[a] EXCEPT !.certified = Nobody]
                              ELSE account[a]]
  BY <1>1 DEF Decertified
<1>3. ASSUME NEW a \in Accounts
      PROVE  /\ t[a] \in AccountRow /\ t[a].route = account[a].route
             /\ t[a].active <=> account[a].active
             /\ account[a].certified # r => t[a].certified = account[a].certified
  <2>1. PICK x \in AccountRow : x = account[a]
    OBVIOUS
  <2>2. PICK y : y = [x EXCEPT !.certified = Nobody]
    OBVIOUS
  <2>3. y \in AccountRow /\ y.route = x.route /\ y.active = x.active
    BY <2>2 DEF AccountRow
  <2>4. t[a] = IF x.certified = r THEN y ELSE x
    BY <1>2, <2>1, <2>2
  <2> QED
    BY <2>1, <2>3, <2>4
<1>4. t \in [Accounts -> AccountRow]
  BY <1>2, <1>3
<1> QED
  BY <1>1, <1>3, <1>4

\* one account's row
LEMMA AccountWritten ==
    ASSUME NEW a \in Accounts, NEW row \in AccountRow,
           account \in [Accounts -> AccountRow],
           account' = [account EXCEPT ![a] = row]
    PROVE  /\ account' \in [Accounts -> AccountRow] /\ account'[a] = row
           /\ \A c \in Accounts \ {a} : account'[c] = account[c]
OBVIOUS

LEMMA LoginWritten ==
    ASSUME NEW a \in Accounts, NEW row \in Login, login \in [Accounts -> Login],
           login' = [login EXCEPT ![a] = row]
    PROVE  /\ login' \in [Accounts -> Login] /\ login'[a] = row
           /\ \A c \in Accounts \ {a} : login'[c] = login[c]
OBVIOUS

LEMMA NoLoginTyped ==
    /\ NoLogin \in Login /\ NoLogin.via = Nobody
    /\ NoLogin.same = TRUE /\ NoLogin.truly = TRUE
BY DEF NoLogin, Login

LEMMA NewRouteTyped ==
    /\ NewRoute \in Route /\ NewRoute.state = "on"
    /\ ~NewRoute.online /\ ~NewRoute.proven
BY DEF NewRoute, Route

-----------------------------------------------------------------------------
(* What every step of the routes keeps, with the relay's own state unchanged *)

IAccounts == ITables /\ ILogins /\ ActiveIsCertified

RouteStep ==
    /\ IAccounts' /\ tunnel' = tunnel
    /\ Exists(Home)' <=> Exists(Home)
    /\ InUse(Home)' => InUse(Home) \/ (Unlocked /\ Selectable(Home))
    /\ routes'[Home].online => routes[Home].online \/ tunnel
    /\ \A a \in Accounts :
         login'[a].via = Home /\ login'[a].same =>
           (login[a].via = Home /\ login[a].same) \/ Selectable(Home)
    /\ \A r \in Routes : Shown(r) /\ Sees(r) => Shown(r)' /\ Sees(r)'
    /\ routes[Home].state # "on" /\ Silent => Silent'

LEMMA CreateStep ==
    ASSUME IAccounts, NEW r \in Routes, CreateRoute(r)
    PROVE  RouteStep
<1>1. /\ r # Home /\ ~Exists(r) /\ routes' = [routes EXCEPT ![r] = NewRoute]
      /\ UNCHANGED <<default, account, login, probes, tunnel>>
  BY DEF CreateRoute
<1>2. /\ routes' \in [Routes -> Route] /\ routes'[r] = NewRoute
      /\ \A q \in Routes \ {r} : routes'[q] = routes[q]
  BY <1>1, NewRouteTyped, RouteWritten DEF IAccounts, ITables
<1>3. IAccounts'
  <2>1. \A q \in Routes : InUse(q)' => Exists(q)'
    BY <1>1, <1>2, NewRouteTyped DEF IAccounts, ITables, InUse, Exists
  <2>2. ITables'
    BY <1>1, <1>2, <2>1 DEF IAccounts, ITables
  <2> QED
    BY <1>1, <2>2 DEF IAccounts, ILogins, ActiveIsCertified, Effective
<1>4. \A q \in Routes : Shown(q) /\ Sees(q) => Shown(q)' /\ Sees(q)'
  BY <1>1, <1>2, NewRouteTyped DEF Shown, Sees
<1> QED
  BY <1>1, <1>2, <1>3, <1>4, RoutesAssumption
     DEF RouteStep, Exists, InUse, Silent

LEMMA DefaultStep ==
    ASSUME IAccounts, NEW r \in Routes \cup {Direct}, NEW free \in BOOLEAN,
           r = Home /\ free => Unlocked,
           SetDefault(r, free)
    PROVE  RouteStep
<1>1. /\ UNCHANGED <<routes, login, probes, tunnel>> /\ default' = r
      /\ r # Direct => free /\ Selectable(r)
      /\ Requeue(Inheriting)
  BY DEF SetDefault
<1>2. Requeued(Inheriting)
  BY <1>1, RequeueEffect DEF IAccounts, ITables
<1>3. IAccounts'
  <2>1. \A q \in Routes : InUse(q)' => InUse(q) \/ (q = r /\ Selectable(r))
    BY <1>1, <1>2, RoutesAssumption DEF InUse, Requeued
  <2>2. \A q \in Routes : InUse(q)' => Exists(q)'
    BY <1>1, <2>1 DEF IAccounts, ITables, Exists, Selectable
  <2>3. ITables'
    BY <1>1, <1>2, <2>2 DEF IAccounts, ITables, Requeued
  <2>4. ActiveIsCertified'
    BY <1>1, <1>2
       DEF IAccounts, ActiveIsCertified, Effective, Requeued, Inheriting
  <2> QED
    BY <1>1, <2>3, <2>4 DEF IAccounts, ILogins
<1>4. InUse(Home)' => InUse(Home) \/ (Unlocked /\ Selectable(Home))
  BY <1>1, <1>2, RoutesAssumption DEF InUse, Requeued
<1> QED
  BY <1>1, <1>3, <1>4 DEF RouteStep, Exists, Shown, Sees, Silent

LEMMA AssignStep ==
    ASSUME IAccounts, NEW a \in Accounts, NEW r \in Routes \cup {Inherit},
           NEW free \in BOOLEAN, r = Home /\ free => Unlocked,
           Assign(a, r, free)
    PROVE  RouteStep
<1>1. /\ UNCHANGED <<routes, default, login, probes, tunnel>>
      /\ r # Inherit => free /\ Selectable(r)
      /\ account' = [account EXCEPT ![a] = Queued([account[a] EXCEPT !.route = r])]
  BY DEF Assign, IAccounts, ITables
<1>2. PICK x \in AccountRow : x = account[a]
  BY DEF IAccounts, ITables
<1>3. PICK y : y = [x EXCEPT !.route = r]
  OBVIOUS
<1>4. y \in AccountRow /\ y.route = r
  BY <1>3 DEF AccountRow
<1>5. PICK row : row = [y EXCEPT !.active = FALSE, !.job = "pending"]
  OBVIOUS
<1>6. row \in AccountRow /\ row.route = r /\ ~row.active
  BY <1>4, <1>5 DEF AccountRow
<1>7. account' = [account EXCEPT ![a] = row]
  BY <1>1, <1>2, <1>3, <1>5 DEF Queued
<1>8. /\ account' \in [Accounts -> AccountRow] /\ account'[a] = row
      /\ \A c \in Accounts \ {a} : account'[c] = account[c]
  BY <1>6, <1>7, AccountWritten DEF IAccounts, ITables
<1>9. \A q \in Routes : InUse(q)' => InUse(q) \/ (q = r /\ Selectable(r))
  BY <1>1, <1>6, <1>8, RoutesAssumption DEF InUse
<1>10. IAccounts'
  <2>1. \A q \in Routes : InUse(q)' => Exists(q)'
    BY <1>1, <1>9 DEF IAccounts, ITables, Exists, Selectable
  <2>2. ITables'
    BY <1>1, <1>8, <2>1 DEF IAccounts, ITables
  <2>3. ActiveIsCertified'
    BY <1>1, <1>6, <1>8 DEF IAccounts, ActiveIsCertified, Effective
  <2> QED
    BY <1>1, <2>2, <2>3 DEF IAccounts, ILogins
<1>11. InUse(Home)' => InUse(Home) \/ (Unlocked /\ Selectable(Home))
  BY <1>1, <1>6, <1>8, RoutesAssumption DEF InUse
<1> QED
  BY <1>1, <1>10, <1>11 DEF RouteStep, Exists, Shown, Sees, Silent

\* A row written with a new revision, offline: what is in flight through r counts
\* for nothing, and no other route notices.
Rewritten(r, row) ==
    /\ routes' \in [Routes -> Route] /\ routes'[r] = row
    /\ \A q \in Routes \ {r} : routes'[q] = routes[q]
    /\ login' \in [Accounts -> Login]
    /\ \A a \in Accounts :
         /\ login'[a].via = login[a].via
         /\ login'[a].same <=> login[a].same /\ login[a].via # r
    /\ probes' \in Seq(Probe) /\ Len(probes') = Len(probes)
    /\ ILogins => ILogins'
    /\ Shown(r)' /\ Sees(r)'
    /\ \A q \in Routes : Shown(q) /\ Sees(q) => Shown(q)' /\ Sees(q)'
    /\ r = Home \/ Silent => Silent'

LEMMA RewrittenEffect ==
    ASSUME ITables, NEW r \in Routes, NEW row \in Route, ~row.online,
           NEW m \in BOOLEAN,
           routes' = [routes EXCEPT ![r] = row],
           Overtaken(r, TRUE, m)
    PROVE  Rewritten(r, row)
<1>1. /\ routes' \in [Routes -> Route] /\ routes'[r] = row
      /\ \A q \in Routes \ {r} : routes'[q] = routes[q]
  BY RouteWritten DEF ITables
<1>2. PICK b \in BOOLEAN : b = TRUE
  OBVIOUS
<1>3. ProbesMoved(r, b, m) /\ LoginsMoved(r, b, m)
  BY <1>2, OvertakenProbes, OvertakenLogins DEF ITables
<1>4. /\ login' \in [Accounts -> Login]
      /\ \A a \in Accounts :
           /\ login'[a].via = login[a].via
           /\ login'[a].same <=> login[a].same /\ login[a].via # r
           /\ login'[a].truly <=> login[a].truly /\ (login[a].via = r => ~m)
  BY <1>2, <1>3 DEF LoginsMoved
<1>5. /\ probes' \in Seq(Probe) /\ Len(probes') = Len(probes)
      /\ DOMAIN probes' = DOMAIN probes
      /\ \A i \in DOMAIN probes :
           /\ probes'[i].route = probes[i].route
           /\ probes'[i].same <=> probes[i].same /\ probes[i].route # r
           /\ probes'[i].truly <=> probes[i].truly /\ (probes[i].route = r => ~m)
  BY <1>2, <1>3 DEF ProbesMoved
<1>6. ILogins => ILogins'
  BY <1>4 DEF ILogins
<1>7. Shown(r)' /\ Sees(r)'
  BY <1>1, <1>5 DEF Shown, Sees
<1>8. \A q \in Routes : Shown(q) /\ Sees(q) => Shown(q)' /\ Sees(q)'
  <2> SUFFICES ASSUME NEW q \in Routes, q # r, Shown(q), Sees(q)
               PROVE  Shown(q)' /\ Sees(q)'
    BY <1>7
  <2>1. Shown(q)'
    BY <1>1 DEF Shown
  <2>2. Sees(q)'
    BY <1>5 DEF Sees
  <2> QED
    BY <2>1, <2>2
<1>9. r = Home \/ Silent => Silent'
  BY <1>1, <1>5, RoutesAssumption DEF Silent
<1> QED
  BY <1>1, <1>4, <1>5, <1>6, <1>7, <1>8, <1>9 DEF Rewritten

\* another transport, or none, for a route that nobody uses
LEMMA MovedStep ==
    ASSUME IAccounts, NEW r \in Routes \ {Home}, NEW row \in Route,
           ~InUse(r), ~row.online,
           routes' = [routes EXCEPT ![r] = row],
           Overtaken(r, TRUE, TRUE), Decertified(r), UNCHANGED <<default, tunnel>>
    PROVE  RouteStep
<1>1. PICK m \in BOOLEAN : m = TRUE
  OBVIOUS
<1>2. Rewritten(r, row)
  BY <1>1, RewrittenEffect DEF IAccounts
<1>3. /\ account' \in [Accounts -> AccountRow]
      /\ \A a \in Accounts :
           /\ account'[a].route = account[a].route
           /\ account'[a].active <=> account[a].active
           /\ account[a].certified # r => account'[a].certified = account[a].certified
  BY DecertifiedEffect DEF IAccounts, ITables
<1>4. \A q \in Routes : InUse(q)' <=> InUse(q)
  BY <1>3 DEF InUse
<1>5. IAccounts'
  <2>1. \A q \in Routes : InUse(q)' => Exists(q)'
    BY <1>2, <1>4 DEF IAccounts, ITables, Exists, Rewritten
  <2>2. ITables'
    BY <1>2, <1>3, <2>1 DEF IAccounts, ITables, Rewritten
  <2>3. ActiveIsCertified'
    BY <1>3 DEF IAccounts, ActiveIsCertified, Effective, InUse
  <2> QED
    BY <1>2, <2>2, <2>3 DEF IAccounts, Rewritten
<1>6. Exists(Home)' <=> Exists(Home)
  BY <1>2, RoutesAssumption DEF Exists, Rewritten
<1>7. routes'[Home] = routes[Home]
  BY <1>2, RoutesAssumption DEF Rewritten
<1> QED
  BY <1>2, <1>4, <1>5, <1>6, <1>7, RoutesAssumption DEF RouteStep, Rewritten

LEMMA EditStep ==
    ASSUME IAccounts, NEW r \in Routes, EditTransport(r)
    PROVE  RouteStep
<1>1. PICK row : row = [NewRoute EXCEPT !.state = routes[r].state]
  OBVIOUS
<1>2. row \in Route /\ ~row.online
  BY <1>1 DEF NewRoute, Route, IAccounts, ITables
<1> QED
  BY <1>1, <1>2, MovedStep DEF EditTransport

LEMMA DeleteCustomStep ==
    ASSUME IAccounts, NEW r \in Routes, DeleteCustom(r)
    PROVE  RouteStep
<1>1. PICK row : row = [NewRoute EXCEPT !.state = "absent"]
  OBVIOUS
<1>2. row \in Route /\ ~row.online
  BY <1>1 DEF NewRoute, Route
<1> QED
  BY <1>1, <1>2, MovedStep DEF DeleteCustom

LEMMA ToggleStep ==
    ASSUME IAccounts, NEW r \in Routes, NEW free \in BOOLEAN, Toggle(r, free)
    PROVE  RouteStep
<1>1. PICK row : row = [NewRoute EXCEPT
                          !.state = IF routes[r].state = "on" THEN "off" ELSE "on"]
  OBVIOUS
<1>2. row \in Route /\ ~row.online /\ row.state # "absent"
  BY <1>1 DEF NewRoute, Route
<1>3. /\ Exists(r) /\ routes' = [routes EXCEPT ![r] = row]
      /\ Requeue(Users(r)) /\ Overtaken(r, TRUE, FALSE)
      /\ UNCHANGED <<default, tunnel>>
  BY <1>1 DEF Toggle
<1>4. PICK m \in BOOLEAN : m = FALSE
  OBVIOUS
<1>5. Rewritten(r, row)
  BY <1>2, <1>3, <1>4, RewrittenEffect DEF IAccounts
<1>6. Requeued(Users(r))
  BY <1>3, RequeueEffect DEF IAccounts, ITables
<1>7. \A q \in Routes : InUse(q)' <=> InUse(q)
  BY <1>3, <1>6 DEF InUse, Requeued
<1>8. \A q \in Routes : Exists(q)' <=> Exists(q)
  BY <1>2, <1>3, <1>5 DEF Exists, Rewritten
<1>9. IAccounts'
  <2>1. ITables'
    BY <1>3, <1>5, <1>6, <1>7, <1>8 DEF IAccounts, ITables, Rewritten, Requeued
  <2>2. ActiveIsCertified'
    BY <1>3, <1>6 DEF IAccounts, ActiveIsCertified, Effective, Requeued
  <2> QED
    BY <1>5, <2>1, <2>2 DEF IAccounts, Rewritten
<1>10. routes'[Home].online => routes[Home].online
  BY <1>2, <1>5, RoutesAssumption DEF Rewritten
<1> QED
  BY <1>3, <1>5, <1>7, <1>8, <1>9, <1>10, RoutesAssumption DEF RouteStep, Rewritten

\* a new verdict on a route that exists: its state stays
LEMMA VerdictEffect ==
    ASSUME ITables, NEW r \in Routes, NEW online \in BOOLEAN, NEW proven \in BOOLEAN,
           routes' = [routes EXCEPT ![r] = [@ EXCEPT !.online = online,
                                                     !.proven = proven]]
    PROVE  /\ routes' \in [Routes -> Route]
           /\ \A q \in Routes : routes'[q].state = routes[q].state
           /\ \A q \in Routes \ {r} : routes'[q] = routes[q]
           /\ routes'[r].online = online /\ routes'[r].proven = proven
<1>1. PICK x \in Route : x = routes[r]
  BY DEF ITables
<1>2. PICK row : row = [x EXCEPT !.online = online, !.proven = proven]
  OBVIOUS
<1>3. /\ row \in Route /\ row.state = x.state
      /\ row.online = online /\ row.proven = proven
  BY <1>2 DEF Route
<1>4. routes' = [routes EXCEPT ![r] = row]
  BY <1>1, <1>2 DEF ITables
<1>5. /\ routes' \in [Routes -> Route] /\ routes'[r] = row
      /\ \A q \in Routes \ {r} : routes'[q] = routes[q]
  BY <1>3, <1>4, RouteWritten DEF ITables
<1> QED
  BY <1>1, <1>3, <1>5

LEMMA FreshnessStep ==
    ASSUME IAccounts, NEW r \in Routes, FreshnessEnds(r)
    PROVE  RouteStep
<1>1. PICK no \in BOOLEAN : no = FALSE
  OBVIOUS
<1>2. /\ routes' = [routes EXCEPT ![r] = [@ EXCEPT !.online = no, !.proven = no]]
      /\ UNCHANGED <<default, account, login, probes, tunnel>>
  BY <1>1 DEF FreshnessEnds
<1>3. /\ routes' \in [Routes -> Route]
      /\ \A q \in Routes : routes'[q].state = routes[q].state
      /\ \A q \in Routes \ {r} : routes'[q] = routes[q]
      /\ routes'[r].online = no
  BY <1>2, VerdictEffect DEF IAccounts
<1>4. IAccounts'
  BY <1>2, <1>3
     DEF IAccounts, ITables, ILogins, ActiveIsCertified, Effective, InUse, Exists
<1>5. \A q \in Routes : Shown(q) /\ Sees(q) => Shown(q)' /\ Sees(q)'
  BY <1>1, <1>2, <1>3 DEF Shown, Sees
<1>6. routes'[Home].online => routes[Home].online
  BY <1>1, <1>3, RoutesAssumption
<1> QED
  BY <1>2, <1>3, <1>4, <1>5, <1>6, RoutesAssumption
     DEF RouteStep, Exists, InUse, Silent

LEMMA ProbeBeginStep ==
    ASSUME IAccounts, NEW r \in Routes, ProbeBegin(r)
    PROVE  RouteStep
<1>1. PICK p : p = [route |-> r, same |-> TRUE, behind |-> FALSE, truly |-> TRUE]
  OBVIOUS
<1>2. p \in Probe /\ p.route = r /\ p.same /\ p.truly
  BY <1>1 DEF Probe
<1>3. /\ routes[r].state = "on" /\ Len(probes) < MaxProbes
      /\ probes' = Append(probes, p)
      /\ UNCHANGED <<routes, default, account, login, tunnel>>
  BY <1>1 DEF ProbeBegin
<1>4. Len(probes) \in Nat /\ DOMAIN probes = 1..Len(probes) /\ MaxProbes \in Nat
  BY LenProperties, RoutesAssumption DEF IAccounts, ITables
<1>5. /\ probes' \in Seq(Probe) /\ Len(probes') = Len(probes) + 1
      /\ \A i \in 1..Len(probes) : probes'[i] = probes[i]
      /\ probes'[Len(probes) + 1] = p
  BY <1>2, <1>3, AppendProperties DEF IAccounts, ITables
<1>6. DOMAIN probes' = 1..(Len(probes) + 1)
  BY <1>5, LenProperties
<1>7. \A i \in DOMAIN probes' : (i \in DOMAIN probes /\ probes'[i] = probes[i])
                                \/ probes'[i] = p
  BY <1>4, <1>5, <1>6
<1>8. IAccounts'
  <2>1. Len(probes') <= MaxProbes
    BY <1>3, <1>4, <1>5
  <2> QED
    BY <1>3, <1>5, <2>1
       DEF IAccounts, ITables, ILogins, ActiveIsCertified, Effective, InUse, Exists
<1>9. \A q \in Routes : Shown(q) /\ Sees(q) => Shown(q)' /\ Sees(q)'
  BY <1>2, <1>3, <1>7 DEF Shown, Sees
<1>10. routes[Home].state # "on" /\ Silent => Silent'
  BY <1>2, <1>3, <1>7 DEF Silent
<1> QED
  BY <1>3, <1>8, <1>9, <1>10 DEF RouteStep, Exists, InUse

LEMMA ProbeEndStep ==
    ASSUME IAccounts, NEW n, NEW ok \in BOOLEAN, NEW free \in BOOLEAN,
           ProbeEnd(n, ok, free)
    PROVE  RouteStep
<1>1. /\ n \in DOMAIN probes /\ (ok => Reaches(probes[n].route))
      /\ UNCHANGED <<default, account, login, tunnel>>
  BY DEF ProbeEnd
<1>2. PICK p \in Probe : p = probes[n]
  BY <1>1, LenProperties, ElementOfSeq DEF IAccounts, ITables
<1>3. /\ p.route \in Routes /\ p.truly \in BOOLEAN /\ p.behind \in BOOLEAN
      /\ p.same \in BOOLEAN
  BY DEF Probe
<1>4. Len(probes) \in Nat /\ DOMAIN probes = 1..Len(probes) /\ MaxProbes \in Nat
  BY LenProperties, RoutesAssumption DEF IAccounts, ITables
<1>5. PICK proven \in BOOLEAN : proven = (ok /\ p.truly /\ ~p.behind)
  OBVIOUS
<1>6. PICK t : t = IF Publishable(p) THEN LeftBehind(probes, p.route, n) ELSE probes
  OBVIOUS
<1>7. /\ t \in Seq(Probe) /\ Len(t) = Len(probes) /\ DOMAIN t = DOMAIN probes
      /\ \A i \in DOMAIN probes : /\ t[i].route = probes[i].route
                                  /\ t[i].same = probes[i].same
                                  /\ t[i].truly = probes[i].truly
  BY <1>1, <1>3, <1>4, <1>6, LeftBehindTyped DEF IAccounts, ITables
<1>8. probes' = WithoutProbe(t, n)
  BY <1>2, <1>6 DEF ProbeEnd
<1>9. /\ probes' \in Seq(Probe) /\ Len(probes') = Len(t) - 1
      /\ \A i \in DOMAIN probes' : \E j \in DOMAIN t : probes'[i] = t[j]
  <2>1. PICK u : u = WithoutProbe(t, n)
    OBVIOUS
  <2>2. n \in DOMAIN t
    BY <1>1, <1>7
  <2>3. /\ u \in Seq(Probe) /\ Len(u) = Len(t) - 1
        /\ \A i \in DOMAIN u : \E j \in DOMAIN t : u[i] = t[j]
    BY <1>7, <2>1, <2>2, WithoutProbeTyped
  <2> QED
    BY <1>8, <2>1, <2>3
<1>10. \A i \in DOMAIN probes' : \E j \in DOMAIN probes :
         /\ probes'[i].route = probes[j].route
         /\ probes'[i].same = probes[j].same /\ probes'[i].truly = probes[j].truly
  BY <1>7, <1>9
<1>11. /\ routes' \in [Routes -> Route]
       /\ \A q \in Routes : routes'[q].state = routes[q].state
       /\ \A q \in Routes \ {p.route} : routes'[q] = routes[q]
       /\ \/ routes' = routes
          \/ /\ routes[p.route].state = "on" /\ p.same /\ ~p.behind
             /\ routes'[p.route].online = ok /\ routes'[p.route].proven = proven
  <2>1. CASE Publishable(p)
    <3>1. routes' = [routes EXCEPT ![p.route] =
                       [@ EXCEPT !.online = ok, !.proven = proven]]
      BY <1>2, <1>5, <2>1 DEF ProbeEnd
    <3> QED
      BY <1>3, <2>1, <3>1, VerdictEffect DEF IAccounts, Publishable
  <2>2. CASE ~Publishable(p)
    BY <1>2, <2>2 DEF ProbeEnd, IAccounts, ITables
  <2> QED
    BY <2>1, <2>2
<1>12. IAccounts'
  <2>1. Len(probes') <= MaxProbes
    BY <1>4, <1>7, <1>9 DEF IAccounts, ITables
  <2> QED
    BY <1>1, <1>9, <1>11, <2>1
       DEF IAccounts, ITables, ILogins, ActiveIsCertified, Effective, InUse, Exists
<1>13. \A q \in Routes : Shown(q) /\ Sees(q) => Shown(q)' /\ Sees(q)'
  <2> SUFFICES ASSUME NEW q \in Routes, Shown(q), Sees(q)
               PROVE  Shown(q)' /\ Sees(q)'
    OBVIOUS
  <2>1. Sees(q)'
    BY <1>10 DEF Sees
  <2>2. q = p.route /\ p.same => p.truly
    BY <1>1, <1>2 DEF Sees
  <2>3. Shown(q)'
    BY <1>5, <1>11, <2>2 DEF Shown
  <2> QED
    BY <2>1, <2>3
<1>14. routes[Home].state # "on" /\ Silent => Silent'
  <2> SUFFICES ASSUME routes[Home].state # "on", Silent PROVE Silent'
    OBVIOUS
  <2>1. routes'[Home] = routes[Home]
    BY <1>11, RoutesAssumption
  <2> QED
    BY <1>10, <2>1 DEF Silent
<1>15. routes'[Home].online => routes[Home].online \/ tunnel
  BY <1>1, <1>2, <1>11, RoutesAssumption DEF Reaches
<1> QED
  BY <1>1, <1>11, <1>12, <1>13, <1>14, <1>15, RoutesAssumption
     DEF RouteStep, Exists, InUse

\* one account's row: its route stays, and if it is for sale it is certified
RowKept(a, row) ==
    /\ row \in AccountRow /\ row.route = account[a].route
    /\ row.active => row.certified = Effective(a)
    /\ account' = [account EXCEPT ![a] = row]

LEMMA RowKeptEffect ==
    ASSUME IAccounts, NEW a \in Accounts, NEW row, RowKept(a, row), default' = default
    PROVE  /\ account' \in [Accounts -> AccountRow] /\ ActiveIsCertified'
           /\ \A q \in Routes : InUse(q)' <=> InUse(q)
<1>1. /\ account' \in [Accounts -> AccountRow] /\ account'[a] = row
      /\ \A c \in Accounts \ {a} : account'[c] = account[c]
  BY AccountWritten DEF RowKept, IAccounts, ITables
<1>2. \A c \in Accounts : account'[c].route = account[c].route
  BY <1>1 DEF RowKept
<1>3. \A q \in Routes : InUse(q)' <=> InUse(q)
  BY <1>2 DEF InUse
<1>4. ActiveIsCertified'
  BY <1>1, <1>2 DEF IAccounts, ActiveIsCertified, Effective, RowKept
<1> QED
  BY <1>1, <1>3, <1>4

\* the routes and probes stay, logins only end or begin over a selectable route
LEMMA LoginStep ==
    ASSUME IAccounts, UNCHANGED <<routes, default, probes, tunnel>>,
           account' \in [Accounts -> AccountRow], ActiveIsCertified',
           \A q \in Routes : InUse(q)' <=> InUse(q),
           login' \in [Accounts -> Login], ILogins',
           \A a \in Accounts : login'[a].via = Home =>
             login'[a] = login[a] \/ Selectable(Home)
    PROVE  RouteStep
<1>1. IAccounts'
  BY DEF IAccounts, ITables, Exists
<1> QED
  BY <1>1, RoutesAssumption DEF RouteStep, Exists, Shown, Sees, Silent

LEMMA ScheduleStep ==
    ASSUME IAccounts, NEW a \in Accounts,
           ScheduleCheck(a) \/ LoginRefused(a)
    PROVE  RouteStep
<1>1. UNCHANGED <<routes, default, login, probes, tunnel>>
  BY DEF ScheduleCheck, LoginRefused
<1>2. PICK x \in AccountRow : x = account[a]
  BY DEF IAccounts, ITables
<1>3. PICK y : y = [x EXCEPT !.job = "pending"]
  OBVIOUS
<1>4. PICK z : z = [x EXCEPT !.active = FALSE, !.job = "none"]
  OBVIOUS
<1>5. /\ y \in AccountRow /\ y.route = x.route
      /\ y.active = x.active /\ y.certified = x.certified
  BY <1>3 DEF AccountRow
<1>6. z \in AccountRow /\ z.route = x.route /\ ~z.active
  BY <1>4 DEF AccountRow
<1>7. CASE ScheduleCheck(a)
  <2>1. account' = [account EXCEPT ![a] = y]
    BY <1>2, <1>3, <1>7 DEF ScheduleCheck, IAccounts, ITables
  <2>2. RowKept(a, y)
    BY <1>2, <1>5, <2>1 DEF RowKept, IAccounts, ActiveIsCertified
  <2>3. /\ account' \in [Accounts -> AccountRow] /\ ActiveIsCertified'
        /\ \A q \in Routes : InUse(q)' <=> InUse(q)
    BY <1>1, <2>2, RowKeptEffect
  <2>4. login' \in [Accounts -> Login] /\ ILogins'
    BY <1>1 DEF IAccounts, ITables, ILogins
  <2> QED
    BY <1>1, <2>3, <2>4, LoginStep
<1>8. CASE LoginRefused(a)
  <2>1. account' = [account EXCEPT ![a] = z]
    BY <1>2, <1>4, <1>8 DEF LoginRefused, IAccounts, ITables
  <2>2. RowKept(a, z)
    BY <1>2, <1>6, <2>1 DEF RowKept
  <2>3. /\ account' \in [Accounts -> AccountRow] /\ ActiveIsCertified'
        /\ \A q \in Routes : InUse(q)' <=> InUse(q)
    BY <1>1, <2>2, RowKeptEffect
  <2>4. login' \in [Accounts -> Login] /\ ILogins'
    BY <1>1 DEF IAccounts, ITables, ILogins
  <2> QED
    BY <1>1, <2>3, <2>4, LoginStep
<1> QED
  BY <1>7, <1>8

LEMMA LoginBeginStep ==
    ASSUME IAccounts, NEW a \in Accounts, NEW job \in BOOLEAN, LoginBegin(a, job)
    PROVE  RouteStep
<1>1. UNCHANGED <<routes, default, probes, tunnel>> /\ Usable(a)
  BY DEF LoginBegin
<1>2. PICK v : v = Effective(a)
  OBVIOUS
<1>3. v \in Routes \cup {Direct} /\ (v = Home => Selectable(Home))
  BY <1>1, <1>2, RoutesAssumption DEF Usable
<1>4. PICK l : l = [via |-> v, same |-> TRUE, truly |-> TRUE, job |-> job]
  OBVIOUS
<1>5. l \in Login /\ l.via = v /\ l.truly
  BY <1>3, <1>4 DEF Login
<1>6. login' = [login EXCEPT ![a] = l]
  BY <1>2, <1>4 DEF LoginBegin
<1>7. /\ login' \in [Accounts -> Login] /\ login'[a] = l
      /\ \A c \in Accounts \ {a} : login'[c] = login[c]
  BY <1>5, <1>6, LoginWritten DEF IAccounts, ITables
<1>8. ILogins'
  BY <1>5, <1>7 DEF IAccounts, ILogins
<1>9. \A c \in Accounts : login'[c].via = Home => login'[c] = login[c] \/ Selectable(Home)
  BY <1>3, <1>5, <1>7
<1>10. /\ account' \in [Accounts -> AccountRow] /\ ActiveIsCertified'
       /\ \A q \in Routes : InUse(q)' <=> InUse(q)
  <2>1. PICK x \in AccountRow : x = account[a]
    BY DEF IAccounts, ITables
  <2>2. PICK y : y = IF job THEN [x EXCEPT !.job = "running"] ELSE x
    OBVIOUS
  <2>3. /\ y \in AccountRow /\ y.route = x.route
        /\ y.active = x.active /\ y.certified = x.certified
    BY <2>2 DEF AccountRow
  <2>4. account' = [account EXCEPT ![a] = y]
    BY <2>1, <2>2 DEF LoginBegin, IAccounts, ITables
  <2>5. RowKept(a, y)
    BY <2>1, <2>3, <2>4 DEF RowKept, IAccounts, ActiveIsCertified
  <2> QED
    BY <1>1, <2>5, RowKeptEffect
<1> QED
  BY <1>1, <1>7, <1>8, <1>9, <1>10, LoginStep

\* a login ends: its row
LEMMA EndedTyped ==
    ASSUME ITables, NEW a \in Accounts, NEW active \in BOOLEAN,
           NEW job \in {"none", "pending"}
    PROVE  /\ Ended(a, active, job) \in AccountRow
           /\ Ended(a, active, job).route = account[a].route
           /\ Ended(a, active, job).active = active
           /\ Ended(a, active, job).certified = account[a].certified
<1>1. PICK x \in AccountRow : x = account[a]
  BY DEF ITables
<1>2. PICK j \in {"none", "pending", "running"} :
        j = IF login[a].job \/ job # "none" THEN job ELSE x.job
  BY DEF AccountRow
<1>3. PICK y : y = [x EXCEPT !.active = active, !.job = j]
  OBVIOUS
<1>4. /\ y \in AccountRow /\ y.route = x.route /\ y.active = active
      /\ y.certified = x.certified
  BY <1>3 DEF AccountRow
<1>5. Ended(a, active, job) = y
  BY <1>1, <1>2, <1>3 DEF Ended
<1> QED
  BY <1>1, <1>4, <1>5

LEMMA LoginEnds ==
    ASSUME IAccounts, NEW a \in Accounts, login' = [login EXCEPT ![a] = NoLogin]
    PROVE  /\ login' \in [Accounts -> Login] /\ ILogins' /\ login'[a].via # Home
           /\ \A c \in Accounts \ {a} : login'[c] = login[c]
<1>1. PICK l \in Login : l = NoLogin
  BY NoLoginTyped
<1>2. /\ login' \in [Accounts -> Login] /\ login'[a] = l
      /\ \A c \in Accounts \ {a} : login'[c] = login[c]
  BY <1>1, LoginWritten DEF IAccounts, ITables
<1>3. ILogins'
  BY <1>1, <1>2, NoLoginTyped DEF IAccounts, ILogins
<1> QED
  BY <1>1, <1>2, <1>3, NoLoginTyped, RoutesAssumption

LEMMA LoginPassesStep ==
    ASSUME IAccounts, NEW a \in Accounts, LoginPasses(a)
    PROVE  RouteStep
<1>1. /\ UNCHANGED <<routes, default, probes, tunnel>>
      /\ login[a].via # Nobody /\ login' = [login EXCEPT ![a] = NoLogin]
  BY DEF LoginPasses
<1>2. PICK e \in AccountRow : e = Ended(a, TRUE, "none")
  BY EndedTyped DEF IAccounts
<1>3. PICK c : c = IF login[a].truly THEN login[a].via ELSE Nobody
  OBVIOUS
<1>4. c \in Routes \cup {Direct, Nobody}
  BY <1>3 DEF IAccounts, ITables, Login
<1>5. PICK y : y = [e EXCEPT !.certified = c]
  OBVIOUS
<1>6. y \in AccountRow /\ y.route = e.route /\ y.certified = c
  BY <1>4, <1>5 DEF AccountRow
<1>7. e.route = account[a].route
  BY <1>2, EndedTyped DEF IAccounts
<1>8. PICK row : row = IF SelectionUnchanged(a) THEN y
                       ELSE IF login[a].job THEN Ended(a, FALSE, "pending")
                       ELSE Ended(a, FALSE, "none")
  OBVIOUS
<1>9. RowKept(a, row)
  <2>1. account' = [account EXCEPT ![a] = row]
    BY <1>2, <1>3, <1>5, <1>8 DEF LoginPasses
  <2>2. CASE SelectionUnchanged(a)
    <3>1. login[a].via = Effective(a) /\ login[a].truly
      BY <2>2 DEF SelectionUnchanged, IAccounts, ILogins
    <3> QED
      BY <1>3, <1>6, <1>7, <1>8, <2>1, <2>2, <3>1 DEF RowKept
  <2>3. CASE ~SelectionUnchanged(a)
    <3>1. \A j \in {"none", "pending"} :
            /\ Ended(a, FALSE, j) \in AccountRow
            /\ Ended(a, FALSE, j).route = account[a].route
            /\ Ended(a, FALSE, j).active = FALSE
      BY EndedTyped DEF IAccounts
    <3> QED
      BY <1>8, <2>1, <2>3, <3>1 DEF RowKept
  <2> QED
    BY <2>2, <2>3
<1>10. /\ account' \in [Accounts -> AccountRow] /\ ActiveIsCertified'
       /\ \A q \in Routes : InUse(q)' <=> InUse(q)
  BY <1>1, <1>9, RowKeptEffect
<1>11. /\ login' \in [Accounts -> Login] /\ ILogins' /\ login'[a].via # Home
       /\ \A d \in Accounts \ {a} : login'[d] = login[d]
  BY <1>1, LoginEnds
<1> QED
  BY <1>1, <1>10, <1>11, LoginStep

LEMMA LoginFailsStep ==
    ASSUME IAccounts, NEW a \in Accounts, NEW fault \in BOOLEAN, NEW keeps \in BOOLEAN,
           NEW free \in BOOLEAN, LoginFails(a, fault, keeps, free)
    PROVE  RouteStep
<1>1. /\ UNCHANGED <<default, tunnel>> /\ login' = [login EXCEPT ![a] = NoLogin]
      /\ keeps => account[a].active
      /\ account' = [account EXCEPT ![a] = Ended(a, keeps, "none")]
  BY DEF LoginFails
<1>2. PICK row : row = Ended(a, keeps, "none")
  OBVIOUS
<1>3. /\ row \in AccountRow /\ row.route = account[a].route
      /\ row.active = keeps /\ row.certified = account[a].certified
  BY <1>2, EndedTyped DEF IAccounts
<1>4. RowKept(a, row)
  BY <1>1, <1>2, <1>3 DEF RowKept, IAccounts, ActiveIsCertified
<1>5. /\ account' \in [Accounts -> AccountRow] /\ ActiveIsCertified'
      /\ \A q \in Routes : InUse(q)' <=> InUse(q)
  BY <1>1, <1>4, RowKeptEffect
<1>6. /\ login' \in [Accounts -> Login] /\ ILogins' /\ login'[a].via # Home
      /\ \A d \in Accounts \ {a} : login'[d] = login[d]
  BY <1>1, LoginEnds
<1>7. CASE UNCHANGED <<routes, probes>>
  BY <1>1, <1>5, <1>6, <1>7, LoginStep
<1>8. CASE ~UNCHANGED <<routes, probes>>
  <2>1. PICK r : r = login[a].via
    OBVIOUS
  <2>2. /\ r # Nobody /\ r # Direct
        /\ routes' = [routes EXCEPT ![r] = [@ EXCEPT !.online = FALSE,
                                                     !.proven = FALSE]]
        /\ probes' = LeftBehind(probes, r, Len(probes) + 1)
    BY <1>8, <2>1 DEF LoginFails
  <2>3. r \in Routes
    BY <2>1, <2>2 DEF IAccounts, ITables, Login
  <2>4. PICK no \in BOOLEAN : no = FALSE
    OBVIOUS
  <2>5. routes' = [routes EXCEPT ![r] = [@ EXCEPT !.online = no, !.proven = no]]
    BY <2>2, <2>4
  <2>6. /\ routes' \in [Routes -> Route]
        /\ \A q \in Routes : routes'[q].state = routes[q].state
        /\ \A q \in Routes \ {r} : routes'[q] = routes[q]
        /\ routes'[r].online = no
    BY <2>3, <2>5, VerdictEffect DEF IAccounts
  <2>7. PICK t : t = LeftBehind(probes, r, Len(probes) + 1)
    OBVIOUS
  <2>8. Len(probes) + 1 \in Int
    BY LenProperties DEF IAccounts, ITables
  <2>9. /\ t \in Seq(Probe) /\ Len(t) = Len(probes) /\ DOMAIN t = DOMAIN probes
        /\ \A i \in DOMAIN probes : /\ t[i].route = probes[i].route
                                    /\ t[i].same = probes[i].same
                                    /\ t[i].truly = probes[i].truly
    BY <2>3, <2>7, <2>8, LeftBehindTyped DEF IAccounts, ITables
  <2>10. probes' = t
    BY <2>2, <2>7
  <2>11. IAccounts'
    BY <1>1, <1>5, <1>6, <2>6, <2>9, <2>10 DEF IAccounts, ITables, Exists
  <2>12. \A q \in Routes : Shown(q) /\ Sees(q) => Shown(q)' /\ Sees(q)'
    BY <2>4, <2>6, <2>9, <2>10 DEF Shown, Sees
  <2>13. Silent => Silent'
    BY <2>4, <2>6, <2>9, <2>10, RoutesAssumption DEF Silent
  <2>14. routes'[Home].online => routes[Home].online
    BY <2>4, <2>6, RoutesAssumption
  <2> QED
    BY <1>1, <1>5, <1>6, <2>6, <2>11, <2>12, <2>13, <2>14, RoutesAssumption
       DEF RouteStep, Exists
<1> QED
  BY <1>7, <1>8

\* Every step of the routes and logins, with the relay as it is.
LEMMA RoutesNextStep ==
    ASSUME IAccounts, RoutesNext(Unlocked)
    PROVE  RouteStep
<1>1. PICK free \in BOOLEAN : free = Unlocked
  BY DEF Unlocked
<1>3. ASSUME NEW r \in Routes,
             \/ CreateRoute(r) \/ SetDefault(r, r = Home => Unlocked)
             \/ EditTransport(r) \/ Toggle(r, r = Home => Unlocked)
             \/ DeleteCustom(r) \/ ProbeBegin(r) \/ FreshnessEnds(r)
             \/ \E a \in Accounts : Assign(a, r, r = Home => Unlocked)
      PROVE  RouteStep
  <2>1. PICK f \in BOOLEAN : f = (r = Home => Unlocked)
    OBVIOUS
  <2>2. r = Home /\ f => Unlocked
    BY <2>1
  <2>3. CASE SetDefault(r, r = Home => Unlocked)
    <3>1. SetDefault(r, f)
      BY <2>1, <2>3
    <3> QED
      BY <2>2, <3>1, DefaultStep
  <2>4. CASE Toggle(r, r = Home => Unlocked)
    <3>1. Toggle(r, f)
      BY <2>1, <2>4
    <3> QED
      BY <3>1, ToggleStep
  <2>5. CASE \E a \in Accounts : Assign(a, r, r = Home => Unlocked)
    <3>1. PICK a \in Accounts : Assign(a, r, f)
      BY <2>1, <2>5
    <3> QED
      BY <2>2, <3>1, AssignStep
  <2> QED
    BY <1>3, <2>3, <2>4, <2>5, CreateStep, EditStep, DeleteCustomStep,
       ProbeBeginStep, FreshnessStep
<1>4. CASE SetDefault(Direct, TRUE)
  BY <1>4, DefaultStep, RoutesAssumption
<1>5. ASSUME NEW n \in 1..MaxProbes, NEW ok \in BOOLEAN, ProbeEnd(n, ok, Unlocked)
      PROVE  RouteStep
  BY <1>1, <1>5, ProbeEndStep
<1>6. ASSUME NEW a \in Accounts,
             \/ Assign(a, Inherit, TRUE) \/ ScheduleCheck(a) \/ LoginRefused(a)
             \/ LoginPasses(a)
      PROVE  RouteStep
  BY <1>6, AssignStep, ScheduleStep, LoginPassesStep, RoutesAssumption
<1>7. ASSUME NEW a \in Accounts, NEW job \in BOOLEAN, LoginBegin(a, job)
      PROVE  RouteStep
  BY <1>7, LoginBeginStep
<1>8. ASSUME NEW a \in Accounts, NEW fault \in BOOLEAN, NEW keeps \in BOOLEAN,
             LoginFails(a, fault, keeps, Unlocked)
      PROVE  RouteStep
  BY <1>1, <1>8, LoginFailsStep
<1> QED
  BY <1>3, <1>4, <1>5, <1>6, <1>7, <1>8 DEF RoutesNext

-----------------------------------------------------------------------------
(* Mishaps: a step upholds the invariant if, with the mishaps that it adds, *)
(* each part that a mishap would suspend still holds.                      *)

Upholds(new) ==
    /\ IAccounts'
    /\ token' \in {"none", "live"} /\ key' \in {"none", "unknown", "told"}
    /\ pairing' \in {"none", "setup", "setup_failed", "enroll"}
    /\ undoing' \subseteq {"revoke", "mark"}
    /\ deleting' \in {"none", "disabled", "revoked"}
    /\ IToken'
    /\ (~Unlocked \/ undoing # {} \/ deleting # "none" => Exists(Home))'
    /\ (undoing # {} => Unlocked /\ deleting = "none")'
    /\ (deleting = "revoked" \/ ~Exists(Home))' =>
         /\ Tracked /\ "overtaken" \notin new => key' = "none"
         /\ key' = "none" => ~tunnel'
    /\ \A r \in Routes \ {Home} : Shown(r)' /\ Sees(r)'
    /\ Unlocked' /\ undoing' = {} /\ deleting' = "none" /\ mishaps = {} /\ new = {} =>
         Shown(Home)' /\ Sees(Home)'
    /\ deleting' # "none" /\ Tracked /\ "overtaken" \notin new =>
         routes'[Home].state # "on" /\ Silent'

LEMMA UpheldKeeps ==
    ASSUME IInv, NEW new \in SUBSET {"cut", "overtaken"}, Upholds(new), Records(new)
    PROVE  IInv'
<1>1. /\ IAccounts' /\ IToken'
      /\ token' \in {"none", "live"} /\ key' \in {"none", "unknown", "told"}
      /\ pairing' \in {"none", "setup", "setup_failed", "enroll"}
      /\ undoing' \subseteq {"revoke", "mark"}
      /\ deleting' \in {"none", "disabled", "revoked"}
  BY DEF Upholds
<1>2. mishaps' = IF Repaired THEN {} ELSE mishaps \cup new
  BY DEF Records
<1>3. mishaps' \subseteq {"cut", "overtaken"}
  BY <1>2 DEF IInv, RoutesTypeOK
<1>4. RoutesTypeOK'
  BY <1>1, <1>3 DEF RoutesTypeOK, IAccounts, ITables
<1>5. Tracked' => Repaired \/ (Tracked /\ "overtaken" \notin new)
  BY <1>2 DEF Tracked
<1>6. mishaps' = {} => Repaired \/ (mishaps = {} /\ new = {})
  BY <1>2
<1>7. IKey'
  <2>1. (deleting = "revoked" \/ ~Exists(Home))' =>
          /\ Tracked' => key' = "none"
          /\ key' = "none" => ~tunnel'
    <3> SUFFICES ASSUME (deleting = "revoked" \/ ~Exists(Home))', Tracked'
                 PROVE  key' = "none"
      BY DEF Upholds
    <3>1. CASE Repaired
      BY <3>1 DEF Repaired, Exists
    <3>2. CASE Tracked /\ "overtaken" \notin new
      BY <3>2 DEF Upholds
    <3> QED
      BY <1>5, <3>1, <3>2
  <2> QED
    BY <2>1 DEF IKey, Upholds
<1>8. IProbes'
  <2>1. ASSUME NEW r \in Routes, Settled(r)' PROVE Shown(r)' /\ Sees(r)'
    <3>1. CASE r # Home
      BY <3>1 DEF Upholds
    <3>2. CASE r = Home
      <4>1. Unlocked' /\ undoing' = {} /\ deleting' = "none" /\ mishaps' = {}
        BY <2>1, <3>2 DEF Settled
      <4>2. CASE Repaired
        BY <3>2, <4>2 DEF Repaired, Shown, Sees
      <4>3. CASE mishaps = {} /\ new = {}
        BY <3>2, <4>1, <4>3 DEF Upholds
      <4> QED
        BY <1>6, <4>1, <4>2, <4>3
    <3> QED
      BY <3>1, <3>2
  <2>2. ASSUME deleting' # "none", Tracked'
        PROVE  routes'[Home].state # "on" /\ Silent'
    BY <1>5, <2>2 DEF Repaired, Upholds
  <2> QED
    BY <2>1, <2>2 DEF IProbes
<1> QED
  BY <1>1, <1>4, <1>7, <1>8 DEF IInv, ISound, IAccounts

LEMMA Parts ==
    ASSUME IInv
    PROVE  /\ IAccounts /\ IRelay /\ IToken /\ IKey /\ IProbes
           /\ routes[Home] \in Route
BY RoutesAssumption DEF IInv, ISound, IAccounts, RoutesTypeOK, ITables, IRelay

\* A deletion is not overtaken unless the relay comes back.
Noted(new) == "overtaken" \notin new => ~Overtakes

LEMMA RoutesUphold ==
    ASSUME IInv, RoutesNext(Unlocked), NEW new, Noted(new),
           UNCHANGED <<token, key, pairing, undoing, deleting>>
    PROVE  Upholds(new)
<1>1. /\ IAccounts /\ IRelay /\ IToken /\ IKey /\ IProbes
  BY Parts
<1>2. RouteStep
  BY <1>1, RoutesNextStep
<1>3. Unlocked' <=> Unlocked
  BY DEF Unlocked
<1>4. IToken'
  <2>1. token = "live" \/ ~Unlocked => ~InUse(Home)'
    BY <1>1, <1>2 DEF RouteStep, IToken, Selectable
  <2>2. token = "live" \/ Installing => ~tunnel' /\ key' # "told"
    BY <1>1, <1>2 DEF RouteStep, IToken
  <2>3. token = "live" \/ pairing = "enroll" => ~routes'[Home].online
    BY <1>1, <1>2 DEF RouteStep, IToken, Installing
  <2>4. token = "live" \/ pairing = "enroll" =>
          \A a \in Accounts : login'[a].via = Home => ~login'[a].same
    BY <1>1, <1>2 DEF RouteStep, IToken, Selectable
  <2> QED
    BY <1>3, <2>1, <2>2, <2>3, <2>4 DEF IToken, Installing
<1>5. (deleting = "revoked" \/ ~Exists(Home))' =>
        /\ Tracked => key' = "none"
        /\ key' = "none" => ~tunnel'
  BY <1>1, <1>2 DEF RouteStep, IKey
<1>6. \A r \in Routes \ {Home} : Shown(r)' /\ Sees(r)'
  BY <1>1, <1>2 DEF RouteStep, IProbes, Settled
<1>7. Unlocked /\ undoing = {} /\ deleting = "none" /\ mishaps = {} =>
        Shown(Home)' /\ Sees(Home)'
  BY <1>1, <1>2, RoutesAssumption DEF RouteStep, IProbes, Settled
<1>8. deleting # "none" /\ Tracked /\ "overtaken" \notin new =>
        routes'[Home].state # "on" /\ Silent'
  BY <1>1, <1>2 DEF RouteStep, IProbes, Noted, Overtakes, Home_
<1> QED
  BY <1>1, <1>2, <1>3, <1>4, <1>5, <1>6, <1>7, <1>8
     DEF Upholds, RouteStep, IRelay, IKey

-----------------------------------------------------------------------------
(* The home relay's own steps *)

LEMMA FailClosedTyped ==
    ASSUME IInv
    PROVE  /\ FailClosed \in Route /\ ~FailClosed.online /\ ~FailClosed.proven
           /\ FailClosed.state # "on"
           /\ FailClosed.state = "absent" <=> ~Exists(Home)
<1>1. PICK x \in Route : x = routes[Home]
  BY Parts
<1>2. PICK s \in {"absent", "off"} : s = IF x.state = "absent" THEN x.state ELSE "off"
  BY DEF Route
<1>3. PICK y : y = [x EXCEPT !.state = s, !.online = FALSE, !.proven = FALSE]
  OBVIOUS
<1>4. y \in Route /\ y.state = s /\ ~y.online /\ ~y.proven
  BY <1>3 DEF Route
<1>5. FailClosed = y
  BY <1>1, <1>2, <1>3 DEF FailClosed, Home_
<1> QED
  BY <1>1, <1>2, <1>4, <1>5 DEF Exists

\* the row is written with a new revision
LEMMA HomeWritten ==
    ASSUME IInv, NEW row \in Route, ~row.online, WriteHome(row),
           UNCHANGED <<default, account>>, tunnel' \in BOOLEAN,
           row.state = "absent" => ~InUse(Home)
    PROVE  /\ IAccounts' /\ routes'[Home] = row
           /\ InUse(Home)' <=> InUse(Home)
           /\ \A a \in Accounts : login'[a].via = Home => ~login'[a].same
           /\ \A r \in Routes \ {Home} : Shown(r)' /\ Sees(r)'
           /\ Shown(Home)' /\ Sees(Home)' /\ Silent'
<1>1. PICK m \in BOOLEAN : m = FALSE
  OBVIOUS
<1>2. IAccounts /\ IProbes
  BY Parts
<1>3. Rewritten(Home, row)
  BY <1>1, <1>2, RewrittenEffect, RoutesAssumption DEF WriteHome, IAccounts
<1>4. \A r \in Routes : InUse(r)' <=> InUse(r)
  BY DEF InUse
<1>5. \A r \in Routes : InUse(r)' => Exists(r)'
  BY <1>2, <1>3, <1>4 DEF Rewritten, Exists, IAccounts, ITables
<1>6. ITables'
  BY <1>2, <1>3, <1>5 DEF Rewritten, IAccounts, ITables
<1>7. IAccounts'
  BY <1>2, <1>3, <1>6 DEF Rewritten, IAccounts, ActiveIsCertified, Effective
<1>8. \A r \in Routes \ {Home} : Shown(r)' /\ Sees(r)'
  BY <1>2, <1>3 DEF Rewritten, IProbes, Settled
<1> QED
  BY <1>3, <1>4, <1>7, <1>8, RoutesAssumption DEF Rewritten

\* the row does not know yet
LEMMA HomeUnproven ==
    ASSUME IInv, Unproven
    PROVE  /\ routes' \in [Routes -> Route]
           /\ \A r \in Routes : /\ routes'[r].state = routes[r].state
                                /\ routes'[r].online = routes[r].online
           /\ \A r \in Routes \ {Home} : routes'[r] = routes[r]
<1>1. PICK x \in Route : x = routes[Home]
  BY Parts
<1>2. PICK y : y = [x EXCEPT !.proven = FALSE]
  OBVIOUS
<1>3. y \in Route /\ y.state = x.state /\ y.online = x.online
  BY <1>2 DEF Route
<1>4. routes \in [Routes -> Route]
  BY DEF IInv, RoutesTypeOK
<1>5. routes' = [routes EXCEPT ![Home] = y]
  BY <1>1, <1>2, <1>4 DEF Unproven
<1>6. /\ routes' \in [Routes -> Route] /\ routes'[Home] = y
      /\ \A r \in Routes \ {Home} : routes'[r] = routes[r]
  BY <1>3, <1>4, <1>5, RouteWritten, RoutesAssumption
<1> QED
  BY <1>1, <1>3, <1>6

\* a revocation: the row does not know yet, what is in flight stays
LEMMA Unseen ==
    ASSUME IInv, Unproven, UNCHANGED <<default, account, login, probes>>,
           tunnel' \in BOOLEAN
    PROVE  /\ IAccounts' /\ (Exists(Home)' <=> Exists(Home))
           /\ routes'[Home].state = routes[Home].state
           /\ routes'[Home].online = routes[Home].online
           /\ InUse(Home)' <=> InUse(Home)
           /\ \A r \in Routes \ {Home} : Shown(r)' /\ Sees(r)'
           /\ Silent => Shown(Home)' /\ Sees(Home)' /\ Silent'
<1>1. IAccounts /\ IProbes
  BY Parts
<1>2. /\ routes' \in [Routes -> Route]
      /\ \A r \in Routes : /\ routes'[r].state = routes[r].state
                           /\ routes'[r].online = routes[r].online
      /\ \A r \in Routes \ {Home} : routes'[r] = routes[r]
  BY HomeUnproven
<1>3. \A r \in Routes : (InUse(r)' <=> InUse(r)) /\ (Exists(r)' <=> Exists(r))
  BY <1>2 DEF InUse, Exists
<1>4. IAccounts'
  BY <1>1, <1>2, <1>3
     DEF IAccounts, ITables, ILogins, ActiveIsCertified, Effective
<1>5. \A r \in Routes \ {Home} : Shown(r)' /\ Sees(r)'
  BY <1>1, <1>2 DEF IProbes, Settled, Shown, Sees
<1>6. Silent => Shown(Home)' /\ Sees(Home)' /\ Silent'
  BY <1>2, RoutesAssumption DEF Silent, Shown, Sees
<1> QED
  BY <1>2, <1>3, <1>4, <1>5, <1>6, RoutesAssumption

LEMMA SetupCreatesUpholds ==
    ASSUME IInv, NEW new, Noted(new), SetupCreates
    PROVE  Upholds(new)
<1>1. IAccounts /\ IRelay /\ IToken /\ IKey /\ IProbes
  BY Parts
<1>2. /\ ~Exists(Home) /\ Unlocked /\ Calm /\ WriteHome(NewRoute) /\ token' = "live"
      /\ UNCHANGED <<default, account, tunnel, key, pairing, undoing, deleting>>
  BY DEF SetupCreates
<1>3. ~InUse(Home)
  BY <1>1, <1>2, RoutesAssumption DEF IAccounts, ITables
<1>4. tunnel' \in BOOLEAN
  BY <1>1, <1>2 DEF IAccounts, ITables
<1>5. /\ IAccounts' /\ routes'[Home] = NewRoute
      /\ InUse(Home)' <=> InUse(Home)
      /\ \A a \in Accounts : login'[a].via = Home => ~login'[a].same
      /\ \A r \in Routes \ {Home} : Shown(r)' /\ Sees(r)'
      /\ Shown(Home)' /\ Sees(Home)' /\ Silent'
  BY <1>2, <1>3, <1>4, HomeWritten, NewRouteTyped
<1>6. key = "none" /\ ~tunnel /\ undoing = {} /\ deleting = "none"
  BY <1>1, <1>2 DEF IKey, Calm, Tracked
<1>7. IToken'
  BY <1>2, <1>3, <1>5, <1>6, NewRouteTyped DEF IToken, Unlocked, Installing
<1> QED
  BY <1>1, <1>2, <1>5, <1>6, <1>7, NewRouteTyped DEF Upholds, IRelay, Unlocked, Exists

LEMMA SetupRevokesUpholds ==
    ASSUME IInv, NEW new, Noted(new), NEW ok \in BOOLEAN, SetupRevokes(ok)
    PROVE  Upholds(new)
<1>1. IAccounts /\ IRelay /\ IToken /\ IKey /\ IProbes
  BY Parts
<1>2. /\ MayPair /\ Calm /\ Revoked(ok) /\ Unproven
      /\ pairing' = IF ok THEN "setup" ELSE "setup_failed"
      /\ UNCHANGED <<default, account, login, probes, token, undoing, deleting>>
  BY DEF SetupRevokes
<1>3. /\ tunnel' \in BOOLEAN /\ key' \in {"none", key} /\ (tunnel' => tunnel)
      /\ ok => key' = "none" /\ ~tunnel'
  BY <1>1, <1>2 DEF Revoked, IAccounts, ITables
<1>4. /\ IAccounts' /\ (Exists(Home)' <=> Exists(Home))
      /\ routes'[Home].state = routes[Home].state
      /\ routes'[Home].online = routes[Home].online
      /\ InUse(Home)' <=> InUse(Home)
      /\ \A r \in Routes \ {Home} : Shown(r)' /\ Sees(r)'
      /\ Silent => Shown(Home)' /\ Sees(Home)' /\ Silent'
  BY <1>2, <1>3, Unseen
<1>5. IToken'
  BY <1>1, <1>2, <1>3, <1>4 DEF IToken, MayPair, Unlocked, Installing
<1>6. (deleting = "revoked" \/ ~Exists(Home))' => key' = "none" /\ ~tunnel'
  BY <1>1, <1>2, <1>3, <1>4 DEF IKey, Calm, Tracked
<1>7. deleting' # "none" /\ Tracked => routes'[Home].state # "on" /\ Silent'
  BY <1>1, <1>2, <1>4 DEF IProbes
<1> QED
  BY <1>1, <1>2, <1>3, <1>4, <1>5, <1>6, <1>7
     DEF Upholds, IRelay, MayPair, Calm, Unlocked

LEMMA SetupCommitsUpholds ==
    ASSUME IInv, NEW new, Noted(new), NEW ok \in BOOLEAN, SetupCommits(ok)
    PROVE  Upholds(new)
<1>1. IAccounts /\ IRelay /\ IToken /\ IKey /\ IProbes
  BY Parts
<1>2. /\ pairing \in {"setup", "setup_failed"} /\ pairing' = "none"
      /\ UNCHANGED <<default, account, tunnel, key, deleting>>
  BY DEF SetupCommits
<1>3. Exists(Home) /\ ~InUse(Home) /\ undoing = {}
  BY <1>1, <1>2 DEF IKey, IToken, Unlocked
<1>4. tunnel' \in BOOLEAN
  BY <1>1, <1>2 DEF IAccounts, ITables
<1>5. CASE ok
  <2>1. PICK row : row = IF pairing = "setup" THEN NewRoute ELSE FailClosed
    OBVIOUS
  <2>2. /\ row \in Route /\ ~row.online /\ row.state # "absent"
    BY <1>3, <2>1, NewRouteTyped, FailClosedTyped
  <2>3. /\ WriteHome(row) /\ undoing' = undoing
        /\ token' = IF pairing = "setup" THEN "live" ELSE "none"
    BY <1>5, <2>1 DEF SetupCommits
  <2>4. /\ IAccounts' /\ routes'[Home] = row
        /\ InUse(Home)' <=> InUse(Home)
        /\ \A a \in Accounts : login'[a].via = Home => ~login'[a].same
        /\ \A r \in Routes \ {Home} : Shown(r)' /\ Sees(r)'
        /\ Shown(Home)' /\ Sees(Home)' /\ Silent'
    BY <1>2, <1>3, <1>4, <2>2, <2>3, HomeWritten
  <2>5. IToken'
    BY <1>1, <1>2, <1>3, <2>2, <2>3, <2>4 DEF IToken, Unlocked, Installing
  <2>6. deleting' # "none" /\ Tracked /\ "overtaken" \notin new =>
          routes'[Home].state # "on"
    BY <1>1, <1>2 DEF IProbes, Noted, Overtakes, Home_
  <2>7. Exists(Home)'
    BY <2>2, <2>4 DEF Exists
  <2> QED
    BY <1>1, <1>2, <1>3, <2>3, <2>4, <2>5, <2>6, <2>7
       DEF Upholds, IRelay, IKey, Unlocked
<1>6. CASE ~ok
  <2>1. /\ deleting = "none" /\ undoing' = {"mark"}
        /\ UNCHANGED <<routes, login, probes, token>>
    BY <1>6 DEF SetupCommits, KeepRoute
  <2>2. IAccounts' /\ (Exists(Home)' <=> Exists(Home)) /\ (InUse(Home)' <=> InUse(Home))
    BY <1>1, <1>2, <2>1
       DEF IAccounts, ITables, ILogins, ActiveIsCertified, Effective, InUse, Exists
  <2>3. IToken'
    BY <1>1, <1>2, <1>3, <2>1, <2>2 DEF IToken, Unlocked, Installing
  <2>4. \A r \in Routes \ {Home} : Shown(r)' /\ Sees(r)'
    BY <1>1, <2>1 DEF IProbes, Settled, Shown, Sees
  <2> QED
    BY <1>1, <1>2, <1>3, <2>1, <2>2, <2>3, <2>4 DEF Upholds, IRelay, IKey, Unlocked
<1> QED
  BY <1>5, <1>6

\* the tables stay as they are
LEMMA QuietUpholds ==
    ASSUME IInv, NEW new, Noted(new), TokenExpires \/ (\E up \in BOOLEAN : Connect(up))
    PROVE  Upholds(new)
<1>1. IAccounts /\ IRelay /\ IToken /\ IKey /\ IProbes
  BY Parts
<1>2. /\ UNCHANGED <<routes, default, account, login, probes, key, pairing,
                     undoing, deleting>>
      /\ token' \in {"none", token} /\ tunnel' \in BOOLEAN
      /\ tunnel' => tunnel \/ key = "told"
  BY <1>1 DEF TokenExpires, Connect, routeVars, IRelay, IAccounts, ITables
<1>3. /\ IAccounts' /\ (Exists(Home)' <=> Exists(Home))
      /\ (InUse(Home)' <=> InUse(Home)) /\ (Unlocked' <=> Unlocked)
      /\ Silent' <=> Silent
      /\ \A r \in Routes : (Shown(r)' <=> Shown(r)) /\ (Sees(r)' <=> Sees(r))
  BY <1>1, <1>2
     DEF IAccounts, ITables, ILogins, ActiveIsCertified, Effective, InUse, Exists,
         Unlocked, Silent, Shown, Sees
<1>4. IToken'
  BY <1>1, <1>2, <1>3 DEF IToken, Installing
<1>5. (deleting = "revoked" \/ ~Exists(Home))' =>
        /\ Tracked => key' = "none"
        /\ key' = "none" => ~tunnel'
  BY <1>1, <1>2, <1>3 DEF IKey
<1>6. \A r \in Routes : Settled(r) => Shown(r)' /\ Sees(r)'
  BY <1>1, <1>3 DEF IProbes
<1> QED
  BY <1>1, <1>2, <1>3, <1>4, <1>5, <1>6, RoutesAssumption
     DEF Upholds, IRelay, IKey, IProbes, Settled

LEMMA EnrollInstallsUpholds ==
    ASSUME IInv, NEW new, Noted(new), EnrollInstalls
    PROVE  Upholds(new)
<1>1. IAccounts /\ IRelay /\ IToken /\ IKey /\ IProbes
  BY Parts
<1>2. /\ token = "live" /\ Exists(Home) /\ Unlocked /\ Calm
      /\ key' = "unknown" /\ tunnel' = FALSE /\ pairing' = "enroll"
      /\ Unproven /\ Overtaken(Home, FALSE, TRUE) /\ Decertified(Home)
      /\ UNCHANGED <<default, token, undoing, deleting>>
  BY DEF EnrollInstalls
<1>3. /\ ~InUse(Home) /\ ~routes[Home].online
      /\ \A a \in Accounts : login[a].via = Home => ~login[a].same
  BY <1>1, <1>2 DEF IToken
<1>4. /\ routes' \in [Routes -> Route]
      /\ \A r \in Routes : /\ routes'[r].state = routes[r].state
                           /\ routes'[r].online = routes[r].online
      /\ \A r \in Routes \ {Home} : routes'[r] = routes[r]
  BY <1>2, HomeUnproven
<1>5. PICK b \in BOOLEAN : b = FALSE
  OBVIOUS
<1>6. PICK m \in BOOLEAN : m = TRUE
  OBVIOUS
<1>7. ProbesMoved(Home, b, m) /\ LoginsMoved(Home, b, m)
  BY <1>1, <1>2, <1>5, <1>6, OvertakenProbes, OvertakenLogins, RoutesAssumption
     DEF IAccounts, ITables
<1>8. /\ account' \in [Accounts -> AccountRow]
      /\ \A a \in Accounts :
           /\ account'[a].route = account[a].route
           /\ account'[a].active <=> account[a].active
           /\ account[a].certified # Home =>
                account'[a].certified = account[a].certified
  BY <1>1, <1>2, DecertifiedEffect, RoutesAssumption DEF IAccounts, ITables
<1>9. \A r \in Routes : (InUse(r)' <=> InUse(r)) /\ (Exists(r)' <=> Exists(r))
  BY <1>2, <1>4, <1>8 DEF InUse, Exists
<1>10. IAccounts'
  <2>1. ITables'
    BY <1>1, <1>2, <1>4, <1>7, <1>8, <1>9
       DEF IAccounts, ITables, ProbesMoved, LoginsMoved
  <2>2. ILogins'
    BY <1>1, <1>3, <1>7 DEF IAccounts, ILogins, LoginsMoved
  <2>3. ActiveIsCertified'
    BY <1>1, <1>2, <1>3, <1>8 DEF IAccounts, ActiveIsCertified, Effective, InUse
  <2> QED
    BY <2>1, <2>2, <2>3 DEF IAccounts
<1>11. \A a \in Accounts : login'[a].via = Home => ~login'[a].same
  BY <1>3, <1>7 DEF LoginsMoved
<1>12. IToken'
  BY <1>2, <1>3, <1>4, <1>9, <1>11, RoutesAssumption DEF IToken
<1>13. \A r \in Routes \ {Home} : Shown(r)' /\ Sees(r)'
  BY <1>1, <1>4, <1>7 DEF IProbes, Settled, Shown, Sees, ProbesMoved
<1>14. Silent => Silent'
  BY <1>4, <1>7, RoutesAssumption DEF Silent, ProbesMoved
<1>15. deleting' # "none" /\ Tracked => routes'[Home].state # "on" /\ Silent'
  BY <1>1, <1>2, <1>4, <1>14, RoutesAssumption DEF IProbes
<1>16. (deleting = "revoked" \/ ~Exists(Home))' =>
         /\ Tracked /\ "overtaken" \notin new => key' = "none"
         /\ key' = "none" => ~tunnel'
  BY <1>1, <1>2, <1>9, RoutesAssumption DEF IKey, Noted, Overtakes
<1>17. Exists(Home)' /\ undoing' = {} /\ pairing' # "none"
  BY <1>2, <1>9, RoutesAssumption DEF Calm
<1> QED
  BY <1>1, <1>2, <1>10, <1>12, <1>13, <1>15, <1>16, <1>17
     DEF Upholds, IRelay, Unlocked

LEMMA EnrollRefusedUpholds ==
    ASSUME IInv, NEW new, Noted(new), EnrollRefused
    PROVE  Upholds(new)
<1>1. IAccounts /\ IRelay /\ IToken /\ IKey /\ IProbes
  BY Parts
<1>2. /\ token = "live" /\ Exists(Home) /\ Unlocked /\ Calm
      /\ Revoked(FALSE) /\ WriteHome(FailClosed)
      /\ UNCHANGED <<default, account, token, pairing, undoing, deleting>>
  BY DEF EnrollRefused
<1>3. tunnel' \in BOOLEAN /\ key' \in {"none", key} /\ (tunnel' => tunnel)
  BY <1>1, <1>2 DEF Revoked, IAccounts, ITables
<1>4. /\ FailClosed \in Route /\ ~FailClosed.online
      /\ FailClosed.state # "on" /\ FailClosed.state # "absent"
  BY <1>2, FailClosedTyped
<1>5. /\ IAccounts' /\ routes'[Home] = FailClosed
      /\ InUse(Home)' <=> InUse(Home)
      /\ \A a \in Accounts : login'[a].via = Home => ~login'[a].same
      /\ \A r \in Routes \ {Home} : Shown(r)' /\ Sees(r)'
      /\ Shown(Home)' /\ Sees(Home)' /\ Silent'
  BY <1>2, <1>3, <1>4, HomeWritten
<1>6. Exists(Home)'
  BY <1>4, <1>5 DEF Exists
<1>7. IToken'
  BY <1>1, <1>2, <1>3, <1>4, <1>5 DEF IToken, Unlocked, Installing
<1>8. deleting = "revoked" => key' = "none" /\ ~tunnel'
  BY <1>1, <1>2, <1>3 DEF IKey, Calm, Tracked
<1> QED
  BY <1>1, <1>2, <1>3, <1>4, <1>5, <1>6, <1>7, <1>8
     DEF Upholds, IRelay, Unlocked, Calm

LEMMA EnrollCommitsUpholds ==
    ASSUME IInv, NEW new, Noted(new), NEW ok \in BOOLEAN, EnrollCommits(ok)
    PROVE  Upholds(new)
<1>1. IAccounts /\ IRelay /\ IToken /\ IKey /\ IProbes
  BY Parts
<1>2. /\ pairing = "enroll" /\ pairing' = "none"
      /\ UNCHANGED <<default, account, tunnel, deleting>>
  BY DEF EnrollCommits
<1>3. Exists(Home) /\ ~InUse(Home) /\ undoing = {} /\ ~tunnel
  BY <1>1, <1>2 DEF IKey, IToken, Unlocked, Installing
<1>4. tunnel' \in BOOLEAN
  BY <1>1, <1>2 DEF IAccounts, ITables
<1>5. CASE ok
  <2>1. PICK x \in Route : x = routes[Home]
    BY Parts
  <2>2. PICK row : row = [x EXCEPT !.state = "on", !.online = FALSE]
    OBVIOUS
  <2>3. row \in Route /\ ~row.online /\ row.state = "on"
    BY <2>2 DEF Route
  <2>4. /\ WriteHome(row) /\ undoing' = undoing /\ token' = "none" /\ key' = "told"
    BY <1>5, <2>1, <2>2 DEF EnrollCommits, Home_
  <2>5. /\ IAccounts' /\ routes'[Home] = row
        /\ InUse(Home)' <=> InUse(Home)
        /\ \A a \in Accounts : login'[a].via = Home => ~login'[a].same
        /\ \A r \in Routes \ {Home} : Shown(r)' /\ Sees(r)'
        /\ Shown(Home)' /\ Sees(Home)' /\ Silent'
    BY <1>2, <1>3, <1>4, <2>3, <2>4, HomeWritten
  <2>6. IToken'
    BY <1>2, <2>4 DEF IToken, Unlocked, Installing
  <2>7. /\ Exists(Home)'
        /\ deleting' # "none" /\ Tracked /\ "overtaken" \notin new =>
             routes'[Home].state # "on" /\ key' = "none"
    BY <1>1, <1>2, <2>3, <2>4, <2>5
       DEF Exists, IProbes, Noted, Overtakes, Home_
  <2> QED
    BY <1>1, <1>2, <1>3, <2>4, <2>5, <2>6, <2>7 DEF Upholds, IRelay, Unlocked
<1>6. CASE ~ok
  <2>1. /\ deleting = "none" /\ undoing' = {"revoke", "mark"}
        /\ UNCHANGED <<routes, login, probes, token, key>>
    BY <1>6 DEF EnrollCommits, KeepRoute
  <2>2. IAccounts' /\ (Exists(Home)' <=> Exists(Home)) /\ (InUse(Home)' <=> InUse(Home))
    BY <1>1, <1>2, <2>1
       DEF IAccounts, ITables, ILogins, ActiveIsCertified, Effective, InUse, Exists
  <2>3. IToken'
    BY <1>1, <1>2, <1>3, <2>1, <2>2 DEF IToken, Unlocked, Installing
  <2>4. \A r \in Routes \ {Home} : Shown(r)' /\ Sees(r)'
    BY <1>1, <2>1 DEF IProbes, Settled, Shown, Sees
  <2> QED
    BY <1>1, <1>2, <1>3, <2>1, <2>2, <2>3, <2>4 DEF Upholds, IRelay, IKey, Unlocked
<1> QED
  BY <1>5, <1>6

LEMMA UndoRevokesUpholds ==
    ASSUME IInv, NEW new, Noted(new), NEW ok \in BOOLEAN, UndoRevokes(ok)
    PROVE  Upholds(new)
<1>1. IAccounts /\ IRelay /\ IToken /\ IKey /\ IProbes
  BY Parts
<1>2. /\ undoing # {} /\ Revoked(ok) /\ Unproven /\ undoing' = {"mark"}
      /\ UNCHANGED <<default, account, login, probes, token, pairing, deleting>>
  BY DEF UndoRevokes
<1>3. tunnel' \in BOOLEAN /\ key' \in {"none", key} /\ (tunnel' => tunnel)
  BY <1>1, <1>2 DEF Revoked, IAccounts, ITables
<1>4. /\ IAccounts' /\ (Exists(Home)' <=> Exists(Home))
      /\ routes'[Home].online = routes[Home].online
      /\ InUse(Home)' <=> InUse(Home)
      /\ \A r \in Routes \ {Home} : Shown(r)' /\ Sees(r)'
  BY <1>2, <1>3, Unseen
<1>5. Exists(Home) /\ Unlocked /\ deleting = "none"
  BY <1>1, <1>2 DEF IKey
<1>6. IToken'
  BY <1>1, <1>2, <1>3, <1>4, <1>5 DEF IToken, Unlocked, Installing
<1> QED
  BY <1>1, <1>2, <1>3, <1>4, <1>5, <1>6 DEF Upholds, IRelay, Unlocked

\* a compensation that is cut off is a mishap
LEMMA UndoMarksUpholds ==
    ASSUME IInv, NEW new, NEW ok \in BOOLEAN, ok \/ new # {}, UndoMarks(ok)
    PROVE  Upholds(new)
<1>1. IAccounts /\ IRelay /\ IToken /\ IKey /\ IProbes
  BY Parts
<1>2. /\ undoing # {} /\ undoing' = {}
      /\ UNCHANGED <<default, account, tunnel, token, key, pairing, deleting>>
  BY DEF UndoMarks
<1>3. Exists(Home) /\ Unlocked /\ deleting = "none"
  BY <1>1, <1>2 DEF IKey
<1>4. tunnel' \in BOOLEAN
  BY <1>1, <1>2 DEF IAccounts, ITables
<1>5. CASE ok
  <2>1. /\ FailClosed \in Route /\ ~FailClosed.online /\ FailClosed.state # "absent"
    BY <1>3, FailClosedTyped
  <2>2. WriteHome(FailClosed)
    BY <1>5 DEF UndoMarks
  <2>3. /\ IAccounts' /\ routes'[Home] = FailClosed
        /\ InUse(Home)' <=> InUse(Home)
        /\ \A a \in Accounts : login'[a].via = Home => ~login'[a].same
        /\ \A r \in Routes \ {Home} : Shown(r)' /\ Sees(r)'
        /\ Shown(Home)' /\ Sees(Home)' /\ Silent'
    BY <1>2, <1>4, <2>1, <2>2, HomeWritten
  <2>4. IToken'
    BY <1>1, <1>2, <1>3, <2>1, <2>3 DEF IToken, Unlocked, Installing
  <2>5. Exists(Home)'
    BY <2>1, <2>3 DEF Exists
  <2> QED
    BY <1>1, <1>2, <1>3, <2>3, <2>4, <2>5 DEF Upholds, IRelay, Unlocked
<1>6. CASE ~ok
  <2>1. UNCHANGED <<routes, login, probes>>
    BY <1>6 DEF UndoMarks, KeepRoute
  <2>2. IAccounts' /\ (Exists(Home)' <=> Exists(Home)) /\ (InUse(Home)' <=> InUse(Home))
    BY <1>1, <1>2, <2>1
       DEF IAccounts, ITables, ILogins, ActiveIsCertified, Effective, InUse, Exists
  <2>3. IToken'
    BY <1>1, <1>2, <2>1, <2>2 DEF IToken, Unlocked, Installing
  <2>4. \A r \in Routes \ {Home} : Shown(r)' /\ Sees(r)'
    BY <1>1, <2>1 DEF IProbes, Settled, Shown, Sees
  <2> QED
    BY <1>1, <1>2, <1>3, <1>6, <2>1, <2>2, <2>3, <2>4 DEF Upholds, IRelay, Unlocked
<1> QED
  BY <1>5, <1>6

LEMMA DeleteDisablesUpholds ==
    ASSUME IInv, NEW new, Noted(new), DeleteDisables
    PROVE  Upholds(new)
<1>1. IAccounts /\ IRelay /\ IToken /\ IKey /\ IProbes
  BY Parts
<1>2. /\ Exists(Home) /\ Unlocked /\ Calm /\ deleting = "none"
      /\ deleting' = "disabled" /\ WriteHome(FailClosed)
      /\ UNCHANGED <<default, account, tunnel, token, key, pairing, undoing>>
  BY DEF DeleteDisables
<1>3. tunnel' \in BOOLEAN
  BY <1>1, <1>2 DEF IAccounts, ITables
<1>4. /\ FailClosed \in Route /\ ~FailClosed.online
      /\ FailClosed.state # "on" /\ FailClosed.state # "absent"
  BY <1>2, FailClosedTyped
<1>5. /\ IAccounts' /\ routes'[Home] = FailClosed
      /\ InUse(Home)' <=> InUse(Home)
      /\ \A a \in Accounts : login'[a].via = Home => ~login'[a].same
      /\ \A r \in Routes \ {Home} : Shown(r)' /\ Sees(r)'
      /\ Shown(Home)' /\ Sees(Home)' /\ Silent'
  BY <1>2, <1>3, <1>4, HomeWritten
<1>6. Exists(Home)'
  BY <1>4, <1>5 DEF Exists
<1>7. IToken'
  BY <1>1, <1>2, <1>4, <1>5 DEF IToken, Unlocked, Installing
<1> QED
  BY <1>1, <1>2, <1>4, <1>5, <1>6, <1>7 DEF Upholds, IRelay, Unlocked, Calm

LEMMA DeleteRevokesUpholds ==
    ASSUME IInv, NEW new, Noted(new), NEW ok \in BOOLEAN, DeleteRevokes(ok)
    PROVE  Upholds(new)
<1>1. IAccounts /\ IRelay /\ IToken /\ IKey /\ IProbes
  BY Parts
<1>2. /\ deleting = "disabled" /\ Revoked(ok) /\ Unproven
      /\ deleting' = IF ok THEN "revoked" ELSE "none"
      /\ UNCHANGED <<default, account, login, probes, token, pairing, undoing>>
  BY DEF DeleteRevokes, DeleteRevoked
<1>3. /\ tunnel' \in BOOLEAN /\ key' \in {"none", key} /\ (tunnel' => tunnel)
      /\ ok => key' = "none" /\ ~tunnel'
  BY <1>1, <1>2 DEF Revoked, IAccounts, ITables
<1>4. /\ IAccounts' /\ (Exists(Home)' <=> Exists(Home))
      /\ routes'[Home].state = routes[Home].state
      /\ routes'[Home].online = routes[Home].online
      /\ InUse(Home)' <=> InUse(Home)
      /\ \A r \in Routes \ {Home} : Shown(r)' /\ Sees(r)'
      /\ Silent => Shown(Home)' /\ Sees(Home)' /\ Silent'
  BY <1>2, <1>3, Unseen
<1>5. Exists(Home) /\ undoing = {}
  BY <1>1, <1>2 DEF IKey
<1>6. IToken'
  BY <1>1, <1>2, <1>3, <1>4 DEF IToken, Unlocked, Installing
<1>7. Tracked => routes'[Home].state # "on" /\ Shown(Home)' /\ Sees(Home)' /\ Silent'
  BY <1>1, <1>2, <1>4 DEF IProbes
<1>8. mishaps = {} => Tracked
  BY DEF Tracked
<1>9. (deleting = "revoked" \/ ~Exists(Home))' => key' = "none" /\ ~tunnel'
  BY <1>2, <1>3, <1>4, <1>5
<1> QED
  BY <1>1, <1>2, <1>3, <1>4, <1>5, <1>6, <1>7, <1>8, <1>9
     DEF Upholds, IRelay, Unlocked

LEMMA DeleteEndsUpholds ==
    ASSUME IInv, NEW new, Noted(new), DeleteEnds
    PROVE  Upholds(new)
<1>1. IAccounts /\ IRelay /\ IToken /\ IKey /\ IProbes
  BY Parts
<1>2. /\ deleting = "revoked" /\ Unlocked /\ deleting' = "none"
      /\ UNCHANGED <<default, account, tunnel, key, pairing, undoing>>
  BY DEF DeleteEnds
<1>3. /\ tunnel' \in BOOLEAN /\ Exists(Home) /\ undoing = {}
      /\ Tracked => key = "none"
      /\ key = "none" => ~tunnel
  BY <1>1, <1>2 DEF IAccounts, ITables, IKey
<1>4. CASE InUse(Home)
  <2>1. PICK x \in Route : x = routes[Home]
    BY Parts
  <2>2. PICK row : row = [x EXCEPT !.online = FALSE, !.proven = FALSE]
    OBVIOUS
  <2>3. row \in Route /\ ~row.online /\ row.state = x.state
    BY <2>2 DEF Route
  <2>4. row.state # "absent"
    BY <1>3, <2>1, <2>3 DEF Exists
  <2>5. WriteHome(row) /\ token' = token
    BY <1>4, <2>1, <2>2 DEF DeleteEnds, Referenced, Home_
  <2>6. /\ IAccounts' /\ routes'[Home] = row
        /\ InUse(Home)' <=> InUse(Home)
        /\ \A a \in Accounts : login'[a].via = Home => ~login'[a].same
        /\ \A r \in Routes \ {Home} : Shown(r)' /\ Sees(r)'
        /\ Shown(Home)' /\ Sees(Home)' /\ Silent'
    BY <1>2, <1>3, <2>3, <2>4, <2>5, HomeWritten
  <2>7. IToken'
    BY <1>1, <1>2, <1>4, <2>5 DEF IToken, Unlocked, Installing
  <2>8. Exists(Home)'
    BY <2>4, <2>6 DEF Exists
  <2> QED
    BY <1>1, <1>2, <1>3, <2>5, <2>6, <2>7, <2>8 DEF Upholds, IRelay, Unlocked
<1>5. CASE ~InUse(Home)
  <2>1. PICK f \in Route : f = FailClosed
    BY FailClosedTyped
  <2>2. ~f.online
    BY <2>1, FailClosedTyped
  <2>3. PICK row : row = [f EXCEPT !.state = "absent"]
    OBVIOUS
  <2>4. row \in Route /\ ~row.online
    BY <2>2, <2>3 DEF Route
  <2>5. WriteHome(row) /\ token' = "none"
    BY <1>5, <2>1, <2>3 DEF DeleteEnds, Referenced
  <2>6. /\ IAccounts' /\ routes'[Home] = row
        /\ InUse(Home)' <=> InUse(Home)
        /\ \A a \in Accounts : login'[a].via = Home => ~login'[a].same
        /\ \A r \in Routes \ {Home} : Shown(r)' /\ Sees(r)'
        /\ Shown(Home)' /\ Sees(Home)' /\ Silent'
    BY <1>2, <1>3, <1>5, <2>4, <2>5, HomeWritten
  <2>7. IToken'
    BY <1>1, <1>2, <2>5 DEF IToken, Unlocked, Installing
  <2> QED
    BY <1>1, <1>2, <1>3, <2>5, <2>6, <2>7 DEF Upholds, IRelay, Unlocked
<1> QED
  BY <1>4, <1>5

\* What is in flight is gone, the tables and the relay stay.
LEMMA RestartUpholds ==
    ASSUME IInv, NEW new, Restart,
           new = {} => Unlocked /\ undoing = {} /\ deleting = "none"
    PROVE  Upholds(new)
<1>1. IAccounts /\ IRelay /\ IToken /\ IKey /\ IProbes
  BY Parts
<1>2. /\ probes' = <<>> /\ login' = [a \in Accounts |-> NoLogin]
      /\ account' = [a \in Accounts |->
           [account[a] EXCEPT !.job = IF @ = "running" THEN "pending" ELSE @]]
      /\ pairing' = "none" /\ undoing' = {} /\ deleting' = "none"
      /\ UNCHANGED <<routes, default, tunnel, token, key>>
  BY DEF Restart
<1>3. ASSUME NEW a \in Accounts
      PROVE  /\ account'[a] \in AccountRow /\ account'[a].route = account[a].route
             /\ account'[a].active = account[a].active
             /\ account'[a].certified = account[a].certified
  <2>1. PICK x \in AccountRow : x = account[a]
    BY <1>1 DEF IAccounts, ITables
  <2>2. PICK j \in {"none", "pending", "running"} :
          j = IF x.job = "running" THEN "pending" ELSE x.job
    BY DEF AccountRow
  <2>3. PICK y : y = [x EXCEPT !.job = j]
    OBVIOUS
  <2>4. /\ y \in AccountRow /\ y.route = x.route /\ y.active = x.active
        /\ y.certified = x.certified
    BY <2>3 DEF AccountRow
  <2>5. account'[a] = y
    BY <1>2, <2>1, <2>2, <2>3
  <2> QED
    BY <2>1, <2>4, <2>5
<1>4. account' \in [Accounts -> AccountRow]
  BY <1>2, <1>3
<1>5. \A a \in Accounts : /\ login'[a] \in Login /\ login'[a].via = Nobody
                          /\ login'[a].truly
  BY <1>2, NoLoginTyped
<1>6. login' \in [Accounts -> Login]
  BY <1>2, <1>5
<1>7. /\ probes' \in Seq(Probe) /\ Len(probes') = 0 /\ DOMAIN probes' = {}
      /\ Len(probes) \in Nat /\ MaxProbes \in Nat
  BY <1>1, <1>2, EmptySeq, LenProperties, RoutesAssumption DEF IAccounts, ITables
<1>8. \A r \in Routes : (InUse(r)' <=> InUse(r)) /\ (Exists(r)' <=> Exists(r))
  BY <1>2, <1>3 DEF InUse, Exists
<1>9. IAccounts'
  <2>1. ITables'
    BY <1>1, <1>2, <1>4, <1>6, <1>7, <1>8 DEF IAccounts, ITables
  <2>2. ILogins' /\ ActiveIsCertified'
    BY <1>1, <1>2, <1>3, <1>5
       DEF IAccounts, ILogins, ActiveIsCertified, Effective
  <2> QED
    BY <2>1, <2>2 DEF IAccounts
<1>10. IToken'
  BY <1>1, <1>2, <1>5, <1>8, RoutesAssumption DEF IToken, Unlocked, Installing
<1>11. \A r \in Routes : (Shown(r)' <=> Shown(r)) /\ Sees(r)'
  BY <1>2, <1>7 DEF Shown, Sees
<1>12. (deleting = "revoked" \/ ~Exists(Home))' =>
         /\ Tracked => key' = "none"
         /\ key' = "none" => ~tunnel'
  BY <1>1, <1>2, <1>8, RoutesAssumption DEF IKey
<1>13. \A r \in Routes \ {Home} : Shown(r)' /\ Sees(r)'
  BY <1>1, <1>11 DEF IProbes, Settled
<1>14. mishaps = {} /\ new = {} => Shown(Home)' /\ Sees(Home)'
  BY <1>1, <1>11, RoutesAssumption DEF IProbes, Settled
<1> QED
  BY <1>1, <1>2, <1>9, <1>10, <1>12, <1>13, <1>14
     DEF Upholds, IRelay, Unlocked

-----------------------------------------------------------------------------
(* The invariant *)

LEMMA Begins == Init => IInv
<1> SUFFICES ASSUME Init PROVE IInv
  OBVIOUS
<1>1. PICK row : row = [NewRoute EXCEPT !.state = "absent"]
  OBVIOUS
<1>2. row \in Route /\ row.state = "absent" /\ ~row.online
  BY <1>1 DEF NewRoute, Route
<1>3. PICK x : x = [route |-> Inherit, active |-> FALSE,
                    job |-> "pending", certified |-> Nobody]
  OBVIOUS
<1>4. x \in AccountRow /\ ~x.active /\ x.route = Inherit
  BY <1>3 DEF AccountRow
<1>5. /\ routes = [r \in Routes |-> row] /\ account = [a \in Accounts |-> x]
      /\ login = [a \in Accounts |-> NoLogin] /\ default = Direct
      /\ probes = <<>> /\ tunnel = FALSE
      /\ token = "none" /\ key = "none" /\ pairing = "none"
      /\ undoing = {} /\ deleting = "none" /\ mishaps = {}
  BY <1>1, <1>3 DEF Init
<1>6. probes \in Seq(Probe) /\ Len(probes) = 0 /\ DOMAIN probes = {}
  BY <1>5, EmptySeq
<1>7. \A r \in Routes : ~InUse(r) /\ ~Exists(r) /\ ~routes[r].online
  BY <1>2, <1>4, <1>5, RoutesAssumption DEF InUse, Exists
<1>8. RoutesTypeOK
  <2>1. Len(probes) <= MaxProbes
    BY <1>6, RoutesAssumption
  <2> QED
    BY <1>2, <1>4, <1>5, <1>6, <1>7, <2>1, NoLoginTyped DEF RoutesTypeOK
<1>9. ILogins /\ ActiveIsCertified
  BY <1>4, <1>5, NoLoginTyped DEF ILogins, ActiveIsCertified
<1>10. IToken /\ IKey
  BY <1>5, <1>7 DEF IToken, IKey, Unlocked, Installing
<1>11. IProbes
  BY <1>5, <1>6, <1>7 DEF IProbes, Shown, Sees
<1> QED
  BY <1>8, <1>9, <1>10, <1>11 DEF IInv, ISound

LEMMA NextKeeps == IInv /\ Next => IInv'
<1> SUFFICES ASSUME IInv, Next PROVE IInv'
  OBVIOUS
<1>1. PICK seen \in SUBSET {"cut", "overtaken"} :
        seen = IF Overtakes THEN {"overtaken"} ELSE {}
  OBVIOUS
<1>2. Noted(seen)
  BY <1>1 DEF Noted
<1>3. ASSUME \/ RoutesNext(Unlocked)
                /\ UNCHANGED <<token, key, pairing, undoing, deleting>>
             \/ SetupCreates \/ TokenExpires \/ EnrollInstalls \/ EnrollRefused
             \/ DeleteDisables \/ DeleteEnds \/ UndoMarks(TRUE)
             \/ \E ok \in BOOLEAN :
                  \/ SetupRevokes(ok) \/ SetupCommits(ok) \/ EnrollCommits(ok)
                  \/ UndoRevokes(ok) \/ DeleteRevokes(ok) \/ Connect(ok),
             Records(IF Overtakes THEN {"overtaken"} ELSE {})
      PROVE  IInv'
  <2>1. CASE RoutesNext(Unlocked)
             /\ UNCHANGED <<token, key, pairing, undoing, deleting>>
    <3>1. Upholds(seen)
      BY <1>2, <2>1, RoutesUphold
    <3> QED
      BY <1>1, <1>3, <3>1, UpheldKeeps
  <2>2. CASE \/ SetupCreates \/ TokenExpires \/ EnrollInstalls \/ EnrollRefused
             \/ DeleteDisables \/ DeleteEnds
    <3>1. Upholds(seen)
      BY <1>2, <2>2, SetupCreatesUpholds, QuietUpholds, EnrollInstallsUpholds,
         EnrollRefusedUpholds, DeleteDisablesUpholds, DeleteEndsUpholds
    <3> QED
      BY <1>1, <1>3, <3>1, UpheldKeeps
  <2>3. CASE UndoMarks(TRUE)
    <3>1. PICK ok \in BOOLEAN : ok /\ UndoMarks(ok)
      BY <2>3
    <3>2. Upholds(seen)
      BY <3>1, UndoMarksUpholds
    <3> QED
      BY <1>1, <1>3, <3>2, UpheldKeeps
  <2>4. ASSUME NEW ok \in BOOLEAN,
               \/ SetupRevokes(ok) \/ SetupCommits(ok) \/ EnrollCommits(ok)
               \/ UndoRevokes(ok) \/ DeleteRevokes(ok) \/ Connect(ok)
        PROVE  IInv'
    <3>1. Upholds(seen)
      BY <1>2, <2>4, SetupRevokesUpholds, SetupCommitsUpholds,
         EnrollCommitsUpholds, UndoRevokesUpholds, DeleteRevokesUpholds, QuietUpholds
    <3> QED
      BY <1>1, <1>3, <3>1, UpheldKeeps
  <2> QED
    BY <1>3, <2>1, <2>2, <2>3, <2>4
<1>4. CASE UndoMarks(FALSE) /\ Records({"cut"})
  <2>1. PICK ok \in BOOLEAN : UndoMarks(ok)
    BY <1>4
  <2>2. PICK new \in SUBSET {"cut", "overtaken"} : new = {"cut"}
    OBVIOUS
  <2>3. Upholds(new)
    BY <2>1, <2>2, UndoMarksUpholds
  <2>4. Records(new)
    BY <1>4, <2>2
  <2> QED
    BY <2>3, <2>4, UpheldKeeps
<1>5. CASE Restart /\ Records(IF Unlocked /\ undoing = {} /\ deleting = "none"
                              THEN {} ELSE {"cut"})
  <2>1. PICK new \in SUBSET {"cut", "overtaken"} :
          new = IF Unlocked /\ undoing = {} /\ deleting = "none" THEN {} ELSE {"cut"}
    OBVIOUS
  <2>2. Upholds(new)
    BY <1>5, <2>1, RestartUpholds
  <2>3. Records(new)
    BY <1>5, <2>1
  <2> QED
    BY <2>2, <2>3, UpheldKeeps
<1> QED
  BY <1>3, <1>4, <1>5 DEF Next

LEMMA StutterKeeps == IInv /\ UNCHANGED <<routeVars, relayVars>> => IInv'
<1> SUFFICES ASSUME IInv, UNCHANGED <<routeVars, relayVars>> PROVE IInv'
  OBVIOUS
<1>1. /\ UNCHANGED <<routes, default, account, login, probes, tunnel>>
      /\ UNCHANGED <<token, key, pairing, undoing, deleting, mishaps>>
  BY DEF routeVars, relayVars
<1>2. RoutesTypeOK' /\ ActiveIsCertified' /\ ILogins'
  BY <1>1 DEF IInv, ISound, RoutesTypeOK, ActiveIsCertified, ILogins,
     Effective, InUse, Exists
<1>3. IToken' /\ IKey'
  BY <1>1 DEF IInv, ISound, IToken, IKey, Unlocked, Installing, InUse, Exists, Tracked
<1>4. IProbes'
  BY <1>1 DEF IInv, ISound, IProbes, Settled, Unlocked, Shown, Sees, Silent, Tracked
<1> QED
  BY <1>2, <1>3, <1>4 DEF IInv, ISound

THEOREM RoutesSound == Spec => []IInv
<1>1. IInv /\ [Next]_<<routeVars, relayVars>> => IInv'
  BY NextKeeps, StutterKeeps
<1> QED
  BY Begins, <1>1, PTL DEF Spec

-----------------------------------------------------------------------------
(* What the runs check *)

\* proxy_routes.py: rows, snapshots and pairings keep their shape, and no
\* account or default refers to a route that does not exist.
THEOREM RoutesTyped == Spec => []RoutesTypeOK
<1>1. IInv => RoutesTypeOK
  BY DEF IInv
<1> QED
  BY RoutesSound, <1>1, PTL

\* publish_proxy_probe_result and mark_proxy_route_offline: a route offered to
\* logins was reached through the transport it has now, and no failure came
\* after, whatever was edited or paired while probes were in flight.
THEOREM OnlyProvenOffered == Spec => []OnlineIsProven
<1>1. IInv => OnlineIsProven
  BY DEF IInv, ISound, IProbes, OnlineIsProven, Selectable, Shown
<1> QED
  BY RoutesSound, <1>1, PTL

\* assert_proxy_selection_unchanged and _queue_accounts_after_route_change: an
\* account for sale was checked over the very route and transport that it has.
THEOREM ActiveCertified == Spec => []ActiveIsCertified
<1>1. IInv => ActiveIsCertified
  BY DEF IInv, ISound
<1> QED
  BY RoutesSound, <1>1, PTL

\* delete_proxy_route and the compensations of a pairing: no key that opens the
\* relay is left without its row, unless an enrollment overtook the deletion.
THEOREM KeyShown == Spec => []KeyHasRoute
<1>1. IInv => KeyHasRoute
  BY DEF IInv, ISound, IKey, KeyHasRoute, Tracked
<1> QED
  BY RoutesSound, <1>1, PTL
=============================================================================
