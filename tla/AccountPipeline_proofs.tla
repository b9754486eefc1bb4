----------------------- MODULE AccountPipeline_proofs -----------------------
(***************************************************************************)
(* The account side for every value of the constants: types and the budget *)
(* of a recovery; the operator's suspension and the evidence of a device   *)
(* login; and, as long as no worker has outlived its lease, that an        *)
(* account has one login at a time and that no unproven or waiting account *)
(* is forgotten.                                                           *)
(***************************************************************************)
EXTENDS AccountPipeline, FiniteSetTheorems, TLAPS

Limits == [refresh : {"none", "ok", "expired"}, attempts : Nat]
Work == [acct : Accounts \cup {NoAccount}, type : WorkerTypes,
         scheduled : BOOLEAN, row : Row]
Login == [at : {"none", "pending", "polling"}, status : RowStatus, rerun : BOOLEAN]
Holders == Workers \cup {Device}

ITypes ==
    /\ acct \in [Accounts -> Row] /\ limits \in [Accounts -> Limits]
    /\ job \in [Accounts -> Job]
    /\ evidence \in [Accounts -> {"none", "linked", "blocked"}]
    /\ proven \in [Accounts -> BOOLEAN]
    /\ readers \in [Accounts -> SUBSET Holders]
    /\ busy \subseteq Accounts
    /\ worker \in [Workers -> Work] /\ device \in [Accounts -> Login]
    /\ stalls \in 0..MaxStalls

-----------------------------------------------------------------------------
(* What the operators return                                               *)

LEMMA NewTyped ==
    ASSUME NEW p \in Priority, NEW t \in JobType
    PROVE  LET n == NewJob(p, t)
           IN /\ n \in Job /\ n.type = t /\ n.prio = p /\ n.live
              /\ n.status = "pending" /\ n.holders = {}
BY DEF NewJob, Job

LEMMA OverTyped ==
    ASSUME NEW j \in Job
    PROVE  Over(j) \in Job /\ Over(j).status = "ended" /\ Over(j).holders = j.holders
<1>1. PICK n \in Job : n = NewJob("new", "full_validation")
  BY NewTyped DEF Priority, JobType
<1>2. Over(j) = [n EXCEPT !.status = "ended", !.holders = j.holders]
  BY <1>1 DEF Over
<1> QED
  BY <1>2 DEF Job

\* the queue never replaces a running job, and it ends with one that is active
LEMMA EnqueuedTyped ==
    ASSUME NEW j \in Job, NEW p \in Priority, NEW t \in JobType
    PROVE  /\ Enqueued(j, p, t) \in Job
           /\ Enqueued(j, p, t).status \in {"pending", "running"}
           /\ \/ Enqueued(j, p, t) = j
              \/ j.status # "running" /\ Enqueued(j, p, t) = NewJob(p, t)
           /\ j.status = "ended" => Enqueued(j, p, t) = NewJob(p, t)
BY NewTyped DEF Enqueued, Keeps, Job

LEMMA StatusTyped ==
    ASSUME NEW r \in Row, NEW s \in RowStatus
    PROVE  Status(r, s) \in RowStatus /\ (r.suspended => Status(r, s) = "suspended")
                                      /\ (~r.suspended => Status(r, s) = s)
BY DEF Status, RowStatus

LEMMA RowTyped ==
    ASSUME NEW r \in Row, NEW s \in RowStatus, NEW b \in BOOLEAN, NEW d \in BOOLEAN
    PROVE  LET n == [r EXCEPT !.status = s, !.rerun = b]
               m == [r EXCEPT !.suspended = d, !.status = s]
               k == [r EXCEPT !.status = s]
           IN /\ n \in Row /\ n.status = s /\ n.rerun = b /\ n.suspended = r.suspended
              /\ m \in Row /\ m.status = s /\ m.suspended = d /\ m.rerun = r.rerun
              /\ k \in Row /\ k.status = s /\ k.suspended = r.suspended
              /\ k.rerun = r.rerun
<1> DEFINE n == [r EXCEPT !.status = s, !.rerun = b]
           m == [r EXCEPT !.suspended = d, !.status = s]
           k == [r EXCEPT !.status = s]
<1>1. n \in Row /\ n.status = s /\ n.rerun = b /\ n.suspended = r.suspended
  BY DEF Row
<1>2. m \in Row /\ m.status = s /\ m.suspended = d /\ m.rerun = r.rerun
  BY DEF Row
<1>3. k \in Row /\ k.status = s /\ k.suspended = r.suspended /\ k.rerun = r.rerun
  BY DEF Row
<1> QED
  BY <1>1, <1>2, <1>3

-----------------------------------------------------------------------------
(* Every step but a restart is about one account: what it leaves alone, and *)
(* what it makes of the account's rows.                                     *)

Local(a) ==
    /\ \A b \in Accounts \ {a} :
         /\ acct'[b] = acct[b] /\ limits'[b] = limits[b] /\ job'[b] = job[b]
         /\ evidence'[b] = evidence[b] /\ proven'[b] = proven[b]
         /\ readers'[b] = readers[b] /\ device'[b] = device[b]
         /\ b \in busy' <=> b \in busy
    /\ \A w \in Workers :
         worker'[w] = worker[w]
         \/ (worker[w].acct \in {a, NoAccount} /\ worker'[w].acct \in {a, NoAccount})
    /\ stalls' >= stalls

RowIs(a, status, suspended, rerun) ==
    acct'[a].status = status /\ acct'[a].suspended = suspended
                             /\ acct'[a].rerun = rerun
\* a job that nobody holds yet
Fresh(j, type) ==
    j.status = "pending" /\ j.holders = {} /\ j.live /\ j.type = type
\* what the queue makes of a job
Queued(a, type) ==
    /\ job'[a].status \in {"pending", "running"}
    /\ \/ job'[a] = job[a]
       \/ job[a].status # "running" /\ Fresh(job'[a], type)
\* no worker comes or goes
SameWork == UNCHANGED <<worker, stalls>>

LEMMA EnqueueEffect ==
    ASSUME ITypes, NEW a \in Accounts, NEW p \in Priority, NEW t \in JobType,
           Enqueue(a, p, t)
    PROVE  /\ job' \in [Accounts -> Job]
           /\ evidence' \in [Accounts -> {"none", "linked", "blocked"}]
           /\ \A b \in Accounts \ {a} : job'[b] = job[b] /\ evidence'[b] = evidence[b]
           /\ Queued(a, t) /\ evidence'[a] \in {"none", evidence[a]}
           /\ job'[a] = Enqueued(job[a], p, t)
           /\ evidence'[a] = EvidenceAfter(a, job'[a])
<1> DEFINE j == Enqueued(job[a], p, t)
<1>1. job[a] \in Job
  BY DEF ITypes
<1>2. /\ j \in Job /\ j.status \in {"pending", "running"}
      /\ j = job[a] \/ (job[a].status # "running" /\ j = NewJob(p, t))
  BY <1>1, EnqueuedTyped
<1>3. job' = [job EXCEPT ![a] = j] /\ evidence' = [evidence EXCEPT ![a] = EvidenceAfter(a, j)]
  BY DEF Enqueue
<1>4. EvidenceAfter(a, j) \in {"none", evidence[a]}
  BY DEF EvidenceAfter
<1> HIDE DEF j
<1>5. job' \in [Accounts -> Job] /\ job'[a] = j
      /\ \A b \in Accounts \ {a} : job'[b] = job[b]
  BY <1>2, <1>3 DEF ITypes
<1>6. evidence' \in [Accounts -> {"none", "linked", "blocked"}]
      /\ evidence'[a] = EvidenceAfter(a, j)
      /\ \A b \in Accounts \ {a} : evidence'[b] = evidence[b]
  BY <1>3, <1>4 DEF ITypes
<1>7. Queued(a, t)
  BY <1>2, <1>5, NewTyped DEF Queued, Fresh
<1> QED
  BY <1>4, <1>5, <1>6, <1>7 DEF j

LEMMA SweepEffect ==
    ASSUME ITypes, NEW a \in Accounts,
           QueueLimitCheck(a) \/ QueueScheduled(a) \/ QueueRecovery(a)
    PROVE  /\ ITypes' /\ Local(a) /\ SameWork
           /\ UNCHANGED <<acct, limits, proven, readers, busy, device>>
           /\ evidence'[a] \in {"none", evidence[a]}
           /\ \/ Queued(a, "limit_check") /\ limits[a].refresh = "ok" /\ a \notin busy
                 /\ job'[a] = Enqueued(job[a], "limit_check", "limit_check")
              \/ Queued(a, "full_validation") /\ acct[a].status = "active"
              \/ Queued(a, "refresh_recover") /\ limits[a].refresh = "expired"
<1>1. UNCHANGED <<acct, limits, proven, readers, busy, device, worker, stalls>>
  BY DEF QueueLimitCheck, QueueScheduled, QueueRecovery
<1>2. /\ {"limit_check", "scheduled", "refresh_recover"} \subseteq Priority
      /\ {"limit_check", "full_validation", "refresh_recover"} \subseteq JobType
  BY DEF Priority, JobType
<1>3. \/ Enqueue(a, "limit_check", "limit_check") /\ limits[a].refresh = "ok"
         /\ a \notin busy
      \/ Enqueue(a, "scheduled", "full_validation") /\ acct[a].status = "active"
      \/ Enqueue(a, "refresh_recover", "refresh_recover")
         /\ limits[a].refresh = "expired"
  BY DEF QueueLimitCheck, QueueScheduled, QueueRecovery
<1>4. /\ job' \in [Accounts -> Job]
      /\ evidence' \in [Accounts -> {"none", "linked", "blocked"}]
      /\ \A b \in Accounts \ {a} : job'[b] = job[b] /\ evidence'[b] = evidence[b]
      /\ evidence'[a] \in {"none", evidence[a]}
  BY <1>2, <1>3, EnqueueEffect
<1>5. ITypes'
  BY <1>1, <1>4 DEF ITypes
<1>6. Local(a)
  BY <1>1, <1>4 DEF Local, ITypes
<1> QED
  BY <1>1, <1>2, <1>3, <1>4, <1>5, <1>6, EnqueueEffect DEF SameWork

LEMMA RecoverStaleEffect ==
    ASSUME ITypes, NEW a \in Accounts, RecoverStale(a)
    PROVE  /\ ITypes' /\ Local(a) /\ SameWork
           /\ UNCHANGED <<acct, limits, evidence, proven, readers, busy, device>>
           /\ job[a].status = "running" /\ ~job[a].live /\ job[a].type \in WorkerTypes
           /\ job'[a].status = "pending" /\ job'[a].type = job[a].type
           /\ job'[a].holders = job[a].holders
<1>1. PICK x \in Job : x = job[a]
  BY DEF ITypes
<1>2. PICK y : y = [x EXCEPT !.status = "pending", !.live = TRUE]
  OBVIOUS
<1>3. y \in Job /\ y.status = "pending" /\ y.type = x.type /\ y.holders = x.holders
  BY <1>2 DEF Job
<1>4. job' = [job EXCEPT ![a] = y]
  BY <1>1, <1>2 DEF RecoverStale, ITypes
<1>5. job' \in [Accounts -> Job] /\ job'[a] = y
      /\ \A b \in Accounts \ {a} : job'[b] = job[b]
  BY <1>3, <1>4 DEF ITypes
<1>6. UNCHANGED <<acct, limits, evidence, proven, readers, busy, device, worker, stalls>>
  BY DEF RecoverStale
<1>7. ITypes'
  BY <1>5, <1>6 DEF ITypes
<1>8. Local(a)
  BY <1>5, <1>6 DEF Local, ITypes
<1> QED
  BY <1>1, <1>3, <1>5, <1>6, <1>7, <1>8 DEF SameWork, RecoverStale, Running

\* the row of one account is written
LEMMA RowWritten ==
    ASSUME ITypes, NEW a \in Accounts, NEW r \in Row, acct' = [acct EXCEPT ![a] = r]
    PROVE  acct' \in [Accounts -> Row] /\ acct'[a] = r
           /\ \A b \in Accounts \ {a} : acct'[b] = acct[b]
BY DEF ITypes
LEMMA JobWritten ==
    ASSUME ITypes, NEW a \in Accounts, NEW j \in Job, job' = [job EXCEPT ![a] = j]
    PROVE  job' \in [Accounts -> Job] /\ job'[a] = j
           /\ \A b \in Accounts \ {a} : job'[b] = job[b]
BY DEF ITypes
LEMMA EvidenceWritten ==
    ASSUME ITypes, NEW a \in Accounts, NEW e \in {"none", "linked", "blocked"},
           evidence' = [evidence EXCEPT ![a] = e]
    PROVE  evidence' \in [Accounts -> {"none", "linked", "blocked"}]
           /\ evidence'[a] = e /\ \A b \in Accounts \ {a} : evidence'[b] = evidence[b]
BY DEF ITypes
LEMMA LimitsWritten ==
    ASSUME ITypes, NEW a \in Accounts, NEW l \in Limits, limits' = [limits EXCEPT ![a] = l]
    PROVE  limits' \in [Accounts -> Limits] /\ limits'[a] = l
           /\ \A b \in Accounts \ {a} : limits'[b] = limits[b]
BY DEF ITypes
LEMMA ProvenWritten ==
    ASSUME ITypes, NEW a \in Accounts, NEW b \in BOOLEAN, proven' = [proven EXCEPT ![a] = b]
    PROVE  proven' \in [Accounts -> BOOLEAN] /\ (proven'[a] <=> b)
           /\ \A c \in Accounts \ {a} : proven'[c] = proven[c]
BY DEF ITypes
LEMMA ReadersWritten ==
    ASSUME ITypes, NEW a \in Accounts, NEW s \in SUBSET Holders,
           readers' = [readers EXCEPT ![a] = s]
    PROVE  readers' \in [Accounts -> SUBSET Holders] /\ readers'[a] = s
           /\ \A b \in Accounts \ {a} : readers'[b] = readers[b]
BY DEF ITypes
LEMMA DeviceWritten ==
    ASSUME ITypes, NEW a \in Accounts, NEW d \in Login, device' = [device EXCEPT ![a] = d]
    PROVE  device' \in [Accounts -> Login] /\ device'[a] = d
           /\ \A b \in Accounts \ {a} : device'[b] = device[b]
BY DEF ITypes

\* the operator's endpoints
LEMMA ExclusiveEffect ==
    ASSUME ITypes, NEW a \in Accounts, NEW p \in Priority, NEW t \in JobType,
           Exclusive(a, p, t)
    PROVE  /\ job' \in [Accounts -> Job] /\ Fresh(job'[a], t)
           /\ evidence' \in [Accounts -> {"none", "linked", "blocked"}]
           /\ evidence'[a] = "none"
           /\ \A b \in Accounts \ {a} : job'[b] = job[b] /\ evidence'[b] = evidence[b]
<1>1. PICK n \in Job : n = NewJob(p, t) /\ Fresh(n, t)
  BY NewTyped DEF Fresh
<1>2. job' = [job EXCEPT ![a] = n] /\ evidence' = [evidence EXCEPT ![a] = "none"]
  BY <1>1 DEF Exclusive
<1> QED
  BY <1>1, <1>2, JobWritten, EvidenceWritten

LEMMA RecheckEffect ==
    ASSUME ITypes, NEW a \in Accounts, Recheck(a)
    PROVE  /\ ITypes' /\ Local(a) /\ SameWork
           /\ UNCHANGED <<limits, proven, readers, busy, device>>
           /\ a \notin busy /\ ~Leased(a) /\ Fresh(job'[a], "full_validation")
           /\ RowIs(a, "pending_validation", FALSE, acct[a].rerun)
           /\ evidence'[a] = "none"
<1>0. PICK x \in Row : x = acct[a]
  BY DEF ITypes
<1>1. PICK r : r = [x EXCEPT !.suspended = FALSE, !.status = "pending_validation"]
  OBVIOUS
<1>2. /\ r \in Row /\ r.status = "pending_validation" /\ ~r.suspended
      /\ r.rerun = acct[a].rerun
  BY <1>0, <1>1 DEF Row, RowStatus
<1>3. acct' = [acct EXCEPT ![a] = r]
  BY <1>0, <1>1 DEF Recheck, ITypes
<1>4. acct' \in [Accounts -> Row] /\ acct'[a] = r
      /\ \A b \in Accounts \ {a} : acct'[b] = acct[b]
  BY <1>2, <1>3, RowWritten
<1>5. UNCHANGED <<limits, proven, readers, busy, device, worker, stalls>>
      /\ a \notin busy /\ ~Leased(a)
  BY DEF Recheck
<1>6. /\ job' \in [Accounts -> Job] /\ Fresh(job'[a], "full_validation")
      /\ evidence' \in [Accounts -> {"none", "linked", "blocked"}]
      /\ evidence'[a] = "none"
      /\ \A b \in Accounts \ {a} : job'[b] = job[b] /\ evidence'[b] = evidence[b]
  BY ExclusiveEffect DEF Recheck, Priority, JobType
<1>7. ITypes'
  BY <1>4, <1>5, <1>6 DEF ITypes
<1>8. Local(a)
  BY <1>4, <1>5, <1>6 DEF Local, ITypes
<1> QED
  BY <1>2, <1>4, <1>5, <1>6, <1>7, <1>8 DEF SameWork, RowIs

LEMMA EditEffect ==
    ASSUME ITypes, NEW a \in Accounts, EditCredentials(a)
    PROVE  /\ ITypes' /\ Local(a) /\ SameWork
           /\ UNCHANGED <<limits, busy, device>>
           /\ a \notin busy
           /\ IF Leased(a) THEN job'[a] = job[a] ELSE Fresh(job'[a], "full_validation")
           /\ RowIs(a, "pending_validation", FALSE, Leased(a))
           /\ evidence'[a] = "none" /\ readers'[a] = {} /\ ~proven'[a]
<1>1. PICK n \in Job : n = NewJob("manual", "full_validation")
                       /\ Fresh(n, "full_validation")
  BY NewTyped DEF Fresh, Priority, JobType
<1>2. PICK j \in Job : j = IF Leased(a) THEN job[a] ELSE n
  BY DEF ITypes
<1>3. job' = [job EXCEPT ![a] = j]
  BY <1>1, <1>2 DEF EditCredentials
<1>4. PICK b \in BOOLEAN : b = Leased(a)
  BY DEF Leased, Running, ITypes, Job
<1>5. PICK r : r = [status |-> "pending_validation", suspended |-> FALSE, rerun |-> b]
  OBVIOUS
<1>6. r \in Row /\ r.status = "pending_validation" /\ ~r.suspended /\ r.rerun = b
  BY <1>5 DEF Row, RowStatus
<1>7. /\ acct' = [acct EXCEPT ![a] = r] /\ evidence' = [evidence EXCEPT ![a] = "none"]
      /\ proven' = [proven EXCEPT ![a] = FALSE] /\ readers' = [readers EXCEPT ![a] = {}]
      /\ UNCHANGED <<limits, busy, worker, device, stalls>> /\ a \notin busy
  BY <1>4, <1>5 DEF EditCredentials, EditedEvidence
<1>8. acct' \in [Accounts -> Row] /\ acct'[a] = r
      /\ \A c \in Accounts \ {a} : acct'[c] = acct[c]
  BY <1>6, <1>7, RowWritten
<1>9. job' \in [Accounts -> Job] /\ job'[a] = j
      /\ \A c \in Accounts \ {a} : job'[c] = job[c]
  BY <1>3, JobWritten
<1>10. evidence' \in [Accounts -> {"none", "linked", "blocked"}]
       /\ evidence'[a] = "none"
       /\ \A c \in Accounts \ {a} : evidence'[c] = evidence[c]
  BY <1>7, EvidenceWritten
<1>11. proven' \in [Accounts -> BOOLEAN] /\ ~proven'[a]
       /\ \A c \in Accounts \ {a} : proven'[c] = proven[c]
  BY <1>7, ProvenWritten
<1>12. readers' \in [Accounts -> SUBSET Holders] /\ readers'[a] = {}
       /\ \A c \in Accounts \ {a} : readers'[c] = readers[c]
  BY <1>7, ReadersWritten
<1>13. ITypes'
  BY <1>7, <1>8, <1>9, <1>10, <1>11, <1>12 DEF ITypes
<1>14. Local(a)
  BY <1>7, <1>8, <1>9, <1>10, <1>11, <1>12 DEF Local, ITypes
<1> QED
  BY <1>1, <1>2, <1>4, <1>6, <1>7, <1>8, <1>9, <1>10, <1>11, <1>12, <1>13, <1>14
     DEF SameWork, RowIs

LEMMA RouteEffect ==
    ASSUME ITypes, NEW a \in Accounts, ChangeRoute(a)
    PROVE  /\ ITypes' /\ Local(a) /\ SameWork
           /\ UNCHANGED <<limits, busy, device>>
           /\ a \notin busy /\ ~Active(a) /\ Fresh(job'[a], "full_validation")
           /\ RowIs(a, Status(acct[a], "pending_validation"), acct[a].suspended, FALSE)
           /\ evidence'[a] = "none" /\ readers'[a] = {} /\ ~proven'[a]
<1>1. acct[a] \in Row /\ job[a] \in Job
  BY DEF ITypes
<1>2. PICK s \in RowStatus : s = Status(acct[a], "pending_validation")
  BY <1>1, StatusTyped DEF RowStatus
<1>3. PICK r : r = [acct[a] EXCEPT !.status = s, !.rerun = FALSE]
  OBVIOUS
<1>4. r \in Row /\ r.status = s /\ r.suspended = acct[a].suspended /\ ~r.rerun
  BY <1>1, <1>3, RowTyped
<1>5. acct' = [acct EXCEPT ![a] = r]
  BY <1>2, <1>3 DEF ChangeRoute, ITypes
<1>6. acct' \in [Accounts -> Row] /\ acct'[a] = r
      /\ \A b \in Accounts \ {a} : acct'[b] = acct[b]
  BY <1>4, <1>5, RowWritten
<1>7. /\ proven' = [proven EXCEPT ![a] = FALSE] /\ readers' = [readers EXCEPT ![a] = {}]
      /\ UNCHANGED <<limits, busy, worker, device, stalls>> /\ a \notin busy
      /\ ~Active(a) /\ Enqueue(a, "manual", "full_validation")
  BY DEF ChangeRoute
<1>8. "manual" \in Priority /\ "full_validation" \in JobType
  BY DEF Priority, JobType
<1>9. /\ job' \in [Accounts -> Job]
      /\ evidence' \in [Accounts -> {"none", "linked", "blocked"}]
      /\ \A b \in Accounts \ {a} : job'[b] = job[b] /\ evidence'[b] = evidence[b]
      /\ job'[a] = Enqueued(job[a], "manual", "full_validation")
      /\ evidence'[a] = EvidenceAfter(a, job'[a])
  BY <1>7, <1>8, EnqueueEffect
<1>10. job[a].status = "ended"
  BY <1>1, <1>7 DEF Active, Job
<1>11. job'[a] = NewJob("manual", "full_validation") /\ Fresh(job'[a], "full_validation")
  BY <1>1, <1>8, <1>9, <1>10, EnqueuedTyped, NewTyped DEF Fresh
<1>12. evidence'[a] = "none"
  BY <1>9, <1>10, <1>11 DEF EvidenceAfter, Fresh
<1>13. proven' \in [Accounts -> BOOLEAN] /\ ~proven'[a]
       /\ \A c \in Accounts \ {a} : proven'[c] = proven[c]
  BY <1>7, ProvenWritten
<1>14. readers' \in [Accounts -> SUBSET Holders] /\ readers'[a] = {}
       /\ \A c \in Accounts \ {a} : readers'[c] = readers[c]
  BY <1>7, ReadersWritten
<1>15. ITypes'
  BY <1>6, <1>7, <1>9, <1>13, <1>14 DEF ITypes
<1>16. Local(a)
  BY <1>6, <1>7, <1>9, <1>13, <1>14 DEF Local, ITypes
<1> QED
  BY <1>2, <1>4, <1>6, <1>7, <1>11, <1>12, <1>13, <1>14, <1>15, <1>16
     DEF SameWork, RowIs

LEMMA SuspendEffect ==
    ASSUME ITypes, NEW a \in Accounts, Suspend(a)
    PROVE  /\ ITypes' /\ Local(a) /\ SameWork
           /\ UNCHANGED <<limits, job, evidence, proven, readers, busy, device>>
           /\ RowIs(a, "suspended", TRUE, acct[a].rerun)
<1>0. PICK x \in Row : x = acct[a]
  BY DEF ITypes
<1>1. PICK r : r = [x EXCEPT !.suspended = TRUE, !.status = "suspended"]
  OBVIOUS
<1>2. /\ r \in Row /\ r.status = "suspended" /\ r.suspended /\ r.rerun = acct[a].rerun
  BY <1>0, <1>1 DEF Row, RowStatus
<1>3. acct' = [acct EXCEPT ![a] = r]
  BY <1>0, <1>1 DEF Suspend, ITypes
<1>4. acct' \in [Accounts -> Row] /\ acct'[a] = r
      /\ \A b \in Accounts \ {a} : acct'[b] = acct[b]
  BY <1>2, <1>3, RowWritten
<1>5. UNCHANGED <<limits, job, evidence, proven, readers, busy, device, worker, stalls>>
  BY DEF Suspend
<1>6. ITypes'
  BY <1>4, <1>5 DEF ITypes
<1>7. Local(a)
  BY <1>4, <1>5 DEF Local, ITypes
<1> QED
  BY <1>2, <1>4, <1>5, <1>6, <1>7 DEF SameWork, RowIs

LEMMA ConfirmEffect ==
    ASSUME ITypes, NEW a \in Accounts, ConfirmByHand(a)
    PROVE  /\ ITypes' /\ Local(a) /\ SameWork
           /\ UNCHANGED <<limits, job, evidence, readers, busy, device>>
           /\ RowIs(a, "active", FALSE, FALSE) /\ proven'[a] /\ ~Active(a)
<1>0. PICK x \in Row : x = acct[a]
  BY DEF ITypes
<1>1. PICK r : r = [x EXCEPT !.status = "active"]
  OBVIOUS
<1>2. /\ r \in Row /\ r.status = "active" /\ r.suspended = acct[a].suspended
      /\ r.rerun = acct[a].rerun
  BY <1>0, <1>1 DEF Row, RowStatus
<1>3. acct' = [acct EXCEPT ![a] = r] /\ proven' = [proven EXCEPT ![a] = TRUE]
      /\ UNCHANGED <<limits, job, evidence, readers, busy, worker, device, stalls>>
      /\ ~acct[a].suspended /\ ~acct[a].rerun /\ ~Active(a)
  BY <1>0, <1>1 DEF ConfirmByHand, Confirmable, ITypes
<1>4. acct' \in [Accounts -> Row] /\ acct'[a] = r
      /\ \A b \in Accounts \ {a} : acct'[b] = acct[b]
  BY <1>2, <1>3, RowWritten
<1>5. proven' \in [Accounts -> BOOLEAN] /\ proven'[a]
      /\ \A c \in Accounts \ {a} : proven'[c] = proven[c]
  BY <1>3, ProvenWritten
<1>6. ITypes'
  BY <1>3, <1>4, <1>5 DEF ITypes
<1>7. Local(a)
  BY <1>3, <1>4, <1>5 DEF Local, ITypes
<1> QED
  BY <1>2, <1>3, <1>4, <1>5, <1>6, <1>7 DEF SameWork, RowIs, ITypes, Row

\* what the rental core and the clock do
LEMMA RentalEffect ==
    ASSUME ITypes, NEW a \in Accounts,
           EvidenceAges(a) \/ Rent(a) \/ Return(a) \/ MeasuredForBuyer(a)
    PROVE  /\ ITypes' /\ Local(a) /\ SameWork
           /\ UNCHANGED <<acct, job, proven, readers, device>>
           /\ evidence'[a] \in {"none", evidence[a]}
           /\ a \in busy' => a \in busy \/ ~Active(a)
           /\ limits'[a].attempts = limits[a].attempts
           /\ limits'[a].refresh \in {limits[a].refresh, "expired"}
<1>1. ASSUME EvidenceAges(a)
      PROVE  /\ ITypes' /\ Local(a) /\ evidence'[a] = "none"
             /\ UNCHANGED <<acct, limits, job, proven, readers, busy, device, worker, stalls>>
  <2>1. evidence' = [evidence EXCEPT ![a] = "none"]
        /\ UNCHANGED <<acct, limits, job, proven, readers, busy, device, worker, stalls>>
    BY <1>1 DEF EvidenceAges
  <2>2. evidence' \in [Accounts -> {"none", "linked", "blocked"}] /\ evidence'[a] = "none"
        /\ \A b \in Accounts \ {a} : evidence'[b] = evidence[b]
    BY <2>1, EvidenceWritten
  <2>3. ITypes'
    BY <2>1, <2>2 DEF ITypes
  <2>4. Local(a)
    BY <2>1, <2>2 DEF Local, ITypes
  <2> QED
    BY <2>1, <2>2, <2>3, <2>4
<1>2. ASSUME Rent(a) \/ Return(a)
      PROVE  /\ ITypes' /\ Local(a) /\ (a \in busy' => ~Active(a))
             /\ UNCHANGED <<acct, limits, job, proven, readers, evidence, device, worker, stalls>>
  <2>1. /\ UNCHANGED <<acct, limits, job, proven, readers, evidence, device, worker, stalls>>
        /\ busy' = busy \ {a} \/ (busy' = busy \cup {a} /\ ~Active(a))
    BY <1>2 DEF Rent, Return, MayBeRented
  <2>2. ITypes'
    BY <2>1 DEF ITypes
  <2>3. Local(a)
    BY <2>1 DEF Local, ITypes
  <2> QED
    BY <2>1, <2>2, <2>3
<1>3. ASSUME MeasuredForBuyer(a)
      PROVE  /\ ITypes' /\ Local(a) /\ limits'[a].attempts = limits[a].attempts
             /\ limits'[a].refresh = "expired"
             /\ UNCHANGED <<acct, job, proven, readers, evidence, busy, device, worker, stalls>>
  <2>1. PICK m \in Limits : m = limits[a]
    BY DEF ITypes
  <2>2. PICK l : l = [m EXCEPT !.refresh = "expired"]
    OBVIOUS
  <2>3. l \in Limits /\ l.refresh = "expired" /\ l.attempts = m.attempts
    BY <2>2 DEF Limits
  <2>4. limits' = [limits EXCEPT ![a] = l]
        /\ UNCHANGED <<acct, job, proven, readers, evidence, busy, device, worker, stalls>>
    BY <1>3, <2>1, <2>2 DEF MeasuredForBuyer, ITypes
  <2>5. limits' \in [Accounts -> Limits] /\ limits'[a] = l
        /\ \A b \in Accounts \ {a} : limits'[b] = limits[b]
    BY <2>3, <2>4, LimitsWritten
  <2>6. ITypes'
    BY <2>4, <2>5 DEF ITypes
  <2>7. Local(a)
    BY <2>4, <2>5 DEF Local, ITypes
  <2> QED
    BY <2>1, <2>3, <2>4, <2>5, <2>6, <2>7
<1> QED
  BY <1>1, <1>2, <1>3 DEF SameWork

\* the workers

LEMMA StallEffect ==
    ASSUME ITypes, NEW a \in Accounts, Stall(a)
    PROVE  /\ ITypes' /\ Local(a) /\ UNCHANGED worker
           /\ UNCHANGED <<acct, limits, evidence, proven, readers, busy, device>>
           /\ job[a].status = "running" /\ job[a].live /\ job[a].type \in WorkerTypes
           /\ job'[a].status = "running" /\ ~job'[a].live
           /\ job'[a].type = job[a].type /\ job'[a].holders = job[a].holders
           /\ stalls' = stalls + 1
<1>1. PICK x \in Job : x = job[a]
  BY DEF ITypes
<1>2. PICK y : y = [x EXCEPT !.live = FALSE]
  OBVIOUS
<1>3. y \in Job /\ y.status = x.status /\ ~y.live /\ y.type = x.type
      /\ y.holders = x.holders
  BY <1>2 DEF Job
<1>4. /\ job' = [job EXCEPT ![a] = y] /\ stalls' = stalls + 1 /\ stalls < MaxStalls
      /\ UNCHANGED <<acct, limits, evidence, proven, readers, busy, worker, device>>
      /\ x.status = "running" /\ x.live /\ x.type \in WorkerTypes
  BY <1>1, <1>2 DEF Stall, Leased, Running, ITypes
<1>5. job' \in [Accounts -> Job] /\ job'[a] = y
      /\ \A b \in Accounts \ {a} : job'[b] = job[b]
  BY <1>3, <1>4, JobWritten
<1>6. stalls' \in 0..MaxStalls /\ stalls' >= stalls
  BY <1>4, JobsAssumption DEF ITypes
<1>7. ITypes'
  BY <1>4, <1>5, <1>6 DEF ITypes
<1>8. Local(a)
  BY <1>4, <1>5, <1>6 DEF Local
<1> QED
  BY <1>1, <1>3, <1>4, <1>5, <1>7, <1>8

LEMMA IdleTyped ==
    Idle \in Work /\ Idle.acct = NoAccount /\ \A a \in Accounts : Idle.acct # a
<1>1. Idle \in Work /\ Idle.acct = NoAccount
  BY DEF Idle, Work, WorkerTypes, JobType, Row, RowStatus
<1> QED
  BY <1>1, NoAccountAssumption

LEMMA ClaimEffect ==
    ASSUME ITypes, NEW w \in Workers, NEW a \in Accounts, Claim(w, a)
    PROVE  /\ ITypes' /\ Local(a)
           /\ UNCHANGED <<acct, limits, evidence, proven, busy, device, stalls>>
           /\ a \notin busy /\ worker[w].acct = NoAccount
           /\ job[a].status = "pending" /\ job[a].type \in WorkerTypes
           /\ job[a].type = "refresh_recover" => limits[a].attempts < MaxRecoveries
           /\ job'[a].status = "running" /\ job'[a].live /\ job'[a].type = job[a].type
           /\ job'[a].holders = job[a].holders \cup {w}
           /\ worker'[w].acct = a /\ worker'[w].type = job[a].type
           /\ worker'[w].row = acct[a]
           /\ \A v \in Workers \ {w} : worker'[v] = worker[v]
           /\ readers'[a] = readers[a] \cup {w}
<1>1. PICK x \in Job : x = job[a]
  BY DEF ITypes
<1>2. PICK y : y = [x EXCEPT !.status = "running", !.live = TRUE,
                             !.holders = x.holders \cup {w}]
  OBVIOUS
<1>3. x.holders \cup {w} \in SUBSET Holders
  BY DEF Job, Holders
<1>4. y \in Job /\ y.status = "running" /\ y.live /\ y.type = x.type
      /\ y.holders = x.holders \cup {w}
  BY <1>2, <1>3 DEF Job, Holders
<1>5. x.status = "pending" /\ x.type \in WorkerTypes /\ a \notin busy
      /\ worker[w] = Idle
      /\ (x.type = "refresh_recover" => ~(limits[a].attempts >= MaxRecoveries))
  BY <1>1 DEF Claim, NextInLine, Claimable, Free, Exhausted
<1>6. limits[a].attempts \in Nat
  BY DEF ITypes, Limits
<1>7. PICK k : k = [acct |-> a, type |-> job[a].type,
                    scheduled |-> job[a].prio = "scheduled", row |-> acct[a]]
  OBVIOUS
<1>8. k \in Work /\ k.acct = a /\ k.type = x.type /\ k.row = acct[a]
  BY <1>1, <1>5, <1>7 DEF ITypes, Work
<1>9. /\ job' = [job EXCEPT ![a] = y] /\ worker' = [worker EXCEPT ![w] = k]
      /\ readers' = [readers EXCEPT ![a] = readers[a] \cup {w}]
      /\ UNCHANGED <<acct, limits, evidence, proven, busy, device, stalls>>
  BY <1>1, <1>2, <1>7 DEF Claim, ITypes
<1>10. readers[a] \cup {w} \in SUBSET Holders
  BY DEF ITypes, Holders
<1>11. job' \in [Accounts -> Job] /\ job'[a] = y
       /\ \A b \in Accounts \ {a} : job'[b] = job[b]
  BY <1>4, <1>9, JobWritten
<1>12. readers' \in [Accounts -> SUBSET Holders] /\ readers'[a] = readers[a] \cup {w}
       /\ \A b \in Accounts \ {a} : readers'[b] = readers[b]
  BY <1>9, <1>10, ReadersWritten
<1>13. worker' \in [Workers -> Work] /\ worker'[w] = k
       /\ \A v \in Workers \ {w} : worker'[v] = worker[v]
  BY <1>8, <1>9 DEF ITypes
<1>14. ITypes'
  BY <1>9, <1>11, <1>12, <1>13 DEF ITypes
<1>15. Local(a)
  BY <1>5, <1>8, <1>9, <1>11, <1>12, <1>13, IdleTyped DEF Local, ITypes
<1> QED
  BY <1>1, <1>4, <1>5, <1>6, <1>8, <1>9, <1>11, <1>12, <1>13, <1>14, <1>15,
     IdleTyped, JobsAssumption

LEMMA GiveUpEffect ==
    ASSUME ITypes, NEW w \in Workers, NEW a \in Accounts, GiveUpRecovery(w, a)
    PROVE  /\ ITypes' /\ Local(a) /\ SameWork
           /\ UNCHANGED <<limits, proven, readers, busy, device>>
           /\ job[a].status = "pending" /\ job[a].type = "refresh_recover"
           /\ limits[a].attempts >= MaxRecoveries
           /\ IF acct[a].rerun THEN Fresh(job'[a], "full_validation")
              ELSE job'[a].status = "ended" /\ job'[a].holders = job[a].holders
           /\ RowIs(a, IF acct[a].rerun THEN Status(acct[a], "pending_validation")
                       ELSE acct[a].status, acct[a].suspended, FALSE)
           /\ evidence'[a] \in {"none", evidence[a]}
<1>1. PICK x \in Job : x = job[a]
  BY DEF ITypes
<1>2. PICK r \in Row : r = acct[a]
  BY DEF ITypes
<1>3. Over(x) \in Job /\ Over(x).status = "ended" /\ Over(x).holders = x.holders
  BY OverTyped
<1>4. PICK j : j = IF r.rerun THEN Enqueued(Over(x), "manual", "full_validation")
                   ELSE Over(x)
  OBVIOUS
<1>5. "manual" \in Priority /\ "full_validation" \in JobType
  BY DEF Priority, JobType
<1>6. /\ j \in Job
      /\ r.rerun => Fresh(j, "full_validation")
      /\ ~r.rerun => j.status = "ended" /\ j.holders = x.holders
  BY <1>3, <1>4, <1>5, EnqueuedTyped, NewTyped DEF Fresh
<1>7. PICK s \in RowStatus :
        s = IF r.rerun THEN Status(r, "pending_validation") ELSE r.status
  BY StatusTyped DEF RowStatus, Row
<1>8. PICK n : n = [r EXCEPT !.status = s, !.rerun = FALSE]
  OBVIOUS
<1>9. n \in Row /\ n.status = s /\ n.suspended = r.suspended /\ n.rerun = FALSE
  BY <1>8 DEF Row
<1>10. EvidenceAfter(a, j) \in {"none", evidence[a]}
  BY DEF EvidenceAfter
<1>11. /\ job' = [job EXCEPT ![a] = j]
       /\ evidence' = [evidence EXCEPT ![a] = EvidenceAfter(a, j)]
       /\ acct' = [acct EXCEPT ![a] = n]
       /\ UNCHANGED <<limits, proven, readers, busy, worker, device, stalls>>
       /\ x.status = "pending" /\ x.type = "refresh_recover"
       /\ limits[a].attempts >= MaxRecoveries
  BY <1>1, <1>2, <1>4, <1>7, <1>8
     DEF GiveUpRecovery, ITypes, NextInLine, Claimable, Exhausted
<1>12. job' \in [Accounts -> Job] /\ job'[a] = j
       /\ \A b \in Accounts \ {a} : job'[b] = job[b]
  BY <1>6, <1>11, JobWritten
<1>13. acct' \in [Accounts -> Row] /\ acct'[a] = n
       /\ \A b \in Accounts \ {a} : acct'[b] = acct[b]
  BY <1>9, <1>11, RowWritten
<1>14. evidence' \in [Accounts -> {"none", "linked", "blocked"}]
       /\ evidence'[a] \in {"none", evidence[a]}
       /\ \A b \in Accounts \ {a} : evidence'[b] = evidence[b]
  BY <1>10, <1>11, EvidenceWritten DEF ITypes
<1>15. ITypes'
  BY <1>11, <1>12, <1>13, <1>14 DEF ITypes
<1>16. Local(a)
  BY <1>11, <1>12, <1>13, <1>14 DEF Local, ITypes
<1> QED
  BY <1>1, <1>2, <1>6, <1>7, <1>9, <1>11, <1>12, <1>13, <1>14, <1>15, <1>16
     DEF SameWork, RowIs

\* what any end of worker w's check leaves of it and of its job
Leaves(w, a) ==
    /\ On(w, a) /\ worker'[w].acct = NoAccount
    /\ \A v \in Workers \ {w} : worker'[v] = worker[v]
    /\ readers'[a] = readers[a] \ {w}
    /\ UNCHANGED <<busy, device, stalls>>
\* an attribute that the session writes
Rewrites(w, a) ==
    acct'[a].suspended = acct[a].suspended
    /\ (acct'[a].rerun <=> acct[a].rerun /\ ~worker[w].row.rerun)
\* types: what may be queued instead
LeavesJob(w, a, types) ==
    IF w \in job[a].holders
    THEN \/ job'[a].status = "ended" /\ job'[a].holders = job[a].holders
            /\ ~worker[w].row.rerun
         \/ \E t \in types : Fresh(job'[a], t)
    ELSE \/ job'[a] = job[a]
         \/ job[a].status # "running"
            /\ \E t \in types \cup {"full_validation"} : Fresh(job'[a], t)

LEMMA ReleaseEffect ==
    ASSUME ITypes, NEW w \in Workers, NEW a \in Accounts,
           On(w, a), Forget(w, a), Release(w), UNCHANGED <<busy, device, stalls>>
    PROVE  /\ Leaves(w, a)
           /\ readers' \in [Accounts -> SUBSET Holders]
           /\ worker' \in [Workers -> Work]
           /\ \A b \in Accounts \ {a} : readers'[b] = readers[b]
<1>1. readers' = [readers EXCEPT ![a] = readers[a] \ {w}]
  BY DEF Forget, ITypes
<1>2. readers[a] \ {w} \in SUBSET Holders
  BY DEF ITypes
<1>3. /\ readers' \in [Accounts -> SUBSET Holders] /\ readers'[a] = readers[a] \ {w}
      /\ \A b \in Accounts \ {a} : readers'[b] = readers[b]
  BY <1>1, <1>2, ReadersWritten
<1>4. /\ worker' \in [Workers -> Work] /\ worker'[w].acct = NoAccount
      /\ \A v \in Workers \ {w} : worker'[v] = worker[v]
  BY IdleTyped DEF Release, ITypes
<1> QED
  BY <1>3, <1>4 DEF Leaves

LEMMA EndEffect ==
    ASSUME ITypes, NEW w \in Workers, NEW a \in Accounts
    PROVE  /\ Ended(w, a) \in Job
           /\ w \in job[a].holders => Ended(w, a).status = "ended"
                                      /\ Ended(w, a).holders = job[a].holders
           /\ w \notin job[a].holders => Ended(w, a) = job[a]
BY OverTyped DEF Ended, ITypes

LEMMA RerunEffect ==
    ASSUME ITypes, NEW w \in Workers, NEW a \in Accounts, NEW j \in Job
    PROVE  /\ WithRerun(w, j) \in Job
           /\ SeesRerun(w) => WithRerun(w, j).status \in {"pending", "running"}
           /\ SeesRerun(w) /\ j.status = "ended"
                => Fresh(WithRerun(w, j), "full_validation")
           /\ \/ WithRerun(w, j) = j
              \/ j.status # "running" /\ Fresh(WithRerun(w, j), "full_validation")
           /\ ~SeesRerun(w) => WithRerun(w, j) = j
<1>1. "manual" \in Priority /\ "full_validation" \in JobType
  BY DEF Priority, JobType
<1>2. Fresh(NewJob("manual", "full_validation"), "full_validation")
  BY <1>1, NewTyped DEF Fresh
<1> QED
  BY <1>1, <1>2, EnqueuedTyped DEF WithRerun

\* the job of a check that ends with its verdict
LEMMA VerdictJob ==
    ASSUME ITypes, NEW w \in Workers, NEW a \in Accounts,
           NEW j, j = WithRerun(w, Ended(w, a)), job' = [job EXCEPT ![a] = j]
    PROVE  /\ job' \in [Accounts -> Job] /\ job'[a] = j
           /\ \A b \in Accounts \ {a} : job'[b] = job[b]
           /\ LeavesJob(w, a, {"full_validation"})
           /\ SeesRerun(w) => Active(a)'
<1>1. Ended(w, a) \in Job
  BY EndEffect
<1>2. j \in Job
  BY <1>1, RerunEffect
<1>3. /\ job' \in [Accounts -> Job] /\ job'[a] = j
      /\ \A b \in Accounts \ {a} : job'[b] = job[b]
  BY <1>2, JobWritten
<1>4. LeavesJob(w, a, {"full_validation"})
  BY <1>1, <1>3, EndEffect, RerunEffect DEF LeavesJob, SeesRerun
<1>5. SeesRerun(w) => Active(a)'
  BY <1>1, <1>3, RerunEffect DEF Active
<1> QED
  BY <1>3, <1>4, <1>5

\* a verdict's row: r is the row in the database, m the one the session remembers
LEMMA JudgedTyped ==
    ASSUME ITypes, NEW w \in Workers, NEW a \in Accounts,
           NEW column \in RowStatus, NEW s \in RowStatus
    PROVE  LET n == Judged(w, a, column, s)
               again == Status(acct[a], "pending_validation")
           IN /\ n \in Row /\ n.suspended = acct[a].suspended
              /\ n.rerun <=> acct[a].rerun /\ ~SeesRerun(w)
              /\ ~SeesRerun(w) => n.status = column
              /\ SeesRerun(w) => n.status = IF s = again THEN column ELSE again
<1>1. PICK r \in Row : r = acct[a]
  BY DEF ITypes
<1>2. SeesRerun(w) \in BOOLEAN
  BY DEF SeesRerun, ITypes, Work, Row
<1>3. PICK again \in RowStatus : again = Status(acct[a], "pending_validation")
  BY <1>1, StatusTyped DEF RowStatus
<1>4. PICK st \in RowStatus :
        st = IF SeesRerun(w) THEN Written(column, s, again) ELSE column
  BY DEF Written
<1>5. PICK b \in BOOLEAN : b <=> r.rerun /\ ~SeesRerun(w)
  OBVIOUS
<1>6. PICK n : n = [r EXCEPT !.status = st, !.rerun = b]
  OBVIOUS
<1>7. n \in Row /\ n.status = st /\ n.suspended = r.suspended /\ (n.rerun <=> b)
  BY <1>6 DEF Row
<1>8. (r.rerun /\ ~SeesRerun(w)) = b
  BY <1>1, <1>2, <1>5 DEF Row
<1>9. n = Judged(w, a, column, s)
  BY <1>1, <1>3, <1>4, <1>6, <1>8 DEF Judged
<1> QED
  BY <1>1, <1>3, <1>4, <1>5, <1>7, <1>9 DEF Written

LEMMA PassEffect ==
    ASSUME ITypes, NEW w \in Workers, NEW a \in Accounts, CheckPasses(w, a)
    PROVE  LET m == worker[w].row
           IN /\ ITypes' /\ Local(a) /\ Leaves(w, a) /\ Rewrites(w, a)
              /\ worker[w].type # "limit_check"
              /\ LeavesJob(w, a, {"full_validation"})
              /\ SeesRerun(w) => Active(a)'
              /\ acct[a].suspended =>
                   \/ acct'[a].status = "suspended"
                   \/ acct'[a].status = acct[a].status /\ m.status = "suspended"
              /\ ~acct[a].suspended /\ m.rerun => acct'[a].status = "pending_validation"
              /\ ~acct[a].suspended /\ ~m.rerun
                   => acct'[a].status = IF m.status = "active" THEN acct[a].status
                                        ELSE "active"
              /\ limits'[a].attempts = 0
              /\ evidence'[a] \in {"none", evidence[a]}
              /\ proven'[a] <=> proven[a] \/ w \in readers[a]
<1>1. /\ acct[a] \in Row /\ worker[w] \in Work /\ worker[w].row \in Row
      /\ acct[a].status \in RowStatus /\ worker[w].row.status \in RowStatus
  BY DEF ITypes, Work, Row
<1>2. PICK s : s = Verdict(w, a, "active")
  OBVIOUS
<1>3. s \in RowStatus /\ (acct[a].suspended => s = "suspended")
                      /\ (~acct[a].suspended => s = "active")
  BY <1>1, <1>2, StatusTyped DEF Verdict, RowStatus
<1>4. PICK c \in RowStatus : c = Written(acct[a].status, worker[w].row.status, s)
  BY <1>1, <1>3 DEF Written
<1>5. PICK n \in Row : n = Judged(w, a, c, s)
  BY <1>3, JudgedTyped
<1>6. PICK j : j = WithRerun(w, Ended(w, a))
  OBVIOUS
<1>7. PICK e \in {"none", "linked", "blocked"} :
        /\ e = IF w \in job[a].holders THEN "none" ELSE EvidenceAfter(a, j)
        /\ e \in {"none", evidence[a]}
  BY DEF EvidenceAfter, ITypes
<1>8. PICK l \in Limits : l = [refresh |-> "ok", attempts |-> 0]
  BY DEF Limits
<1>9. PICK p \in BOOLEAN : p = (proven[a] \/ w \in readers[a])
  OBVIOUS
<1>10. /\ On(w, a) /\ worker[w].type # "limit_check"
       /\ acct' = [acct EXCEPT ![a] = n] /\ limits' = [limits EXCEPT ![a] = l]
       /\ job' = [job EXCEPT ![a] = j] /\ evidence' = [evidence EXCEPT ![a] = e]
       /\ proven' = [proven EXCEPT ![a] = p]
       /\ Forget(w, a) /\ Release(w) /\ UNCHANGED <<busy, device, stalls>>
  BY <1>2, <1>4, <1>5, <1>6, <1>7, <1>8, <1>9 DEF CheckPasses, ITypes
<1>11. acct' \in [Accounts -> Row] /\ acct'[a] = n
       /\ \A b \in Accounts \ {a} : acct'[b] = acct[b]
  BY <1>10, RowWritten
<1>12. limits' \in [Accounts -> Limits] /\ limits'[a] = l
       /\ \A b \in Accounts \ {a} : limits'[b] = limits[b]
  BY <1>10, LimitsWritten
<1>13. /\ job' \in [Accounts -> Job]
       /\ \A b \in Accounts \ {a} : job'[b] = job[b]
       /\ LeavesJob(w, a, {"full_validation"}) /\ (SeesRerun(w) => Active(a)')
  BY <1>6, <1>10, VerdictJob
<1>14. evidence' \in [Accounts -> {"none", "linked", "blocked"}] /\ evidence'[a] = e
       /\ \A b \in Accounts \ {a} : evidence'[b] = evidence[b]
  BY <1>10, EvidenceWritten
<1>15. proven' \in [Accounts -> BOOLEAN] /\ (proven'[a] <=> p)
       /\ \A b \in Accounts \ {a} : proven'[b] = proven[b]
  BY <1>10, ProvenWritten
<1>16. /\ Leaves(w, a) /\ readers' \in [Accounts -> SUBSET Holders]
       /\ worker' \in [Workers -> Work]
       /\ \A b \in Accounts \ {a} : readers'[b] = readers[b]
  BY <1>10, ReleaseEffect
<1>17. ITypes'
  BY <1>10, <1>11, <1>12, <1>13, <1>14, <1>15, <1>16 DEF ITypes
<1>18. Local(a)
  BY <1>10, <1>11, <1>12, <1>13, <1>14, <1>15, <1>16
     DEF Local, ITypes, Leaves, On
<1>19. /\ n.suspended = acct[a].suspended
       /\ n.rerun <=> acct[a].rerun /\ ~SeesRerun(w)
       /\ ~SeesRerun(w) => n.status = c
       /\ SeesRerun(w) => n.status = IF s = Status(acct[a], "pending_validation")
                                     THEN c ELSE Status(acct[a], "pending_validation")
  BY <1>3, <1>5, JudgedTyped
<1>20. /\ acct[a].suspended => Status(acct[a], "pending_validation") = "suspended"
       /\ ~acct[a].suspended => Status(acct[a], "pending_validation")
                                  = "pending_validation"
  BY DEF Status
<1>21. c = IF worker[w].row.status = s THEN acct[a].status ELSE s
  BY <1>4 DEF Written
<1>22. acct[a].suspended =>
         \/ n.status = "suspended"
         \/ n.status = acct[a].status /\ worker[w].row.status = "suspended"
  BY <1>3, <1>19, <1>20, <1>21
<1>23. ~acct[a].suspended => n.status =
         IF SeesRerun(w) THEN "pending_validation"
         ELSE IF worker[w].row.status = "active" THEN acct[a].status ELSE "active"
  BY <1>3, <1>19, <1>20, <1>21
<1>24. (proven'[a] <=> proven[a] \/ w \in readers[a]) /\ limits'[a].attempts = 0
  <2>1. proven'[a] <=> proven[a] \/ w \in readers[a]
    BY <1>9, <1>15
  <2>2. limits'[a] = l /\ l = [refresh |-> "ok", attempts |-> 0]
    BY <1>8, <1>12
  <2>3. l.attempts = 0
    BY <2>2
  <2> QED
    BY <2>1, <2>2, <2>3
<1>25. evidence'[a] \in {"none", evidence[a]}
  BY <1>7, <1>14
<1>26. Rewrites(w, a)
  BY <1>11, <1>19 DEF SeesRerun, Rewrites
<1>27. /\ acct[a].suspended =>
            \/ acct'[a].status = "suspended"
            \/ acct'[a].status = acct[a].status /\ worker[w].row.status = "suspended"
       /\ ~acct[a].suspended /\ SeesRerun(w) => acct'[a].status = "pending_validation"
       /\ ~acct[a].suspended /\ ~SeesRerun(w)
            => acct'[a].status = IF worker[w].row.status = "active" THEN acct[a].status
                                 ELSE "active"
  BY <1>11, <1>22, <1>23
<1> QED
  BY <1>10, <1>13, <1>16, <1>17, <1>18, <1>24, <1>25, <1>26, <1>27 DEF SeesRerun

LEMMA RecoveredTyped ==
    ASSUME ITypes, NEW w \in Workers, NEW a \in Accounts, NEW b \in BOOLEAN
    PROVE  /\ Recovered(w, a, b) \in Limits
           /\ Recovered(w, a, b).attempts <= limits[a].attempts + 1
           /\ worker[w].type # "refresh_recover"
                => Recovered(w, a, b).attempts <= limits[a].attempts
<1>1. limits[a] \in Limits /\ limits[a].attempts \in Nat
  BY DEF ITypes, Limits
<1>2. PICK l \in Limits :
        /\ l = IF b THEN [refresh |-> "ok", attempts |-> 0] ELSE limits[a]
        /\ l.attempts <= limits[a].attempts
  <2>1. PICK z : z = [refresh |-> "ok", attempts |-> 0]
    OBVIOUS
  <2>3. z \in Limits /\ z.attempts = 0
    BY <2>1 DEF Limits
  <2>2. 0 <= limits[a].attempts /\ limits[a].attempts <= limits[a].attempts
    BY <1>1
  <2> QED
    BY <1>1, <2>1, <2>2, <2>3
<1>3. Recovered(w, a, b) =
        IF worker[w].type # "refresh_recover" \/ l.refresh = "none" THEN l
        ELSE [refresh |-> "expired", attempts |-> l.attempts + 1]
  BY <1>2 DEF Recovered
<1>4. l.attempts \in Nat
  BY DEF Limits
<1>5. CASE worker[w].type # "refresh_recover" \/ l.refresh = "none"
  BY <1>1, <1>2, <1>3, <1>4, <1>5
<1>6. CASE ~(worker[w].type # "refresh_recover" \/ l.refresh = "none")
  BY <1>1, <1>2, <1>3, <1>4, <1>6 DEF Limits
<1> QED
  BY <1>5, <1>6

LEMMA FailEffect ==
    ASSUME ITypes, NEW w \in Workers, NEW a \in Accounts, NEW c \in Codes,
           NEW tokens \in BOOLEAN, CheckFails(w, a, c, tokens)
    PROVE  LET m == worker[w].row
           IN /\ ITypes' /\ Local(a) /\ Leaves(w, a) /\ Rewrites(w, a)
              /\ worker[w].type # "limit_check"
              /\ LeavesJob(w, a, {"full_validation"})
              /\ SeesRerun(w) => Active(a)'
              /\ acct[a].suspended => acct'[a].status = "suspended"
              /\ ~acct[a].suspended /\ m.rerun => acct'[a].status = "pending_validation"
              /\ ~acct[a].suspended /\ ~m.rerun =>
                   \/ acct'[a].status = "active" /\ m.status = "active"
                   \/ acct'[a].status = "validation_failed"
                   \/ acct'[a].status = acct[a].status /\ m.status = "validation_failed"
              /\ limits'[a].attempts <= limits[a].attempts + 1
              /\ worker[w].type # "refresh_recover"
                   => limits'[a].attempts <= limits[a].attempts
              /\ evidence'[a] # "none" => evidence[a] # "none"
              /\ UNCHANGED proven
<1>1. /\ acct[a] \in Row /\ worker[w] \in Work /\ worker[w].row \in Row
      /\ acct[a].status \in RowStatus /\ worker[w].row.status \in RowStatus
  BY DEF ITypes, Work, Row
<1>2. PICK s : s = Verdict(w, a, IF KeepsActive(w, c) THEN "active"
                                 ELSE "validation_failed")
  OBVIOUS
<1>3. /\ s \in RowStatus
      /\ acct[a].suspended => s = "suspended"
      /\ ~acct[a].suspended =>
           s = IF KeepsActive(w, c) THEN "active" ELSE "validation_failed"
  BY <1>1, <1>2, StatusTyped DEF Verdict, RowStatus
<1>4. PICK f \in RowStatus :
        /\ f = Written(acct[a].status, worker[w].row.status, "validation_failed")
        /\ f = IF worker[w].row.status = "validation_failed" THEN acct[a].status
               ELSE "validation_failed"
  BY <1>1 DEF Written, RowStatus
<1>5. PICK d \in RowStatus : /\ d = Written(f, "validation_failed", s)
                             /\ d = IF s = "validation_failed" THEN f ELSE s
  BY <1>3 DEF Written
<1>6. PICK n \in Row : n = Judged(w, a, d, s)
  BY <1>3, JudgedTyped
<1>7. PICK j : j = WithRerun(w, Ended(w, a))
  OBVIOUS
<1>8. PICK e \in {"none", "linked", "blocked"} :
        /\ e = IF w \notin job[a].holders \/ SeesRerun(w) THEN EvidenceAfter(a, j)
               ELSE IF evidence[a] = "linked" /\ c = "cloudflare"
                       /\ worker[w].type = "full_validation"
                    THEN "blocked" ELSE "none"
        /\ e # "none" => evidence[a] # "none"
  BY DEF EvidenceAfter, ITypes
<1>9. PICK l \in Limits : l = Recovered(w, a, tokens)
  BY RecoveredTyped
<1>10. /\ On(w, a) /\ worker[w].type # "limit_check"
       /\ acct' = [acct EXCEPT ![a] = n] /\ limits' = [limits EXCEPT ![a] = l]
       /\ job' = [job EXCEPT ![a] = j] /\ evidence' = [evidence EXCEPT ![a] = e]
       /\ Forget(w, a) /\ Release(w) /\ UNCHANGED <<proven, busy, device, stalls>>
  BY <1>2, <1>4, <1>5, <1>6, <1>7, <1>8, <1>9 DEF CheckFails, ITypes
<1>11. acct' \in [Accounts -> Row] /\ acct'[a] = n
       /\ \A b \in Accounts \ {a} : acct'[b] = acct[b]
  BY <1>10, RowWritten
<1>12. limits' \in [Accounts -> Limits] /\ limits'[a] = l
       /\ \A b \in Accounts \ {a} : limits'[b] = limits[b]
  BY <1>10, LimitsWritten
<1>13. /\ job' \in [Accounts -> Job]
       /\ \A b \in Accounts \ {a} : job'[b] = job[b]
       /\ LeavesJob(w, a, {"full_validation"}) /\ (SeesRerun(w) => Active(a)')
  BY <1>7, <1>10, VerdictJob
<1>14. evidence' \in [Accounts -> {"none", "linked", "blocked"}] /\ evidence'[a] = e
       /\ \A b \in Accounts \ {a} : evidence'[b] = evidence[b]
  BY <1>10, EvidenceWritten
<1>15. /\ Leaves(w, a) /\ readers' \in [Accounts -> SUBSET Holders]
       /\ worker' \in [Workers -> Work]
       /\ \A b \in Accounts \ {a} : readers'[b] = readers[b]
  BY <1>10, ReleaseEffect
<1>16. ITypes'
  BY <1>10, <1>11, <1>12, <1>13, <1>14, <1>15 DEF ITypes
<1>17. Local(a)
  BY <1>10, <1>11, <1>12, <1>13, <1>14, <1>15 DEF Local, ITypes, Leaves, On
<1>18. /\ n.suspended = acct[a].suspended
       /\ n.rerun <=> acct[a].rerun /\ ~SeesRerun(w)
       /\ ~SeesRerun(w) => n.status = d
       /\ SeesRerun(w) => n.status = IF s = Status(acct[a], "pending_validation")
                                     THEN d ELSE Status(acct[a], "pending_validation")
  BY <1>3, <1>6, JudgedTyped
<1>19. /\ acct[a].suspended => Status(acct[a], "pending_validation") = "suspended"
       /\ ~acct[a].suspended => Status(acct[a], "pending_validation")
                                  = "pending_validation"
  BY DEF Status
<1>20. acct[a].suspended => n.status = "suspended"
  BY <1>3, <1>5, <1>18, <1>19
<1>21. ~acct[a].suspended /\ SeesRerun(w) => n.status = "pending_validation"
  BY <1>3, <1>18, <1>19
<1>22. KeepsActive(w, c) => worker[w].row.status = "active"
  BY DEF KeepsActive
<1>23. ~acct[a].suspended /\ ~SeesRerun(w) =>
         \/ n.status = "active" /\ worker[w].row.status = "active"
         \/ n.status = "validation_failed"
         \/ n.status = acct[a].status /\ worker[w].row.status = "validation_failed"
  BY <1>3, <1>4, <1>5, <1>18, <1>22
<1> QED
  BY <1>8, <1>9, <1>10, <1>11, <1>12, <1>13, <1>14, <1>15, <1>16, <1>17,
     <1>18, <1>20, <1>21, <1>23, RecoveredTyped DEF SeesRerun, Rewrites

LEMMA LimitEffect ==
    ASSUME ITypes, NEW w \in Workers, NEW a \in Accounts,
           NEW s \in {worker[w].row.status, Status(worker[w].row, "validation_failed")},
           NEW l \in Limits, l.attempts <= limits[a].attempts,
           NEW j \in Job, NEW types \in SUBSET WorkerTypes, "full_validation" \in types,
           IF w \in job[a].holders
           THEN \/ j.status = "ended" /\ j.holders = job[a].holders
                \/ \E t \in types : Fresh(j, t)
           ELSE \/ j = job[a]
                \/ job[a].status # "running" /\ \E t \in types : Fresh(j, t),
           LimitStep(w, a, s, l, j)
    PROVE  LET m == worker[w].row
           IN /\ ITypes' /\ Local(a) /\ Leaves(w, a) /\ Rewrites(w, a)
              /\ worker[w].type = "limit_check"
              /\ LeavesJob(w, a, types)
              /\ SeesRerun(w) => Active(a)'
              /\ ~m.rerun => acct'[a].status \in {acct[a].status, "suspended",
                                                  "validation_failed"}
              /\ m.rerun =>
                   \/ acct'[a].status \in {"pending_validation", "suspended"}
                   \/ /\ acct'[a].status = acct[a].status
                      /\ m.status \in {"pending_validation", "suspended"}
              /\ limits'[a] = l
              /\ evidence'[a] \in {"none", evidence[a]}
              /\ UNCHANGED proven
              /\ \/ job'[a] = j
                 \/ Fresh(job'[a], "full_validation")
<1>1. /\ acct[a] \in Row /\ worker[w] \in Work /\ worker[w].row \in Row
      /\ acct[a].status \in RowStatus /\ worker[w].row.status \in RowStatus
      /\ acct[a].rerun \in BOOLEAN /\ worker[w].row.rerun \in BOOLEAN
  BY DEF ITypes, Work, Row
<1>2. PICK m \in Row : m = worker[w].row
  BY <1>1
<1>3. /\ s \in RowStatus
      /\ s = m.status \/ s \in {"suspended", "validation_failed"}
  BY <1>2 DEF Status, RowStatus, Row
<1>4. PICK again \in RowStatus :
        /\ again = Status(m, "pending_validation")
        /\ again \in {"suspended", "pending_validation"}
  BY DEF Status, RowStatus
<1>5. PICK c \in RowStatus : /\ c = Written(acct[a].status, m.status, s)
                             /\ c = IF m.status = s THEN acct[a].status ELSE s
  BY <1>1, <1>3 DEF Written
<1>6. PICK st \in RowStatus :
        /\ st = IF m.rerun THEN Written(c, s, again) ELSE c
        /\ m.rerun => st = IF s = again THEN c ELSE again
        /\ ~m.rerun => st = c
  BY DEF Written
<1>7. PICK b \in BOOLEAN : b = (acct[a].rerun /\ ~m.rerun)
  OBVIOUS
<1>8. PICK r \in Row : r = acct[a]
  BY <1>1
<1>9. PICK n : n = [r EXCEPT !.status = st, !.rerun = b]
  OBVIOUS
<1>10. n \in Row /\ n.status = st /\ n.suspended = r.suspended /\ n.rerun = b
  BY <1>9 DEF Row
<1>11. PICK k : k = WithRerun(w, j)
  OBVIOUS
<1>12. /\ k \in Job /\ (SeesRerun(w) => k.status \in {"pending", "running"})
       /\ SeesRerun(w) /\ j.status = "ended" => Fresh(k, "full_validation")
       /\ k = j \/ (j.status # "running" /\ Fresh(k, "full_validation"))
       /\ ~SeesRerun(w) => k = j
  BY <1>11, RerunEffect
<1>13. EvidenceAfter(a, k) \in {"none", evidence[a]}
  BY DEF EvidenceAfter
<1>14. /\ On(w, a) /\ worker[w].type = "limit_check"
       /\ acct' = [acct EXCEPT ![a] = n] /\ limits' = [limits EXCEPT ![a] = l]
       /\ job' = [job EXCEPT ![a] = k]
       /\ evidence' = [evidence EXCEPT ![a] = EvidenceAfter(a, k)]
       /\ Forget(w, a) /\ Release(w) /\ UNCHANGED <<proven, busy, device, stalls>>
  BY <1>2, <1>4, <1>5, <1>6, <1>7, <1>8, <1>9, <1>11
     DEF LimitStep, SeesRerun, ITypes
<1>15. acct' \in [Accounts -> Row] /\ acct'[a] = n
       /\ \A d \in Accounts \ {a} : acct'[d] = acct[d]
  BY <1>10, <1>14, RowWritten
<1>16. limits' \in [Accounts -> Limits] /\ limits'[a] = l
       /\ \A d \in Accounts \ {a} : limits'[d] = limits[d]
  BY <1>14, LimitsWritten
<1>17. job' \in [Accounts -> Job] /\ job'[a] = k
       /\ \A d \in Accounts \ {a} : job'[d] = job[d]
  BY <1>12, <1>14, JobWritten
<1>18. /\ evidence' \in [Accounts -> {"none", "linked", "blocked"}]
       /\ evidence'[a] \in {"none", evidence[a]}
       /\ \A d \in Accounts \ {a} : evidence'[d] = evidence[d]
  BY <1>13, <1>14, EvidenceWritten DEF ITypes
<1>19. /\ Leaves(w, a) /\ readers' \in [Accounts -> SUBSET Holders]
       /\ worker' \in [Workers -> Work]
       /\ \A d \in Accounts \ {a} : readers'[d] = readers[d]
  BY <1>14, ReleaseEffect
<1>20. ITypes'
  BY <1>14, <1>15, <1>16, <1>17, <1>18, <1>19 DEF ITypes
<1>21. Local(a)
  BY <1>14, <1>15, <1>16, <1>17, <1>18, <1>19 DEF Local, ITypes, Leaves, On
<1>22. Rewrites(w, a)
  BY <1>2, <1>7, <1>8, <1>10, <1>15 DEF Rewrites
<1>23. ~m.rerun => acct'[a].status \in {acct[a].status, "suspended", "validation_failed"}
  BY <1>3, <1>5, <1>6, <1>10, <1>15
<1>24. m.rerun => \/ acct'[a].status \in {"pending_validation", "suspended"}
                  \/ /\ acct'[a].status = acct[a].status
                     /\ m.status \in {"pending_validation", "suspended"}
  BY <1>3, <1>4, <1>5, <1>6, <1>10, <1>15
<1>25. LeavesJob(w, a, types)
  <2>1. CASE w \in job[a].holders
    BY <1>2, <1>12, <1>17, <2>1 DEF LeavesJob, SeesRerun, Fresh
  <2>2. CASE w \notin job[a].holders
    BY <1>12, <1>17, <2>2 DEF LeavesJob, Fresh
  <2> QED
    BY <2>1, <2>2
<1>26. SeesRerun(w) => Active(a)'
  BY <1>12, <1>17 DEF Active
<1> QED
  BY <1>2, <1>12, <1>14, <1>16, <1>17, <1>18, <1>19, <1>20, <1>21, <1>22, <1>23,
     <1>24, <1>25, <1>26

\* the four ends of a limit check
LEMMA MeasuredEffect ==
    ASSUME ITypes, NEW w \in Workers, NEW a \in Accounts,
           \/ LimitsUnavailable(w, a) \/ TokenExpired(w, a) \/ PlanRefused(w, a)
           \/ \E b \in BOOLEAN : LimitsMeasured(w, a, b)
    PROVE  LET m == worker[w].row
           IN /\ ITypes' /\ Local(a) /\ Leaves(w, a) /\ Rewrites(w, a)
              /\ worker[w].type = "limit_check"
              /\ LeavesJob(w, a, {"full_validation", "refresh_recover"})
              /\ SeesRerun(w) => Active(a)'
              /\ ~m.rerun => acct'[a].status \in {acct[a].status, "suspended",
                                                  "validation_failed"}
              /\ m.rerun =>
                   \/ acct'[a].status \in {"pending_validation", "suspended"}
                   \/ /\ acct'[a].status = acct[a].status
                      /\ m.status \in {"pending_validation", "suspended"}
              /\ limits'[a].attempts <= limits[a].attempts
              /\ evidence'[a] \in {"none", evidence[a]}
              /\ UNCHANGED proven
              /\ w \in job[a].holders =>
                   \/ limits'[a].refresh = "expired"
                   \/ job'[a].status = "ended" \/ Fresh(job'[a], "full_validation")
<1>1. limits[a] \in Limits /\ limits[a].attempts \in Nat
  BY DEF ITypes, Limits
<1>2. PICK x \in Limits : x = limits[a]
  BY <1>1
<1>3. /\ Ended(w, a) \in Job
      /\ w \in job[a].holders => Ended(w, a).status = "ended"
                                 /\ Ended(w, a).holders = job[a].holders
      /\ w \notin job[a].holders => Ended(w, a) = job[a]
  BY EndEffect
<1> DEFINE types == {"full_validation", "refresh_recover"}
<1>4. types \in SUBSET WorkerTypes /\ "full_validation" \in types
  BY DEF WorkerTypes, JobType
<1>5. ASSUME NEW b \in BOOLEAN, LimitsMeasured(w, a, b)
      PROVE  \E l \in Limits, s \in {worker[w].row.status,
                                     Status(worker[w].row, "validation_failed")} :
               l.attempts <= x.attempts /\ LimitStep(w, a, s, l, Ended(w, a))
  <2>1. PICK l : l = [refresh |-> "ok", attempts |-> IF b THEN 0 ELSE x.attempts]
    OBVIOUS
  <2>2. l \in Limits /\ l.attempts <= x.attempts
    BY <1>1, <1>2, <2>1 DEF Limits
  <2>3. LimitStep(w, a, worker[w].row.status, l, Ended(w, a))
    BY <1>2, <1>5, <2>1 DEF LimitsMeasured
  <2> QED
    BY <2>2, <2>3
<1>6. ASSUME LimitsUnavailable(w, a)
      PROVE  \E l \in Limits, s \in {worker[w].row.status,
                                     Status(worker[w].row, "validation_failed")} :
               l.attempts <= x.attempts /\ LimitStep(w, a, s, l, Ended(w, a))
  <2>1. LimitStep(w, a, worker[w].row.status, x, Ended(w, a)) /\ x.attempts <= x.attempts
    BY <1>1, <1>2, <1>6 DEF LimitsUnavailable
  <2> QED
    BY <2>1
<1>7. ASSUME PlanRefused(w, a)
      PROVE  \E l \in Limits, s \in {worker[w].row.status,
                                     Status(worker[w].row, "validation_failed")} :
               l.attempts <= x.attempts /\ LimitStep(w, a, s, l, Ended(w, a))
  <2>1. PICK l : l = [x EXCEPT !.refresh = "ok"]
    OBVIOUS
  <2>2. l \in Limits /\ l.attempts = x.attempts
    BY <2>1 DEF Limits
  <2>3. LimitStep(w, a, Status(worker[w].row, "validation_failed"), l, Ended(w, a))
    BY <1>2, <1>7, <2>1 DEF PlanRefused
  <2>4. l.attempts <= x.attempts
    BY <1>1, <1>2, <2>2
  <2> QED
    BY <2>2, <2>3, <2>4
<1>8. ASSUME \/ LimitsUnavailable(w, a) \/ PlanRefused(w, a)
             \/ \E b \in BOOLEAN : LimitsMeasured(w, a, b)
      PROVE  \E l \in Limits, s \in {worker[w].row.status,
                                     Status(worker[w].row, "validation_failed")} :
               l.attempts <= x.attempts /\ LimitStep(w, a, s, l, Ended(w, a))
  BY <1>5, <1>6, <1>7, <1>8
<1>9. CASE \/ LimitsUnavailable(w, a) \/ PlanRefused(w, a)
           \/ \E b \in BOOLEAN : LimitsMeasured(w, a, b)
  <2>1. PICK l \in Limits, s \in {worker[w].row.status,
                                  Status(worker[w].row, "validation_failed")} :
          l.attempts <= limits[a].attempts /\ LimitStep(w, a, s, l, Ended(w, a))
    BY <1>2, <1>8, <1>9
  <2>2. IF w \in job[a].holders
        THEN \/ Ended(w, a).status = "ended" /\ Ended(w, a).holders = job[a].holders
             \/ \E t \in types : Fresh(Ended(w, a), t)
        ELSE \/ Ended(w, a) = job[a]
             \/ job[a].status # "running" /\ \E t \in types : Fresh(Ended(w, a), t)
    BY <1>3
  <2> HIDE DEF types
  <2> QED
    BY <1>3, <1>4, <2>1, <2>2, LimitEffect DEF types
<1>10. CASE TokenExpired(w, a)
  <2>1. PICK l : l = [x EXCEPT !.refresh = "expired"]
    OBVIOUS
  <2>2. l \in Limits /\ l.attempts = x.attempts /\ l.refresh = "expired"
    BY <2>1 DEF Limits
  <2>3. PICK j : j = Enqueued(Ended(w, a), "refresh_recover", "refresh_recover")
    OBVIOUS
  <2>4. "refresh_recover" \in Priority /\ "refresh_recover" \in JobType
    BY DEF Priority, JobType
  <2>5. /\ j \in Job
        /\ \/ j = Ended(w, a)
           \/ Ended(w, a).status # "running" /\ Fresh(j, "refresh_recover")
        /\ Ended(w, a).status = "ended" => Fresh(j, "refresh_recover")
    BY <1>3, <2>3, <2>4, EnqueuedTyped, NewTyped DEF Fresh
  <2>6. IF w \in job[a].holders
        THEN \/ j.status = "ended" /\ j.holders = job[a].holders
             \/ \E t \in types : Fresh(j, t)
        ELSE \/ j = job[a]
             \/ job[a].status # "running" /\ \E t \in types : Fresh(j, t)
    BY <1>3, <2>5
  <2>7. LimitStep(w, a, worker[w].row.status, l, j)
    BY <1>2, <1>10, <2>1, <2>3 DEF TokenExpired
  <2>8. l.attempts <= limits[a].attempts
    BY <1>1, <1>2, <2>2
  <2> HIDE DEF types
  <2> QED
    BY <1>4, <2>2, <2>5, <2>6, <2>7, <2>8, LimitEffect DEF types
<1> QED
  BY <1>9, <1>10

LEMMA CancelledEffect ==
    ASSUME ITypes, NEW w \in Workers, NEW a \in Accounts, Cancelled(w, a)
    PROVE  /\ ITypes' /\ Local(a) /\ Leaves(w, a)
           /\ UNCHANGED <<acct, limits, evidence, proven>>
           /\ IF w \in job[a].holders /\ job[a].status = "running"
              THEN /\ job'[a].status = "pending" /\ job'[a].type = job[a].type
                   /\ job'[a].holders = job[a].holders
              ELSE job'[a] = job[a]
<1>1. PICK x \in Job : x = job[a]
  BY DEF ITypes
<1>2. PICK z : z = [x EXCEPT !.status = "pending", !.live = TRUE]
  OBVIOUS
<1>3. z \in Job /\ z.status = "pending" /\ z.type = x.type /\ z.holders = x.holders
  BY <1>2 DEF Job
<1>4. PICK y \in Job : y = IF w \in x.holders /\ x.status = "running" THEN z ELSE x
  BY <1>3
<1>5. /\ On(w, a) /\ job' = [job EXCEPT ![a] = y]
      /\ Forget(w, a) /\ Release(w)
      /\ UNCHANGED <<acct, limits, evidence, proven, busy, device, stalls>>
  BY <1>1, <1>2, <1>4 DEF Cancelled, ITypes
<1>6. job' \in [Accounts -> Job] /\ job'[a] = y
      /\ \A b \in Accounts \ {a} : job'[b] = job[b]
  BY <1>5, JobWritten
<1>7. /\ Leaves(w, a) /\ readers' \in [Accounts -> SUBSET Holders]
      /\ worker' \in [Workers -> Work]
      /\ \A b \in Accounts \ {a} : readers'[b] = readers[b]
  BY <1>5, ReleaseEffect
<1>8. ITypes'
  BY <1>5, <1>6, <1>7 DEF ITypes
<1>9. Local(a)
  BY <1>5, <1>6, <1>7 DEF Local, ITypes, Leaves, On
<1> QED
  BY <1>1, <1>3, <1>4, <1>5, <1>6, <1>7, <1>8, <1>9

\* the device login
LEMMA NoLoginTyped ==
    /\ NoLogin \in Login /\ NoLogin.at = "none"
    /\ [NoLogin EXCEPT !.at = "pending"] \in Login
    /\ [NoLogin EXCEPT !.at = "pending"].at = "pending"
<1>1. NoLogin \in Login /\ NoLogin.at = "none"
  BY DEF NoLogin, Login, RowStatus
<1>2. PICK n \in Login : n = NoLogin
  BY <1>1
<1>3. [n EXCEPT !.at = "pending"] \in Login /\ [n EXCEPT !.at = "pending"].at = "pending"
  BY DEF Login
<1> QED
  BY <1>1, <1>2, <1>3

LEMMA StartEffect ==
    ASSUME ITypes, NEW a \in Accounts, StartDevice(a)
    PROVE  /\ ITypes' /\ Local(a) /\ SameWork
           /\ UNCHANGED <<limits, proven, readers, busy>>
           /\ LockFree /\ a \notin busy /\ (~Leased(a) \/ OwnsJob(a))
           /\ Fresh(job'[a], "device_auth") /\ device'[a].at = "pending"
           /\ RowIs(a, "pending_validation", FALSE, acct[a].rerun)
           /\ evidence'[a] = "none"
<1>1. PICK x \in Row : x = acct[a]
  BY DEF ITypes
<1>2. PICK r : r = [x EXCEPT !.suspended = FALSE, !.status = "pending_validation"]
  OBVIOUS
<1>3. r \in Row /\ r.status = "pending_validation" /\ ~r.suspended /\ r.rerun = x.rerun
  BY <1>2 DEF Row, RowStatus
<1>4. PICK d \in Login : d = [NoLogin EXCEPT !.at = "pending"] /\ d.at = "pending"
  BY NoLoginTyped
<1>5. /\ acct' = [acct EXCEPT ![a] = r] /\ device' = [device EXCEPT ![a] = d]
      /\ UNCHANGED <<limits, proven, readers, busy, worker, stalls>>
      /\ LockFree /\ a \notin busy /\ (~Leased(a) \/ OwnsJob(a))
  BY <1>1, <1>2, <1>4 DEF StartDevice, ITypes
<1>6. /\ job' \in [Accounts -> Job] /\ Fresh(job'[a], "device_auth")
      /\ evidence' \in [Accounts -> {"none", "linked", "blocked"}]
      /\ evidence'[a] = "none"
      /\ \A b \in Accounts \ {a} : job'[b] = job[b] /\ evidence'[b] = evidence[b]
  BY ExclusiveEffect DEF StartDevice, Priority, JobType
<1>7. acct' \in [Accounts -> Row] /\ acct'[a] = r
      /\ \A b \in Accounts \ {a} : acct'[b] = acct[b]
  BY <1>3, <1>5, RowWritten
<1>8. device' \in [Accounts -> Login] /\ device'[a] = d
      /\ \A b \in Accounts \ {a} : device'[b] = device[b]
  BY <1>5, DeviceWritten
<1>9. ITypes'
  BY <1>5, <1>6, <1>7, <1>8 DEF ITypes
<1>10. Local(a)
  BY <1>5, <1>6, <1>7, <1>8 DEF Local, ITypes
<1> QED
  BY <1>1, <1>3, <1>4, <1>5, <1>6, <1>7, <1>8, <1>9, <1>10 DEF SameWork, RowIs

LEMMA PollBeginEffect ==
    ASSUME ITypes, NEW a \in Accounts, PollBegin(a)
    PROVE  /\ ITypes' /\ Local(a) /\ SameWork
           /\ UNCHANGED <<acct, limits, evidence, proven, readers, busy>>
           /\ DeviceJob(a) /\ job'[a].status = "running" /\ job'[a].type = job[a].type
           /\ job'[a].live = job[a].live /\ job'[a].holders = job[a].holders \cup {Device}
           /\ device'[a].at = "polling" /\ device'[a].status = acct[a].status
<1>1. PICK x \in Job : x = job[a]
  BY DEF ITypes
<1>2. PICK y : y = [x EXCEPT !.status = "running", !.holders = x.holders \cup {Device}]
  OBVIOUS
<1>3. x.holders \cup {Device} \in SUBSET Holders
  BY DEF Job, Holders
<1>4. y \in Job /\ y.status = "running" /\ y.live = x.live /\ y.type = x.type
      /\ y.holders = x.holders \cup {Device}
  BY <1>2, <1>3 DEF Job, Holders
<1>5. PICK d : d = [at |-> "polling", status |-> acct[a].status, rerun |-> acct[a].rerun]
  OBVIOUS
<1>6. d \in Login /\ d.at = "polling" /\ d.status = acct[a].status
  BY <1>5 DEF Login, ITypes, Row
<1>7. /\ job' = [job EXCEPT ![a] = y] /\ device' = [device EXCEPT ![a] = d]
      /\ UNCHANGED <<acct, limits, evidence, proven, readers, busy, worker, stalls>>
      /\ DeviceJob(a)
  BY <1>1, <1>2, <1>5 DEF PollBegin, ITypes
<1>8. job' \in [Accounts -> Job] /\ job'[a] = y
      /\ \A b \in Accounts \ {a} : job'[b] = job[b]
  BY <1>4, <1>7, JobWritten
<1>9. device' \in [Accounts -> Login] /\ device'[a] = d
      /\ \A b \in Accounts \ {a} : device'[b] = device[b]
  BY <1>6, <1>7, DeviceWritten
<1>10. ITypes'
  BY <1>7, <1>8, <1>9 DEF ITypes
<1>11. Local(a)
  BY <1>7, <1>8, <1>9 DEF Local, ITypes
<1> QED
  BY <1>1, <1>4, <1>6, <1>7, <1>8, <1>9, <1>10, <1>11 DEF SameWork

LEMMA PollIdleEffect ==
    ASSUME ITypes, NEW a \in Accounts, PollSuperseded(a) \/ PollEmpty(a)
    PROVE  /\ ITypes' /\ Local(a) /\ SameWork
           /\ UNCHANGED <<acct, limits, job, evidence, proven, readers, busy>>
           /\ device[a].at # "none"
           /\ device'[a].at \in {"none", "pending"}
<1>1. PICK d \in Login : d.at \in {"none", "pending"}
                         /\ device' = [device EXCEPT ![a] = d]
  BY NoLoginTyped DEF PollSuperseded, PollEmpty
<1>2. UNCHANGED <<acct, limits, job, evidence, proven, readers, busy, worker, stalls>>
      /\ device[a].at # "none"
  BY DEF PollSuperseded, PollEmpty, Polling
<1>3. device' \in [Accounts -> Login] /\ device'[a] = d
      /\ \A b \in Accounts \ {a} : device'[b] = device[b]
  BY <1>1, DeviceWritten
<1>4. ITypes'
  BY <1>2, <1>3 DEF ITypes
<1>5. Local(a)
  BY <1>2, <1>3 DEF Local, ITypes
<1> QED
  BY <1>1, <1>2, <1>3, <1>4, <1>5 DEF SameWork

LEMMA ConnectedEffect ==
    ASSUME ITypes, NEW a \in Accounts, DeviceConnected(a)
    PROVE  /\ ITypes' /\ Local(a) /\ SameWork
           /\ UNCHANGED <<proven, busy>>
           /\ Polling(a) /\ Fresh(job'[a], "full_validation")
           /\ acct'[a].status \in {"pending_validation", "suspended"}
           /\ acct'[a].suspended = acct[a].suspended
           /\ limits'[a].attempts = 0 /\ device'[a].at = "none"
           /\ readers'[a] = readers[a] \cup {Device}
<1>1. PICK x \in Job : x = job[a]
  BY DEF ITypes
<1>2. PICK r \in Row : r = acct[a]
  BY DEF ITypes
<1>3. PICK j : j = Enqueued(Over(x), "manual", "full_validation")
  OBVIOUS
<1>4. "manual" \in Priority /\ "full_validation" \in JobType
  BY DEF Priority, JobType
<1>5. j \in Job /\ Fresh(j, "full_validation")
  BY <1>3, <1>4, OverTyped, EnqueuedTyped, NewTyped DEF Fresh
<1>6. PICK s \in RowStatus : /\ s = Status(r, Connected)
                             /\ s \in {"pending_validation", "suspended"}
  BY DEF Status, Connected, RowStatus
<1>7. PICK b \in BOOLEAN : b = (r.rerun /\ ~device[a].rerun)
  OBVIOUS
<1>8. PICK n : n = [r EXCEPT !.status = s, !.rerun = b]
  OBVIOUS
<1>9. n \in Row /\ n.status = s /\ n.suspended = r.suspended
  BY <1>8 DEF Row
<1>10. PICK l : l = [refresh |-> "ok", attempts |-> 0]
  OBVIOUS
<1>11. l \in Limits /\ l.attempts = 0
  BY <1>10 DEF Limits
<1>12. readers[a] \cup {Device} \in SUBSET Holders
  BY DEF ITypes, Holders
<1>13. /\ job' = [job EXCEPT ![a] = j] /\ acct' = [acct EXCEPT ![a] = n]
       /\ limits' = [limits EXCEPT ![a] = l] /\ device' = [device EXCEPT ![a] = NoLogin]
       /\ evidence' = [evidence EXCEPT ![a] = "linked"]
       /\ readers' = [readers EXCEPT ![a] = readers[a] \cup {Device}]
       /\ UNCHANGED <<proven, busy, worker, stalls>> /\ Polling(a)
  BY <1>1, <1>2, <1>3, <1>6, <1>7, <1>8, <1>10 DEF DeviceConnected, ITypes
<1>14. job' \in [Accounts -> Job] /\ job'[a] = j
       /\ \A b2 \in Accounts \ {a} : job'[b2] = job[b2]
  BY <1>5, <1>13, JobWritten
<1>15. acct' \in [Accounts -> Row] /\ acct'[a] = n
       /\ \A b2 \in Accounts \ {a} : acct'[b2] = acct[b2]
  BY <1>9, <1>13, RowWritten
<1>16. limits' \in [Accounts -> Limits] /\ limits'[a] = l
       /\ \A b2 \in Accounts \ {a} : limits'[b2] = limits[b2]
  BY <1>11, <1>13, LimitsWritten
<1>17. device' \in [Accounts -> Login] /\ device'[a] = NoLogin
       /\ \A b2 \in Accounts \ {a} : device'[b2] = device[b2]
  BY <1>13, NoLoginTyped, DeviceWritten
<1>18. /\ evidence' \in [Accounts -> {"none", "linked", "blocked"}]
       /\ \A b2 \in Accounts \ {a} : evidence'[b2] = evidence[b2]
  BY <1>13, EvidenceWritten
<1>19. /\ readers' \in [Accounts -> SUBSET Holders]
       /\ readers'[a] = readers[a] \cup {Device}
       /\ \A b2 \in Accounts \ {a} : readers'[b2] = readers[b2]
  BY <1>12, <1>13, ReadersWritten
<1>20. ITypes'
  BY <1>13, <1>14, <1>15, <1>16, <1>17, <1>18, <1>19 DEF ITypes
<1>21. Local(a)
  BY <1>13, <1>14, <1>15, <1>16, <1>17, <1>18, <1>19 DEF Local, ITypes
<1> QED
  BY <1>2, <1>5, <1>6, <1>9, <1>11, <1>13, <1>14, <1>15, <1>16, <1>17, <1>19,
     <1>20, <1>21, NoLoginTyped DEF SameWork

\* the row and the job of a device login that fails
LEMMA FailedTyped ==
    ASSUME ITypes, NEW a \in Accounts, NEW m \in RowStatus
    PROVE  /\ FailedRow(a, m) \in Row
           /\ FailedRow(a, m).suspended = acct[a].suspended
           /\ ~FailedRow(a, m).rerun
           /\ \/ FailedRow(a, m).status = "suspended" /\ acct[a].suspended
              \/ FailedRow(a, m).status = "pending_validation" /\ acct[a].rerun
              \/ FailedRow(a, m).status = "validation_failed"
              \/ FailedRow(a, m).status = acct[a].status
                 /\ (m = "pending_validation" => acct[a].rerun)
           /\ FailedJob(a) \in Job
           /\ IF acct[a].rerun THEN Fresh(FailedJob(a), "full_validation")
              ELSE FailedJob(a).status = "ended" /\ FailedJob(a).holders = job[a].holders
<1>1. PICK r \in Row : r = acct[a]
  BY DEF ITypes
<1>2. PICK s \in RowStatus :
        /\ s = Status(r, IF r.rerun THEN "pending_validation" ELSE "validation_failed")
        /\ s = IF r.suspended THEN "suspended"
               ELSE IF r.rerun THEN "pending_validation" ELSE "validation_failed"
  BY DEF Status, RowStatus
<1>3. PICK st \in RowStatus : st = IF s = m THEN r.status ELSE s
  BY DEF Row
<1>4. PICK n : n = [r EXCEPT !.status = st, !.rerun = FALSE]
  OBVIOUS
<1>5. n \in Row /\ n.status = st /\ n.suspended = r.suspended /\ ~n.rerun
  BY <1>4 DEF Row
<1>6. n = FailedRow(a, m)
  BY <1>1, <1>2, <1>3, <1>4 DEF FailedRow
<1>7. "manual" \in Priority /\ "full_validation" \in JobType /\ job[a] \in Job
  BY DEF Priority, JobType, ITypes
<1>8. /\ FailedJob(a) \in Job
      /\ IF acct[a].rerun THEN Fresh(FailedJob(a), "full_validation")
         ELSE FailedJob(a).status = "ended" /\ FailedJob(a).holders = job[a].holders
  BY <1>7, OverTyped, EnqueuedTyped, NewTyped DEF FailedJob, Fresh
<1> QED
  BY <1>1, <1>2, <1>3, <1>5, <1>6, <1>8

LEMMA DeviceFailsEffect ==
    ASSUME ITypes, NEW a \in Accounts,
           NEW m \in RowStatus, m \in {acct[a].status, device[a].status},
           device[a].at # "none",
           m = acct[a].status \/ Polling(a),
           DeviceFails(a, m),
           \/ UNCHANGED limits
           \/ limits' = [limits EXCEPT ![a] = [refresh |-> "ok", attempts |-> 0]]
    PROVE  /\ ITypes' /\ Local(a) /\ SameWork
           /\ UNCHANGED <<proven, readers, busy>>
           /\ Device \in job[a].holders
           /\ acct'[a] = FailedRow(a, m) /\ job'[a] = FailedJob(a)
           /\ evidence'[a] = "none" /\ device'[a].at = "none"
           /\ limits'[a].attempts <= limits[a].attempts
<1>1. /\ acct' = [acct EXCEPT ![a] = FailedRow(a, m)]
      /\ job' = [job EXCEPT ![a] = FailedJob(a)]
      /\ evidence' = [evidence EXCEPT ![a] = "none"]
      /\ device' = [device EXCEPT ![a] = NoLogin]
      /\ UNCHANGED <<proven, readers, busy, worker, stalls>> /\ Device \in job[a].holders
  BY DEF DeviceFails
<1>2. FailedRow(a, m) \in Row /\ FailedJob(a) \in Job
  BY FailedTyped
<1>3. acct' \in [Accounts -> Row] /\ acct'[a] = FailedRow(a, m)
      /\ \A b \in Accounts \ {a} : acct'[b] = acct[b]
  BY <1>1, <1>2, RowWritten
<1>4. job' \in [Accounts -> Job] /\ job'[a] = FailedJob(a)
      /\ \A b \in Accounts \ {a} : job'[b] = job[b]
  BY <1>1, <1>2, JobWritten
<1>5. /\ evidence' \in [Accounts -> {"none", "linked", "blocked"}]
      /\ evidence'[a] = "none" /\ \A b \in Accounts \ {a} : evidence'[b] = evidence[b]
  BY <1>1, EvidenceWritten
<1>6. device' \in [Accounts -> Login] /\ device'[a] = NoLogin
      /\ \A b \in Accounts \ {a} : device'[b] = device[b]
  BY <1>1, NoLoginTyped, DeviceWritten
<1>7. limits[a].attempts \in Nat
  BY DEF ITypes, Limits
<1>8. /\ limits' \in [Accounts -> Limits] /\ limits'[a].attempts <= limits[a].attempts
      /\ \A b \in Accounts \ {a} : limits'[b] = limits[b]
  <2>1. PICK l : l = [refresh |-> "ok", attempts |-> 0]
    OBVIOUS
  <2>2. l \in Limits /\ l.attempts = 0
    BY <2>1 DEF Limits
  <2>3. CASE UNCHANGED limits
    BY <1>7, <2>3 DEF ITypes
  <2>4. CASE limits' = [limits EXCEPT ![a] = l]
    <3>1. limits' \in [Accounts -> Limits] /\ limits'[a] = l
          /\ \A b \in Accounts \ {a} : limits'[b] = limits[b]
      BY <2>2, <2>4, LimitsWritten
    <3> QED
      BY <1>7, <2>2, <3>1
  <2> QED
    BY <2>1, <2>3, <2>4
<1>9. ITypes'
  BY <1>1, <1>3, <1>4, <1>5, <1>6, <1>8 DEF ITypes
<1>10. Local(a)
  BY <1>1, <1>3, <1>4, <1>5, <1>6, <1>8 DEF Local, ITypes
<1> QED
  BY <1>1, <1>3, <1>4, <1>5, <1>6, <1>8, <1>9, <1>10, NoLoginTyped DEF SameWork

LEMMA RestartEffect ==
    ASSUME ITypes, Restart
    PROVE  /\ ITypes'
           /\ UNCHANGED <<limits, proven, busy, stalls>>
           /\ \A w \in Workers : worker'[w].acct = NoAccount
           /\ \A a \in Accounts :
                /\ readers'[a] = readers[a] \ Workers /\ device'[a].at = "none"
                /\ IF DeviceJob(a)
                   THEN /\ acct'[a] = FailedRow(a, acct[a].status)
                        /\ job'[a] = FailedJob(a) /\ evidence'[a] = "none"
                   ELSE /\ acct'[a] = acct[a] /\ evidence'[a] = evidence[a]
                        /\ job'[a].holders = {} /\ job'[a].type = job[a].type
                        /\ job'[a].status = IF job[a].status = "running" THEN "pending"
                                            ELSE job[a].status
<1>1. /\ job' = [a \in Accounts |-> RestartedJob(a)]
      /\ acct' = [a \in Accounts |-> IF DeviceJob(a) THEN FailedRow(a, acct[a].status)
                                     ELSE acct[a]]
      /\ evidence' = [a \in Accounts |-> IF DeviceJob(a) THEN "none" ELSE evidence[a]]
      /\ worker' = [w \in Workers |-> Idle]
      /\ readers' = [a \in Accounts |-> readers[a] \ Workers]
      /\ device' = [a \in Accounts |-> NoLogin]
      /\ UNCHANGED <<limits, proven, busy, stalls>>
  BY DEF Restart
<1>2. ASSUME NEW a \in Accounts
      PROVE  /\ RestartedJob(a) \in Job
             /\ DeviceJob(a) => RestartedJob(a) = FailedJob(a)
             /\ ~DeviceJob(a) =>
                  /\ RestartedJob(a).holders = {} /\ RestartedJob(a).type = job[a].type
                  /\ RestartedJob(a).status = IF job[a].status = "running" THEN "pending"
                                              ELSE job[a].status
  <2>1. PICK x \in Job : x = job[a]
    BY DEF ITypes
  <2>2. PICK y : y = [x EXCEPT !.status = "pending", !.live = TRUE, !.holders = {}]
    OBVIOUS
  <2>3. PICK z : z = [x EXCEPT !.holders = {}]
    OBVIOUS
  <2>4. y \in Job /\ y.status = "pending" /\ y.holders = {} /\ y.type = x.type
    BY <2>2 DEF Job
  <2>5. z \in Job /\ z.status = x.status /\ z.holders = {} /\ z.type = x.type
    BY <2>3 DEF Job
  <2>6. CASE DeviceJob(a)
    <3>1. FailedJob(a) \in Job
      BY FailedTyped DEF ITypes, Row
    <3>2. RestartedJob(a) = FailedJob(a)
      BY <2>6 DEF RestartedJob
    <3> QED
      BY <2>6, <3>1, <3>2
  <2>7. CASE ~DeviceJob(a) /\ Running(a)
    <3>1. RestartedJob(a) = y
      BY <2>1, <2>2, <2>7 DEF RestartedJob
    <3> QED
      BY <2>1, <2>4, <2>7, <3>1 DEF Running
  <2>8. CASE ~DeviceJob(a) /\ ~Running(a)
    <3>1. RestartedJob(a) = z
      BY <2>1, <2>3, <2>8 DEF RestartedJob
    <3> QED
      BY <2>1, <2>5, <2>8, <3>1 DEF Running
  <2> QED
    BY <2>6, <2>7, <2>8
<1>3. ASSUME NEW a \in Accounts PROVE FailedRow(a, acct[a].status) \in Row
  BY FailedTyped DEF ITypes, Row
<1>4. acct' \in [Accounts -> Row] /\ job' \in [Accounts -> Job]
  BY <1>1, <1>2, <1>3 DEF ITypes
<1>5. /\ evidence' \in [Accounts -> {"none", "linked", "blocked"}]
      /\ readers' \in [Accounts -> SUBSET Holders]
  BY <1>1 DEF ITypes
<1>6. worker' \in [Workers -> Work] /\ device' \in [Accounts -> Login]
  BY <1>1, IdleTyped, NoLoginTyped
<1>7. ITypes'
  BY <1>1, <1>4, <1>5, <1>6 DEF ITypes
<1>8. \A w \in Workers : worker'[w].acct = NoAccount
  BY <1>1, IdleTyped
<1>9. \A a \in Accounts : device'[a].at = "none"
  BY <1>1, NoLoginTyped
<1> QED
  BY <1>1, <1>2, <1>7, <1>8, <1>9

-----------------------------------------------------------------------------
(* The invariant, account by account                                       *)

OnIts(a) == {w \in Workers : On(w, a)}
RecoversIt(a) == {w \in Workers : On(w, a) /\ worker[w].type = "refresh_recover"}
WorkerLease(a) == Leased(a) /\ job[a].type \in WorkerTypes

Suspends(a) == acct[a].suspended => acct[a].status # "active"
Vouched(a) == evidence[a] # "none" => Device \in readers[a]

\* who holds the job: only the device login holds one of its own, and a login in
\* memory that holds the newest row has it active and leased
Fits(a) ==
    /\ DeviceJob(a) => job[a].holders \subseteq {Device} /\ job[a].live
    /\ Device \in job[a].holders /\ Active(a) => job[a].type = "device_auth"
    /\ device[a].at # "none" /\ Device \in job[a].holders => DeviceJob(a) /\ Leased(a)
    /\ Polling(a) => Device \in job[a].holders
    /\ a \in busy => ~DeviceJob(a)

\* a worker beyond the one that keeps the lease has cost a stall
Overdue(a) == Cardinality(OnIts(a)) <= stalls + IF WorkerLease(a) THEN 1 ELSE 0
\* the attempts spent, and those under way
Spent(a) ==
    limits[a].attempts + Cardinality(RecoversIt(a)) <= MaxRecoveries + stalls

\* the worker of an account holds its job and its lease, alone
Held(a) ==
    \A w \in Workers : On(w, a) =>
      /\ w \in job[a].holders /\ Leased(a) /\ job[a].type = worker[w].type
      /\ \A v \in Workers : On(v, a) => v = w
Unsold(a) == a \in busy => \A w \in Workers : ~On(w, a)
\* what the worker's session remembers of the row that it will write
Remembers(a) ==
    \A w \in Workers : On(w, a) =>
      /\ acct[a].status = "active" => worker[w].row.status = "active"
      /\ acct[a].status = "pending_validation" /\ ~acct[a].rerun
           => worker[w].row.status = "pending_validation"
      /\ w \notin readers[a] => acct[a].rerun
      /\ w \in readers[a] /\ worker[w].row.status = "active" /\ ~worker[w].row.rerun
           => proven[a]
DeviceRemembers(a) ==
    /\ DeviceJob(a) => acct[a].status # "active"
    /\ Polling(a) /\ acct[a].status = "pending_validation" /\ ~acct[a].rerun
         => device[a].status = "pending_validation"
Unproven(a) == acct[a].status = "active" /\ ~proven[a] => acct[a].rerun
Recovering(a) ==
    Active(a) /\ job[a].type = "refresh_recover" => limits[a].refresh = "expired"
Waiting(a) ==
    acct[a].status = "pending_validation" /\ ~acct[a].rerun =>
      IF Active(a) THEN job[a].type # "limit_check"
      ELSE limits[a].attempts >= MaxRecoveries /\ limits[a].refresh = "expired"
InTime(a) ==
    stalls = 0 => /\ Held(a) /\ Unsold(a) /\ Remembers(a) /\ DeviceRemembers(a)
                  /\ Unproven(a) /\ Recovering(a) /\ Waiting(a)

Sound(a) == Suspends(a) /\ Vouched(a) /\ Fits(a)
Counted(a) == Overdue(a) /\ Spent(a)
IAccount(a) == Sound(a) /\ Counted(a) /\ InTime(a)
IInv == ITypes /\ \A a \in Accounts : IAccount(a)

\* another account's step
LEMMA Elsewhere ==
    ASSUME ITypes, ITypes', NEW a \in Accounts, Local(a), NEW b \in Accounts \ {a},
           IAccount(b)
    PROVE  IAccount(b)'
<1>1. /\ acct'[b] = acct[b] /\ limits'[b] = limits[b] /\ job'[b] = job[b]
      /\ evidence'[b] = evidence[b] /\ proven'[b] = proven[b]
      /\ readers'[b] = readers[b] /\ device'[b] = device[b]
      /\ b \in busy' <=> b \in busy
  BY DEF Local
<1>2. stalls \in Nat /\ stalls' \in Nat /\ stalls' >= stalls
  BY JobsAssumption DEF Local, ITypes
<1>3. \A w \in Workers : (On(w, b)' <=> On(w, b))
                         /\ (On(w, b) => worker'[w] = worker[w])
  BY NoAccountAssumption DEF Local, On
<1>4. Sound(b)'
  BY <1>1 DEF IAccount, Sound, Suspends, Vouched, Fits, DeviceJob, Active, Leased,
              Running, Polling
<1>5. OnIts(b)' = OnIts(b) /\ RecoversIt(b)' = RecoversIt(b)
  BY <1>3 DEF OnIts, RecoversIt, On
<1>6. WorkerLease(b)' <=> WorkerLease(b)
  BY <1>1 DEF WorkerLease, Leased, Running
<1>7. Cardinality(OnIts(b)) \in Nat /\ Cardinality(RecoversIt(b)) \in Nat
  BY JobsAssumption, FS_Subset, FS_CardinalityType DEF OnIts, RecoversIt
<1>8. Counted(b)'
  <2>1. Overdue(b)'
    BY <1>2, <1>5, <1>6, <1>7 DEF Overdue, IAccount, Counted
  <2>2. Spent(b)'
    BY <1>1, <1>2, <1>5, <1>7, JobsAssumption DEF Spent, IAccount, Counted, ITypes, Limits
  <2> QED
    BY <2>1, <2>2 DEF Counted
<1>9. InTime(b)'
  <2> SUFFICES ASSUME stalls' = 0 PROVE (/\ Held(b) /\ Unsold(b) /\ Remembers(b)
                                         /\ DeviceRemembers(b) /\ Unproven(b)
                                         /\ Recovering(b) /\ Waiting(b))'
    BY DEF InTime
  <2>1. /\ Held(b) /\ Unsold(b) /\ Remembers(b) /\ DeviceRemembers(b)
        /\ Unproven(b) /\ Recovering(b) /\ Waiting(b)
    BY <1>2 DEF InTime, IAccount
  <2>2. Held(b)'
    BY <1>1, <1>3, <2>1 DEF Held, Leased, Running
  <2>3. Unsold(b)'
    BY <1>1, <1>3, <2>1 DEF Unsold
  <2>4. Remembers(b)'
    BY <1>1, <1>3, <2>1 DEF Remembers
  <2>5. (DeviceRemembers(b) /\ Unproven(b) /\ Recovering(b) /\ Waiting(b))'
    BY <1>1, <2>1 DEF DeviceRemembers, Unproven, Recovering, Waiting, DeviceJob,
                      Active, Polling
  <2> QED
    BY <2>2, <2>3, <2>4, <2>5
<1> QED
  BY <1>4, <1>8, <1>9 DEF IAccount

-----------------------------------------------------------------------------
(* Counting workers *)

LEMMA Counts ==
    ASSUME NEW a \in Accounts
    PROVE  /\ IsFiniteSet(OnIts(a)) /\ IsFiniteSet(RecoversIt(a))
           /\ Cardinality(OnIts(a)) \in Nat /\ Cardinality(RecoversIt(a)) \in Nat
           /\ Cardinality(RecoversIt(a)) <= Cardinality(OnIts(a))
<1>1. IsFiniteSet(OnIts(a)) /\ RecoversIt(a) \subseteq OnIts(a)
  BY JobsAssumption, FS_Subset DEF OnIts, RecoversIt
<1> QED
  BY <1>1, FS_Subset, FS_CardinalityType

\* no worker comes or goes: the lease must not run out
LEMMA CountsStay ==
    ASSUME ITypes, ITypes', SameWork, NEW a \in Accounts, Counted(a),
           limits'[a].attempts <= limits[a].attempts,
           WorkerLease(a) => WorkerLease(a)'
    PROVE  Counted(a)'
<1>1. OnIts(a)' = OnIts(a) /\ RecoversIt(a)' = RecoversIt(a) /\ stalls' = stalls
  BY DEF SameWork, OnIts, RecoversIt, On
<1>2. Cardinality(OnIts(a)) \in Nat /\ Cardinality(RecoversIt(a)) \in Nat
      /\ stalls \in Nat
  BY Counts, JobsAssumption DEF ITypes
<1>3. Overdue(a)'
  BY <1>1, <1>2 DEF Counted, Overdue
<1>4. limits[a].attempts \in Nat /\ limits'[a].attempts \in Nat
  BY DEF ITypes, Limits
<1>5. Spent(a)'
  BY <1>1, <1>2, <1>4, JobsAssumption DEF Counted, Spent
<1> QED
  BY <1>3, <1>5 DEF Counted

\* a worker ends: it takes its attempt with it
LEMMA CountsLeave ==
    ASSUME ITypes, ITypes', NEW w \in Workers, NEW a \in Accounts, Counted(a),
           Leaves(w, a), WorkerLease(a)' => WorkerLease(a),
           limits'[a].attempts <= limits[a].attempts + 1,
           worker[w].type # "refresh_recover"
             => limits'[a].attempts <= limits[a].attempts
    PROVE  Counted(a)'
<1>1. /\ On(w, a) /\ ~On(w, a)' /\ stalls' = stalls
      /\ \A v \in Workers \ {w} : worker'[v] = worker[v]
  BY NoAccountAssumption DEF Leaves, On
<1>2. OnIts(a)' = OnIts(a) \ {w} /\ w \in OnIts(a)
  BY <1>1 DEF OnIts, On
<1>3. RecoversIt(a)' = RecoversIt(a) \ {w}
      /\ (w \in RecoversIt(a) <=> worker[w].type = "refresh_recover")
  BY <1>1 DEF RecoversIt, On
<1>4. /\ IsFiniteSet(OnIts(a)) /\ IsFiniteSet(RecoversIt(a))
      /\ Cardinality(OnIts(a)) \in Nat /\ Cardinality(RecoversIt(a)) \in Nat
      /\ stalls \in Nat
  BY Counts, JobsAssumption DEF ITypes
<1>5. Cardinality(OnIts(a))' = Cardinality(OnIts(a)) - 1
  BY <1>2, <1>4, FS_RemoveElement
<1>6. Overdue(a)'
  BY <1>1, <1>4, <1>5 DEF Counted, Overdue
<1>7. Cardinality(RecoversIt(a))' = IF worker[w].type = "refresh_recover"
                                    THEN Cardinality(RecoversIt(a)) - 1
                                    ELSE Cardinality(RecoversIt(a))
  BY <1>3, <1>4, FS_RemoveElement
<1>8. limits[a].attempts \in Nat /\ limits'[a].attempts \in Nat
  BY DEF ITypes, Limits
<1>9. Spent(a)'
  BY <1>1, <1>4, <1>7, <1>8, JobsAssumption DEF Counted, Spent
<1> QED
  BY <1>6, <1>9 DEF Counted

\* a claim: nobody has the lease, so whoever else is at it has outlived one
LEMMA CountsClaim ==
    ASSUME ITypes, NEW w \in Workers, NEW a \in Accounts, Counted(a), Claim(w, a)
    PROVE  Counted(a)'
<1>1. /\ UNCHANGED <<limits, stalls>>
      /\ worker[w].acct = NoAccount
      /\ job[a].status = "pending" /\ job[a].type \in WorkerTypes
      /\ job[a].type = "refresh_recover" => limits[a].attempts < MaxRecoveries
      /\ job'[a].status = "running" /\ job'[a].live /\ job'[a].type = job[a].type
      /\ worker'[w].acct = a /\ worker'[w].type = job[a].type
      /\ \A v \in Workers \ {w} : worker'[v] = worker[v]
  BY ClaimEffect
<1>2. ~WorkerLease(a) /\ WorkerLease(a)'
  BY <1>1 DEF WorkerLease, Leased, Running
<1>3. OnIts(a)' = OnIts(a) \cup {w} /\ w \notin OnIts(a)
  BY <1>1, NoAccountAssumption DEF OnIts, On
<1>4. IF job[a].type = "refresh_recover"
      THEN RecoversIt(a)' = RecoversIt(a) \cup {w} /\ w \notin RecoversIt(a)
      ELSE RecoversIt(a)' = RecoversIt(a)
  BY <1>1, NoAccountAssumption DEF RecoversIt, On
<1>5. /\ IsFiniteSet(OnIts(a)) /\ IsFiniteSet(RecoversIt(a))
      /\ Cardinality(OnIts(a)) \in Nat /\ Cardinality(RecoversIt(a)) \in Nat
      /\ Cardinality(RecoversIt(a)) <= Cardinality(OnIts(a))
      /\ stalls \in Nat
  BY Counts, JobsAssumption DEF ITypes
<1>6. Cardinality(OnIts(a))' = Cardinality(OnIts(a)) + 1
  BY <1>3, <1>5, FS_AddElement
<1>7. Cardinality(OnIts(a)) <= stalls
  BY <1>2, <1>5 DEF Counted, Overdue
<1>8. Overdue(a)'
  BY <1>1, <1>2, <1>5, <1>6, <1>7 DEF Overdue
<1>9. limits[a].attempts \in Nat
  BY DEF ITypes, Limits
<1>10. CASE job[a].type = "refresh_recover"
  <2>1. Cardinality(RecoversIt(a))' = Cardinality(RecoversIt(a)) + 1
    BY <1>4, <1>5, <1>10, FS_AddElement
  <2> QED
    BY <1>1, <1>5, <1>7, <1>8, <1>9, <1>10, <2>1, JobsAssumption DEF Counted, Spent
<1>11. CASE job[a].type # "refresh_recover"
  BY <1>1, <1>4, <1>8, <1>11 DEF Counted, Spent
<1> QED
  BY <1>10, <1>11

-----------------------------------------------------------------------------
(* The steps that move no worker *)

\* without a lease nobody is at work, as long as every lease was kept
LEMMA Nobody ==
    ASSUME ITypes, NEW a \in Accounts, Held(a), ~WorkerLease(a)
    PROVE  \A w \in Workers : ~On(w, a)
BY DEF Held, WorkerLease, ITypes, Work

\* nobody is at work after the step
LEMMA NobodyThen ==
    ASSUME NEW a \in Accounts, \A w \in Workers : ~On(w, a)'
    PROVE  Held(a)' /\ Unsold(a)' /\ Remembers(a)'
BY DEF Held, Unsold, Remembers

LEMMA SameOn ==
    ASSUME SameWork, NEW a \in Accounts
    PROVE  \A w \in Workers : (On(w, a)' <=> On(w, a)) /\ worker'[w] = worker[w]
BY DEF SameWork, On

LEMMA IdleSteps ==
    ASSUME SameWork, ITypes, NEW a \in Accounts, Held(a), ~WorkerLease(a)
    PROVE  Held(a)' /\ Unsold(a)' /\ Remembers(a)'
BY Nobody, NobodyThen, SameOn

LEMMA InTimeNow ==
    ASSUME ITypes, NEW a \in Accounts, IAccount(a), stalls = 0
    PROVE  /\ Held(a) /\ Unsold(a) /\ Remembers(a) /\ DeviceRemembers(a)
           /\ Unproven(a) /\ Recovering(a) /\ Waiting(a)
BY DEF IAccount, InTime

LEMMA SweepKeeps ==
    ASSUME ITypes, NEW a \in Accounts, IAccount(a),
           QueueLimitCheck(a) \/ QueueScheduled(a) \/ QueueRecovery(a)
    PROVE  ITypes' /\ Local(a) /\ IAccount(a)'
<1>1. /\ ITypes' /\ Local(a) /\ SameWork
      /\ UNCHANGED <<acct, limits, proven, readers, busy, device>>
      /\ evidence'[a] \in {"none", evidence[a]}
      /\ \/ Queued(a, "limit_check") /\ limits[a].refresh = "ok" /\ a \notin busy
            /\ job'[a] = Enqueued(job[a], "limit_check", "limit_check")
         \/ Queued(a, "full_validation") /\ acct[a].status = "active"
         \/ Queued(a, "refresh_recover") /\ limits[a].refresh = "expired"
  BY SweepEffect
<1>2. /\ job'[a].status \in {"pending", "running"}
      /\ \/ job'[a] = job[a]
         \/ /\ job[a].status # "running" /\ job'[a].status = "pending"
            /\ job'[a].holders = {}
            /\ job'[a].type \in {"limit_check", "full_validation", "refresh_recover"}
  BY <1>1 DEF Queued, Fresh
<1>3. Sound(a)'
  BY <1>1, <1>2 DEF IAccount, Sound, Suspends, Vouched, Fits, DeviceJob, Active, Leased,
                    Running, Polling
<1>4. Counted(a)'
  <2>1. limits'[a].attempts <= limits[a].attempts
    BY <1>1 DEF ITypes, Limits
  <2>2. WorkerLease(a) => WorkerLease(a)'
    BY <1>2 DEF WorkerLease, Leased, Running
  <2> QED
    BY <1>1, <2>1, <2>2, CountsStay DEF IAccount
<1>5. InTime(a)'
  <2> SUFFICES ASSUME stalls' = 0 PROVE (/\ Held(a) /\ Unsold(a) /\ Remembers(a)
                                         /\ DeviceRemembers(a) /\ Unproven(a)
                                         /\ Recovering(a) /\ Waiting(a))'
    BY DEF InTime
  <2>1. /\ Held(a) /\ Unsold(a) /\ Remembers(a) /\ DeviceRemembers(a)
        /\ Unproven(a) /\ Recovering(a) /\ Waiting(a) /\ Fits(a)
    BY <1>1, InTimeNow DEF SameWork, IAccount, Sound
  <2>2. Held(a)'
    BY <1>1, <1>2, <2>1, SameOn DEF Held, Leased, Running
  <2>3. Unsold(a)' /\ Remembers(a)'
    BY <1>1, <2>1, SameOn DEF Unsold, Remembers
  <2>4. DeviceRemembers(a)' /\ Unproven(a)'
    BY <1>1, <1>2, <2>1 DEF DeviceRemembers, Unproven, DeviceJob, Active, Polling
  <2>5. Recovering(a)'
    BY <1>1, <1>2, <2>1 DEF Recovering, Active, Queued, Fresh
  <2>6. Waiting(a)'
    <3> SUFFICES ASSUME acct'[a].status = "pending_validation", ~acct'[a].rerun
                 PROVE  job'[a].type # "limit_check"
      BY <1>2 DEF Waiting, Active
    <3>1. IF Active(a) THEN job[a].type # "limit_check"
          ELSE limits[a].refresh = "expired"
      BY <1>1, <2>1 DEF Waiting
    <3>2. ASSUME Active(a) PROVE Enqueued(job[a], "limit_check", "limit_check") = job[a]
      <4>1. job[a].prio \in Priority /\ "limit_check" \in Priority
        BY DEF ITypes, Job, Priority
      <4>2. /\ Urgency["limit_check"] = 3
            /\ \A p \in Priority : Urgency[p] \in 0..3
        BY DEF Urgency, Priority
      <4>3. Urgency["limit_check"] >= Urgency[job[a].prio]
        BY <4>1, <4>2
      <4> QED
        BY <3>2, <4>3 DEF Enqueued, Keeps, Active
    <3> QED
      BY <1>1, <3>1, <3>2 DEF Queued, Fresh, Active
  <2> QED
    BY <2>2, <2>3, <2>4, <2>5, <2>6
<1> QED
  BY <1>1, <1>3, <1>4, <1>5 DEF IAccount

LEMMA RecoverStaleKeeps ==
    ASSUME ITypes, NEW a \in Accounts, IAccount(a), RecoverStale(a)
    PROVE  ITypes' /\ Local(a) /\ IAccount(a)'
<1>1. /\ ITypes' /\ Local(a) /\ SameWork
      /\ UNCHANGED <<acct, limits, evidence, proven, readers, busy, device>>
      /\ job[a].status = "running" /\ ~job[a].live /\ job[a].type \in WorkerTypes
      /\ job'[a].status = "pending" /\ job'[a].type = job[a].type
      /\ job'[a].holders = job[a].holders
  BY RecoverStaleEffect
<1>2. Sound(a)'
  BY <1>1 DEF IAccount, Sound, Suspends, Vouched, Fits, DeviceJob, Active, Leased,
              Running, Polling, WorkerTypes
<1>3. ~WorkerLease(a)
  BY <1>1 DEF WorkerLease, Leased
<1>4. Counted(a)'
  <2>1. limits'[a].attempts <= limits[a].attempts
    BY <1>1 DEF ITypes, Limits
  <2> QED
    BY <1>1, <1>3, <2>1, CountsStay DEF IAccount
<1>5. InTime(a)'
  <2> SUFFICES ASSUME stalls' = 0 PROVE (/\ Held(a) /\ Unsold(a) /\ Remembers(a)
                                         /\ DeviceRemembers(a) /\ Unproven(a)
                                         /\ Recovering(a) /\ Waiting(a))'
    BY DEF InTime
  <2>1. /\ Held(a) /\ Unsold(a) /\ Remembers(a) /\ DeviceRemembers(a)
        /\ Unproven(a) /\ Recovering(a) /\ Waiting(a) /\ Fits(a)
    BY <1>1, InTimeNow DEF SameWork, IAccount, Sound
  <2>2. Held(a)' /\ Unsold(a)' /\ Remembers(a)'
    BY <1>1, <1>3, <2>1, IdleSteps
  <2>3. (DeviceRemembers(a) /\ Unproven(a) /\ Recovering(a) /\ Waiting(a))'
    BY <1>1, <2>1 DEF DeviceRemembers, Unproven, Recovering, Waiting, DeviceJob, Active,
                      Polling, WorkerTypes
  <2> QED
    BY <2>2, <2>3
<1> QED
  BY <1>1, <1>2, <1>4, <1>5 DEF IAccount

LEMMA RecheckKeeps ==
    ASSUME ITypes, NEW a \in Accounts, IAccount(a), Recheck(a)
    PROVE  ITypes' /\ Local(a) /\ IAccount(a)'
<1>1. /\ ITypes' /\ Local(a) /\ SameWork
      /\ UNCHANGED <<limits, proven, readers, busy, device>>
      /\ a \notin busy /\ ~Leased(a) /\ Fresh(job'[a], "full_validation")
      /\ RowIs(a, "pending_validation", FALSE, acct[a].rerun)
      /\ evidence'[a] = "none"
  BY RecheckEffect
<1>3. Sound(a)'
  BY <1>1 DEF IAccount, Sound, Suspends, Vouched, Fits, DeviceJob, Active, Leased,
              Running, Polling, Fresh, RowIs
<1>4. Counted(a)'
  <2>1. limits'[a].attempts <= limits[a].attempts
    BY <1>1 DEF ITypes, Limits
  <2>2. WorkerLease(a) => WorkerLease(a)'
    BY <1>1 DEF WorkerLease, Leased, Running
  <2> QED
    BY <1>1, <2>1, <2>2, CountsStay DEF IAccount
<1>5. InTime(a)'
  <2> SUFFICES ASSUME stalls' = 0 PROVE (/\ Held(a) /\ Unsold(a) /\ Remembers(a)
                                         /\ DeviceRemembers(a) /\ Unproven(a)
                                         /\ Recovering(a) /\ Waiting(a))'
    BY DEF InTime
  <2>1. /\ Held(a) /\ Unsold(a) /\ Remembers(a) /\ DeviceRemembers(a)
        /\ Unproven(a) /\ Recovering(a) /\ Waiting(a) /\ Fits(a)
    BY <1>1, InTimeNow DEF SameWork, IAccount, Sound
  <2>2. Held(a)' /\ Unsold(a)' /\ Remembers(a)'
    <3>1. ~WorkerLease(a)
      BY <1>1, <2>1 DEF WorkerLease
    <3> QED
      BY <1>1, <2>1, <3>1, IdleSteps
  <2>5. DeviceRemembers(a)'
    BY <1>1, <2>1 DEF DeviceRemembers, DeviceJob, Active, Polling, Fits, Leased,
       Running, RowIs, Fresh, RowIs
  <2>6. Unproven(a)'
    BY <1>1, <2>1 DEF Unproven, RowIs, Fresh, RowIs
  <2>7. Recovering(a)'
    BY <1>1, <2>1 DEF Recovering, Active, Fresh, RowIs
  <2>8. Waiting(a)'
    BY <1>1, <2>1 DEF Waiting, Active, Recovering, RowIs, Fresh, RowIs
  <2> QED
    BY <2>1, <2>2, <2>5, <2>6, <2>7, <2>8
<1> QED
  BY <1>1, <1>3, <1>4, <1>5 DEF IAccount

LEMMA EditKeeps ==
    ASSUME ITypes, NEW a \in Accounts, IAccount(a), EditCredentials(a)
    PROVE  ITypes' /\ Local(a) /\ IAccount(a)'
<1>1. /\ ITypes' /\ Local(a) /\ SameWork
      /\ UNCHANGED <<limits, busy, device>>
      /\ a \notin busy
      /\ IF Leased(a) THEN job'[a] = job[a] ELSE Fresh(job'[a], "full_validation")
      /\ RowIs(a, "pending_validation", FALSE, Leased(a))
      /\ evidence'[a] = "none" /\ readers'[a] = {} /\ ~proven'[a]
  BY EditEffect
<1>3. Sound(a)'
  BY <1>1 DEF IAccount, Sound, Suspends, Vouched, Fits, DeviceJob, Active, Leased,
              Running, Polling, Fresh, RowIs
<1>4. Counted(a)'
  <2>1. limits'[a].attempts <= limits[a].attempts
    BY <1>1 DEF ITypes, Limits
  <2>2. WorkerLease(a) => WorkerLease(a)'
    BY <1>1 DEF WorkerLease, Leased, Running
  <2> QED
    BY <1>1, <2>1, <2>2, CountsStay DEF IAccount
<1>5. InTime(a)'
  <2> SUFFICES ASSUME stalls' = 0 PROVE (/\ Held(a) /\ Unsold(a) /\ Remembers(a)
                                         /\ DeviceRemembers(a) /\ Unproven(a)
                                         /\ Recovering(a) /\ Waiting(a))'
    BY DEF InTime
  <2>1. /\ Held(a) /\ Unsold(a) /\ Remembers(a) /\ DeviceRemembers(a)
        /\ Unproven(a) /\ Recovering(a) /\ Waiting(a) /\ Fits(a)
    BY <1>1, InTimeNow DEF SameWork, IAccount, Sound
  <2>2. Held(a)'
    BY <1>1, <2>1, SameOn DEF Held, Leased, Running
  <2>3. Unsold(a)'
    BY <1>1, <2>1, SameOn, Nobody DEF Unsold, WorkerLease, Leased, Running, Active
  <2>4. Remembers(a)'
    BY <1>1, <2>1, SameOn DEF Held, Remembers, RowIs
  <2>5. DeviceRemembers(a)'
    BY <1>1, <2>1 DEF DeviceRemembers, DeviceJob, Active, Polling, Fits, Leased,
       Running, RowIs, Fresh, RowIs
  <2>6. Unproven(a)'
    BY <1>1, <2>1 DEF Unproven, RowIs, Fresh, RowIs
  <2>7. Recovering(a)'
    BY <1>1, <2>1 DEF Recovering, Active, Fresh, RowIs
  <2>8. Waiting(a)'
    BY <1>1, <2>1 DEF Waiting, Active, Recovering, RowIs, Fresh, RowIs
  <2> QED
    BY <2>1, <2>2, <2>3, <2>4, <2>5, <2>6, <2>7, <2>8
<1> QED
  BY <1>1, <1>3, <1>4, <1>5 DEF IAccount

LEMMA RouteKeeps ==
    ASSUME ITypes, NEW a \in Accounts, IAccount(a), ChangeRoute(a)
    PROVE  ITypes' /\ Local(a) /\ IAccount(a)'
<1>1. /\ ITypes' /\ Local(a) /\ SameWork
      /\ UNCHANGED <<limits, busy, device>>
      /\ a \notin busy /\ ~Active(a) /\ Fresh(job'[a], "full_validation")
      /\ RowIs(a, Status(acct[a], "pending_validation"), acct[a].suspended, FALSE)
      /\ evidence'[a] = "none" /\ readers'[a] = {} /\ ~proven'[a]
  BY RouteEffect
<1>3. Sound(a)'
  BY <1>1 DEF IAccount, Sound, Suspends, Vouched, Fits, DeviceJob, Active, Leased,
              Running, Polling, Fresh, RowIs, Status
<1>4. Counted(a)'
  <2>1. limits'[a].attempts <= limits[a].attempts
    BY <1>1 DEF ITypes, Limits
  <2>2. WorkerLease(a) => WorkerLease(a)'
    BY <1>1 DEF WorkerLease, Leased, Running, Active
  <2> QED
    BY <1>1, <2>1, <2>2, CountsStay DEF IAccount
<1>5. InTime(a)'
  <2> SUFFICES ASSUME stalls' = 0 PROVE (/\ Held(a) /\ Unsold(a) /\ Remembers(a)
                                         /\ DeviceRemembers(a) /\ Unproven(a)
                                         /\ Recovering(a) /\ Waiting(a))'
    BY DEF InTime
  <2>1. /\ Held(a) /\ Unsold(a) /\ Remembers(a) /\ DeviceRemembers(a)
        /\ Unproven(a) /\ Recovering(a) /\ Waiting(a) /\ Fits(a)
    BY <1>1, InTimeNow DEF SameWork, IAccount, Sound
  <2>2. Held(a)' /\ Unsold(a)' /\ Remembers(a)'
    <3>1. ~WorkerLease(a)
      BY <1>1, <2>1 DEF WorkerLease, Leased, Running, Active
    <3> QED
      BY <1>1, <2>1, <3>1, IdleSteps
  <2>5. DeviceRemembers(a)'
    BY <1>1, <2>1 DEF DeviceRemembers, DeviceJob, Active, Polling, Fits, Leased,
       Running, RowIs, Fresh, RowIs, Status
  <2>6. Unproven(a)'
    BY <1>1, <2>1 DEF Unproven, RowIs, Fresh, RowIs, Status
  <2>7. Recovering(a)'
    BY <1>1, <2>1 DEF Recovering, Active, Fresh, RowIs, Status
  <2>8. Waiting(a)'
    BY <1>1, <2>1 DEF Waiting, Active, Recovering, RowIs, Fresh, RowIs, Status
  <2> QED
    BY <2>1, <2>2, <2>5, <2>6, <2>7, <2>8
<1> QED
  BY <1>1, <1>3, <1>4, <1>5 DEF IAccount

LEMMA SuspendKeeps ==
    ASSUME ITypes, NEW a \in Accounts, IAccount(a), Suspend(a)
    PROVE  ITypes' /\ Local(a) /\ IAccount(a)'
<1>1. /\ ITypes' /\ Local(a) /\ SameWork
      /\ UNCHANGED <<limits, job, evidence, proven, readers, busy, device>>
      /\ RowIs(a, "suspended", TRUE, acct[a].rerun)
  BY SuspendEffect
<1>3. Sound(a)'
  BY <1>1 DEF IAccount, Sound, Suspends, Vouched, Fits, DeviceJob, Active, Leased,
              Running, Polling, RowIs
<1>4. Counted(a)'
  <2>1. limits'[a].attempts <= limits[a].attempts
    BY <1>1 DEF ITypes, Limits
  <2>2. WorkerLease(a) => WorkerLease(a)'
    BY <1>1 DEF WorkerLease, Leased, Running
  <2> QED
    BY <1>1, <2>1, <2>2, CountsStay DEF IAccount
<1>5. InTime(a)'
  <2> SUFFICES ASSUME stalls' = 0 PROVE (/\ Held(a) /\ Unsold(a) /\ Remembers(a)
                                         /\ DeviceRemembers(a) /\ Unproven(a)
                                         /\ Recovering(a) /\ Waiting(a))'
    BY DEF InTime
  <2>1. /\ Held(a) /\ Unsold(a) /\ Remembers(a) /\ DeviceRemembers(a)
        /\ Unproven(a) /\ Recovering(a) /\ Waiting(a) /\ Fits(a)
    BY <1>1, InTimeNow DEF SameWork, IAccount, Sound
  <2>2. Held(a)'
    BY <1>1, <2>1, SameOn DEF Held, Leased, Running
  <2>3. Unsold(a)'
    BY <1>1, <2>1, SameOn, Nobody DEF Unsold, WorkerLease, Leased, Running, Active
  <2>4. Remembers(a)'
    BY <1>1, <2>1, SameOn DEF Held, Remembers, RowIs
  <2>5. DeviceRemembers(a)'
    BY <1>1, <2>1 DEF DeviceRemembers, DeviceJob, Active, Polling, Fits, Leased,
       Running, RowIs, RowIs
  <2>6. Unproven(a)'
    BY <1>1, <2>1 DEF Unproven, RowIs, RowIs
  <2>7. Recovering(a)'
    BY <1>1, <2>1 DEF Recovering, Active, RowIs
  <2>8. Waiting(a)'
    BY <1>1, <2>1 DEF Waiting, Active, Recovering, RowIs, RowIs
  <2> QED
    BY <2>1, <2>2, <2>3, <2>4, <2>5, <2>6, <2>7, <2>8
<1> QED
  BY <1>1, <1>3, <1>4, <1>5 DEF IAccount

LEMMA ConfirmKeeps ==
    ASSUME ITypes, NEW a \in Accounts, IAccount(a), ConfirmByHand(a)
    PROVE  ITypes' /\ Local(a) /\ IAccount(a)'
<1>1. /\ ITypes' /\ Local(a) /\ SameWork
      /\ UNCHANGED <<limits, job, evidence, readers, busy, device>>
      /\ RowIs(a, "active", FALSE, FALSE) /\ proven'[a] /\ ~Active(a)
  BY ConfirmEffect
<1>3. Sound(a)'
  BY <1>1 DEF IAccount, Sound, Suspends, Vouched, Fits, DeviceJob, Active, Leased,
              Running, Polling, RowIs
<1>4. Counted(a)'
  <2>1. limits'[a].attempts <= limits[a].attempts
    BY <1>1 DEF ITypes, Limits
  <2>2. WorkerLease(a) => WorkerLease(a)'
    BY <1>1 DEF WorkerLease, Leased, Running
  <2> QED
    BY <1>1, <2>1, <2>2, CountsStay DEF IAccount
<1>5. InTime(a)'
  <2> SUFFICES ASSUME stalls' = 0 PROVE (/\ Held(a) /\ Unsold(a) /\ Remembers(a)
                                         /\ DeviceRemembers(a) /\ Unproven(a)
                                         /\ Recovering(a) /\ Waiting(a))'
    BY DEF InTime
  <2>1. /\ Held(a) /\ Unsold(a) /\ Remembers(a) /\ DeviceRemembers(a)
        /\ Unproven(a) /\ Recovering(a) /\ Waiting(a) /\ Fits(a)
    BY <1>1, InTimeNow DEF SameWork, IAccount, Sound
  <2>2. Held(a)' /\ Unsold(a)' /\ Remembers(a)'
    <3>1. ~WorkerLease(a)
      BY <1>1, <2>1 DEF WorkerLease, Leased, Running, Active
    <3> QED
      BY <1>1, <2>1, <3>1, IdleSteps
  <2>5. DeviceRemembers(a)'
    BY <1>1, <2>1 DEF DeviceRemembers, DeviceJob, Active, Polling, Fits, Leased,
       Running, RowIs, RowIs
  <2>6. Unproven(a)'
    BY <1>1, <2>1 DEF Unproven, RowIs, RowIs
  <2>7. Recovering(a)'
    BY <1>1, <2>1 DEF Recovering, Active, RowIs
  <2>8. Waiting(a)'
    BY <1>1, <2>1 DEF Waiting, Active, Recovering, RowIs, RowIs
  <2> QED
    BY <2>1, <2>2, <2>5, <2>6, <2>7, <2>8
<1> QED
  BY <1>1, <1>3, <1>4, <1>5 DEF IAccount

LEMMA RentalKeeps ==
    ASSUME ITypes, NEW a \in Accounts, IAccount(a),
           EvidenceAges(a) \/ Rent(a) \/ Return(a) \/ MeasuredForBuyer(a)
    PROVE  ITypes' /\ Local(a) /\ IAccount(a)'
<1>1. /\ ITypes' /\ Local(a) /\ SameWork
      /\ UNCHANGED <<acct, job, proven, readers, device>>
      /\ evidence'[a] \in {"none", evidence[a]}
      /\ a \in busy' => a \in busy \/ ~Active(a)
      /\ limits'[a].attempts = limits[a].attempts
      /\ limits'[a].refresh \in {limits[a].refresh, "expired"}
  BY RentalEffect
<1>3. Sound(a)'
  BY <1>1 DEF IAccount, Sound, Suspends, Vouched, Fits, DeviceJob, Active, Leased,
              Running, Polling
<1>4. Counted(a)'
  <2>1. limits'[a].attempts <= limits[a].attempts
    BY <1>1 DEF ITypes, Limits
  <2>2. WorkerLease(a) => WorkerLease(a)'
    BY <1>1 DEF WorkerLease, Leased, Running
  <2> QED
    BY <1>1, <2>1, <2>2, CountsStay DEF IAccount
<1>5. InTime(a)'
  <2> SUFFICES ASSUME stalls' = 0 PROVE (/\ Held(a) /\ Unsold(a) /\ Remembers(a)
                                         /\ DeviceRemembers(a) /\ Unproven(a)
                                         /\ Recovering(a) /\ Waiting(a))'
    BY DEF InTime
  <2>1. /\ Held(a) /\ Unsold(a) /\ Remembers(a) /\ DeviceRemembers(a)
        /\ Unproven(a) /\ Recovering(a) /\ Waiting(a) /\ Fits(a)
    BY <1>1, InTimeNow DEF SameWork, IAccount, Sound
  <2>2. Held(a)'
    BY <1>1, <2>1, SameOn DEF Held, Leased, Running
  <2>3. Unsold(a)'
    BY <1>1, <2>1, SameOn, Nobody DEF Unsold, WorkerLease, Leased, Running, Active
  <2>4. Remembers(a)'
    BY <1>1, <2>1, SameOn DEF Held, Remembers, RowIs
  <2>5. DeviceRemembers(a)'
    BY <1>1, <2>1 DEF DeviceRemembers, DeviceJob, Active, Polling, Fits, Leased,
       Running, RowIs
  <2>6. Unproven(a)'
    BY <1>1, <2>1 DEF Unproven, RowIs
  <2>7. Recovering(a)'
    BY <1>1, <2>1 DEF Recovering, Active
  <2>8. Waiting(a)'
    BY <1>1, <2>1 DEF Waiting, Active, Recovering, RowIs
  <2> QED
    BY <2>1, <2>2, <2>3, <2>4, <2>5, <2>6, <2>7, <2>8
<1> QED
  BY <1>1, <1>3, <1>4, <1>5 DEF IAccount

LEMMA StartKeeps ==
    ASSUME ITypes, NEW a \in Accounts, IAccount(a), StartDevice(a)
    PROVE  ITypes' /\ Local(a) /\ IAccount(a)'
<1>1. /\ ITypes' /\ Local(a) /\ SameWork
      /\ UNCHANGED <<limits, proven, readers, busy>>
      /\ LockFree /\ a \notin busy /\ (~Leased(a) \/ OwnsJob(a))
      /\ Fresh(job'[a], "device_auth") /\ device'[a].at = "pending"
      /\ RowIs(a, "pending_validation", FALSE, acct[a].rerun)
      /\ evidence'[a] = "none"
  BY StartEffect
<1>3. Sound(a)'
  BY <1>1 DEF IAccount, Sound, Suspends, Vouched, Fits, DeviceJob, Active, Leased,
              Running, Polling, Fresh, RowIs
<1>4. Counted(a)'
  <2>1. limits'[a].attempts <= limits[a].attempts
    BY <1>1 DEF ITypes, Limits
  <2>2. WorkerLease(a) => WorkerLease(a)'
    BY <1>1 DEF WorkerLease, WorkerTypes, OwnsJob, IAccount, Sound, Fits
  <2> QED
    BY <1>1, <2>1, <2>2, CountsStay DEF IAccount
<1>5. InTime(a)'
  <2> SUFFICES ASSUME stalls' = 0 PROVE (/\ Held(a) /\ Unsold(a) /\ Remembers(a)
                                         /\ DeviceRemembers(a) /\ Unproven(a)
                                         /\ Recovering(a) /\ Waiting(a))'
    BY DEF InTime
  <2>1. /\ Held(a) /\ Unsold(a) /\ Remembers(a) /\ DeviceRemembers(a)
        /\ Unproven(a) /\ Recovering(a) /\ Waiting(a) /\ Fits(a)
    BY <1>1, InTimeNow DEF SameWork, IAccount, Sound
  <2>2. Held(a)' /\ Unsold(a)' /\ Remembers(a)'
    <3>1. ~WorkerLease(a)
      BY <1>1, <2>1 DEF WorkerLease, WorkerTypes, OwnsJob, Fits
    <3> QED
      BY <1>1, <2>1, <3>1, IdleSteps
  <2>5. DeviceRemembers(a)'
    BY <1>1, <2>1 DEF DeviceRemembers, DeviceJob, Active, Polling, Fits, Leased,
       Running, RowIs, Fresh, RowIs
  <2>6. Unproven(a)'
    BY <1>1, <2>1 DEF Unproven, RowIs, Fresh, RowIs
  <2>7. Recovering(a)'
    BY <1>1, <2>1 DEF Recovering, Active, Fresh, RowIs
  <2>8. Waiting(a)'
    BY <1>1, <2>1 DEF Waiting, Active, Recovering, RowIs, Fresh, RowIs
  <2> QED
    BY <2>1, <2>2, <2>5, <2>6, <2>7, <2>8
<1> QED
  BY <1>1, <1>3, <1>4, <1>5 DEF IAccount

LEMMA PollBeginKeeps ==
    ASSUME ITypes, NEW a \in Accounts, IAccount(a), PollBegin(a)
    PROVE  ITypes' /\ Local(a) /\ IAccount(a)'
<1>1. /\ ITypes' /\ Local(a) /\ SameWork
      /\ UNCHANGED <<acct, limits, evidence, proven, readers, busy>>
      /\ DeviceJob(a) /\ job'[a].status = "running" /\ job'[a].type = job[a].type
      /\ job'[a].live = job[a].live /\ job'[a].holders = job[a].holders \cup {Device}
      /\ device'[a].at = "polling" /\ device'[a].status = acct[a].status
  BY PollBeginEffect
<1>3. Sound(a)'
  BY <1>1 DEF IAccount, Sound, Suspends, Vouched, Fits, DeviceJob, Active, Leased,
              Running, Polling
<1>4. Counted(a)'
  <2>1. limits'[a].attempts <= limits[a].attempts
    BY <1>1 DEF ITypes, Limits
  <2>2. WorkerLease(a) => WorkerLease(a)'
    BY <1>1 DEF WorkerLease, WorkerTypes, DeviceJob
  <2> QED
    BY <1>1, <2>1, <2>2, CountsStay DEF IAccount
<1>5. InTime(a)'
  <2> SUFFICES ASSUME stalls' = 0 PROVE (/\ Held(a) /\ Unsold(a) /\ Remembers(a)
                                         /\ DeviceRemembers(a) /\ Unproven(a)
                                         /\ Recovering(a) /\ Waiting(a))'
    BY DEF InTime
  <2>1. /\ Held(a) /\ Unsold(a) /\ Remembers(a) /\ DeviceRemembers(a)
        /\ Unproven(a) /\ Recovering(a) /\ Waiting(a) /\ Fits(a)
    BY <1>1, InTimeNow DEF SameWork, IAccount, Sound
  <2>2. Held(a)' /\ Unsold(a)' /\ Remembers(a)'
    <3>1. ~WorkerLease(a)
      BY <1>1, <2>1 DEF WorkerLease, WorkerTypes, DeviceJob
    <3> QED
      BY <1>1, <2>1, <3>1, IdleSteps
  <2>5. DeviceRemembers(a)'
    BY <1>1, <2>1 DEF DeviceRemembers, DeviceJob, Active, Polling, Fits, Leased,
       Running, RowIs
  <2>6. Unproven(a)'
    BY <1>1, <2>1 DEF Unproven, RowIs
  <2>7. Recovering(a)'
    BY <1>1, <2>1 DEF Recovering, Active, DeviceJob
  <2>8. Waiting(a)'
    BY <1>1, <2>1 DEF Waiting, Active, Recovering, RowIs, DeviceJob
  <2> QED
    BY <2>1, <2>2, <2>5, <2>6, <2>7, <2>8
<1> QED
  BY <1>1, <1>3, <1>4, <1>5 DEF IAccount

LEMMA PollIdleKeeps ==
    ASSUME ITypes, NEW a \in Accounts, IAccount(a), PollSuperseded(a) \/ PollEmpty(a)
    PROVE  ITypes' /\ Local(a) /\ IAccount(a)'
<1>1. /\ ITypes' /\ Local(a) /\ SameWork
      /\ UNCHANGED <<acct, limits, job, evidence, proven, readers, busy>>
      /\ device[a].at # "none"
      /\ device'[a].at \in {"none", "pending"}
  BY PollIdleEffect
<1>3. Sound(a)'
  BY <1>1 DEF IAccount, Sound, Suspends, Vouched, Fits, DeviceJob, Active, Leased,
              Running, Polling
<1>4. Counted(a)'
  <2>1. limits'[a].attempts <= limits[a].attempts
    BY <1>1 DEF ITypes, Limits
  <2>2. WorkerLease(a) => WorkerLease(a)'
    BY <1>1 DEF WorkerLease, Leased, Running
  <2> QED
    BY <1>1, <2>1, <2>2, CountsStay DEF IAccount
<1>5. InTime(a)'
  <2> SUFFICES ASSUME stalls' = 0 PROVE (/\ Held(a) /\ Unsold(a) /\ Remembers(a)
                                         /\ DeviceRemembers(a) /\ Unproven(a)
                                         /\ Recovering(a) /\ Waiting(a))'
    BY DEF InTime
  <2>1. /\ Held(a) /\ Unsold(a) /\ Remembers(a) /\ DeviceRemembers(a)
        /\ Unproven(a) /\ Recovering(a) /\ Waiting(a) /\ Fits(a)
    BY <1>1, InTimeNow DEF SameWork, IAccount, Sound
  <2>2. Held(a)'
    BY <1>1, <2>1, SameOn DEF Held, Leased, Running
  <2>3. Unsold(a)'
    BY <1>1, <2>1, SameOn, Nobody DEF Unsold, WorkerLease, Leased, Running, Active
  <2>4. Remembers(a)'
    BY <1>1, <2>1, SameOn DEF Held, Remembers, RowIs
  <2>5. DeviceRemembers(a)'
    BY <1>1, <2>1 DEF DeviceRemembers, DeviceJob, Active, Polling, Fits, Leased,
       Running, RowIs
  <2>6. Unproven(a)'
    BY <1>1, <2>1 DEF Unproven, RowIs
  <2>7. Recovering(a)'
    BY <1>1, <2>1 DEF Recovering, Active
  <2>8. Waiting(a)'
    BY <1>1, <2>1 DEF Waiting, Active, Recovering, RowIs
  <2> QED
    BY <2>1, <2>2, <2>3, <2>4, <2>5, <2>6, <2>7, <2>8
<1> QED
  BY <1>1, <1>3, <1>4, <1>5 DEF IAccount

LEMMA ConnectedKeeps ==
    ASSUME ITypes, NEW a \in Accounts, IAccount(a), DeviceConnected(a)
    PROVE  ITypes' /\ Local(a) /\ IAccount(a)'
<1>1. /\ ITypes' /\ Local(a) /\ SameWork
      /\ UNCHANGED <<proven, busy>>
      /\ Polling(a) /\ Fresh(job'[a], "full_validation")
      /\ acct'[a].status \in {"pending_validation", "suspended"}
      /\ acct'[a].suspended = acct[a].suspended
      /\ limits'[a].attempts = 0 /\ device'[a].at = "none"
      /\ readers'[a] = readers[a] \cup {Device}
  BY ConnectedEffect
<1>3. Sound(a)'
  BY <1>1 DEF IAccount, Sound, Suspends, Vouched, Fits, DeviceJob, Active, Leased,
              Running, Polling, Fresh
<1>4. Counted(a)'
  <2>1. limits'[a].attempts <= limits[a].attempts
    BY <1>1 DEF ITypes, Limits
  <2>2. WorkerLease(a) => WorkerLease(a)'
    BY <1>1 DEF WorkerLease, WorkerTypes, DeviceJob, Polling, IAccount, Sound, Fits
  <2> QED
    BY <1>1, <2>1, <2>2, CountsStay DEF IAccount
<1>5. InTime(a)'
  <2> SUFFICES ASSUME stalls' = 0 PROVE (/\ Held(a) /\ Unsold(a) /\ Remembers(a)
                                         /\ DeviceRemembers(a) /\ Unproven(a)
                                         /\ Recovering(a) /\ Waiting(a))'
    BY DEF InTime
  <2>1. /\ Held(a) /\ Unsold(a) /\ Remembers(a) /\ DeviceRemembers(a)
        /\ Unproven(a) /\ Recovering(a) /\ Waiting(a) /\ Fits(a)
    BY <1>1, InTimeNow DEF SameWork, IAccount, Sound
  <2>2. Held(a)' /\ Unsold(a)' /\ Remembers(a)'
    <3>1. ~WorkerLease(a)
      BY <1>1, <2>1 DEF WorkerLease, WorkerTypes, DeviceJob, Polling, Fits
    <3> QED
      BY <1>1, <2>1, <3>1, IdleSteps
  <2>5. DeviceRemembers(a)'
    BY <1>1, <2>1 DEF DeviceRemembers, DeviceJob, Active, Polling, Fits, Leased,
       Running, RowIs, Fresh
  <2>6. Unproven(a)'
    BY <1>1, <2>1 DEF Unproven, RowIs, Fresh
  <2>7. Recovering(a)'
    BY <1>1, <2>1 DEF Recovering, Active, Fresh
  <2>8. Waiting(a)'
    BY <1>1, <2>1 DEF Waiting, Active, Recovering, RowIs, Fresh
  <2> QED
    BY <2>1, <2>2, <2>5, <2>6, <2>7, <2>8
<1> QED
  BY <1>1, <1>3, <1>4, <1>5 DEF IAccount

LEMMA GiveUpKeeps ==
    ASSUME ITypes, NEW w \in Workers, NEW a \in Accounts, IAccount(a),
           GiveUpRecovery(w, a)
    PROVE  ITypes' /\ Local(a) /\ IAccount(a)'
<1>1. /\ ITypes' /\ Local(a) /\ SameWork
      /\ UNCHANGED <<limits, proven, readers, busy, device>>
      /\ job[a].status = "pending" /\ job[a].type = "refresh_recover"
      /\ limits[a].attempts >= MaxRecoveries
      /\ IF acct[a].rerun THEN Fresh(job'[a], "full_validation")
         ELSE job'[a].status = "ended" /\ job'[a].holders = job[a].holders
      /\ RowIs(a, IF acct[a].rerun THEN Status(acct[a], "pending_validation")
                  ELSE acct[a].status, acct[a].suspended, FALSE)
      /\ evidence'[a] \in {"none", evidence[a]}
  BY GiveUpEffect
<1>2. /\ acct'[a].suspended = acct[a].suspended /\ ~acct'[a].rerun
      /\ IF acct[a].rerun THEN acct'[a].status \in {"pending_validation", "suspended"}
         ELSE acct'[a].status = acct[a].status
  BY <1>1 DEF RowIs, Status
<1>3. Sound(a)'
  BY <1>1, <1>2 DEF IAccount, Sound, Suspends, Vouched, Fits, DeviceJob, Active, Leased,
                    Running, Polling, Fresh
<1>4. ~WorkerLease(a)
  BY <1>1 DEF WorkerLease, Leased, Running
<1>5. Counted(a)'
  <2>1. limits'[a].attempts <= limits[a].attempts
    BY <1>1 DEF ITypes, Limits
  <2> QED
    BY <1>1, <1>4, <2>1, CountsStay DEF IAccount
<1>6. InTime(a)'
  <2> SUFFICES ASSUME stalls' = 0 PROVE (/\ Held(a) /\ Unsold(a) /\ Remembers(a)
                                         /\ DeviceRemembers(a) /\ Unproven(a)
                                         /\ Recovering(a) /\ Waiting(a))'
    BY DEF InTime
  <2>1. /\ Held(a) /\ Unsold(a) /\ Remembers(a) /\ DeviceRemembers(a)
        /\ Unproven(a) /\ Recovering(a) /\ Waiting(a) /\ Fits(a)
    BY <1>1, InTimeNow DEF SameWork, IAccount, Sound
  <2>2. Held(a)' /\ Unsold(a)' /\ Remembers(a)'
    BY <1>1, <1>4, <2>1, IdleSteps
  <2>3. DeviceRemembers(a)'
    BY <1>1, <2>1 DEF DeviceRemembers, DeviceJob, Active, Polling, Fits, Fresh
  <2>4. Unproven(a)' /\ Recovering(a)'
    BY <1>1, <1>2, <2>1 DEF Unproven, Recovering, Active, Fresh
  <2>5. Waiting(a)'
    BY <1>1, <1>2, <2>1 DEF Waiting, Recovering, Active, Fresh
  <2> QED
    BY <2>2, <2>3, <2>4, <2>5
<1> QED
  BY <1>1, <1>3, <1>5, <1>6 DEF IAccount

\* what a device login that ends without tokens makes of its account: the same
\* whether the manager or a restart ends it
LEMMA LoginEnds ==
    ASSUME ITypes, NEW a \in Accounts, NEW m \in RowStatus, Sound(a), DeviceJob(a),
           acct'[a] = FailedRow(a, m), job'[a] = FailedJob(a),
           evidence'[a] = "none", device'[a].at = "none", UNCHANGED <<busy, proven>>
    PROVE  /\ Sound(a)'
           /\ /\ DeviceRemembers(a)
              /\ acct[a].status = "pending_validation" /\ ~acct[a].rerun
                   => m = "pending_validation"
              => DeviceRemembers(a)' /\ Unproven(a)' /\ Recovering(a)' /\ Waiting(a)'
<1>1. /\ FailedRow(a, m).suspended = acct[a].suspended /\ ~FailedRow(a, m).rerun
      /\ \/ FailedRow(a, m).status = "suspended" /\ acct[a].suspended
         \/ FailedRow(a, m).status = "pending_validation" /\ acct[a].rerun
         \/ FailedRow(a, m).status = "validation_failed"
         \/ FailedRow(a, m).status = acct[a].status
            /\ (m = "pending_validation" => acct[a].rerun)
      /\ IF acct[a].rerun THEN Fresh(FailedJob(a), "full_validation")
         ELSE FailedJob(a).status = "ended" /\ FailedJob(a).holders = job[a].holders
  BY FailedTyped
<1>2. IF acct[a].rerun THEN Fresh(job'[a], "full_validation")
      ELSE job'[a].status = "ended"
  BY <1>1
<1>3. /\ acct'[a].suspended = acct[a].suspended /\ ~acct'[a].rerun
      /\ \/ acct'[a].status \in {"suspended", "validation_failed"}
         \/ acct'[a].status = "pending_validation" /\ acct[a].rerun
         \/ acct'[a].status = acct[a].status /\ (m = "pending_validation" => acct[a].rerun)
  BY <1>1
<1>4. ~DeviceJob(a)'
  BY <1>2 DEF DeviceJob, Active, Fresh
<1>5. Sound(a)'
  BY <1>2, <1>3, <1>4 DEF Sound, Suspends, Vouched, Fits, Active, Polling, Fresh
<1>6. ASSUME DeviceRemembers(a),
             acct[a].status = "pending_validation" /\ ~acct[a].rerun
               => m = "pending_validation"
      PROVE  DeviceRemembers(a)' /\ Unproven(a)' /\ Recovering(a)' /\ Waiting(a)'
  <2>1. acct'[a].status # "active"
    BY <1>3, <1>6 DEF DeviceRemembers
  <2>2. acct'[a].status = "pending_validation" => acct[a].rerun
    BY <1>3, <1>6
  <2>3. DeviceRemembers(a)' /\ Unproven(a)'
    BY <1>4, <2>1 DEF DeviceRemembers, Unproven, Polling
  <2>4. Recovering(a)' /\ Waiting(a)'
    BY <1>2, <2>2 DEF Recovering, Waiting, Active, Fresh
  <2> QED
    BY <2>3, <2>4
<1> QED
  BY <1>5, <1>6

LEMMA DeviceFailsKeeps ==
    ASSUME ITypes, NEW a \in Accounts, IAccount(a),
           PollFails(a) \/ PollFailsLate(a) \/ SessionExpires(a)
    PROVE  ITypes' /\ Local(a) /\ IAccount(a)'
<1>1. PICK m \in RowStatus :
        /\ m \in {acct[a].status, device[a].status}
        /\ device[a].at # "none" /\ (m = acct[a].status \/ Polling(a))
        /\ Polling(a) => m = device[a].status
        /\ DeviceFails(a, m)
        /\ \/ UNCHANGED limits
           \/ limits' = [limits EXCEPT ![a] = [refresh |-> "ok", attempts |-> 0]]
  BY DEF PollFails, PollFailsLate, SessionExpires, Polling, ITypes, Row, Login
<1>2. /\ ITypes' /\ Local(a) /\ SameWork
      /\ UNCHANGED <<proven, readers, busy>>
      /\ Device \in job[a].holders
      /\ acct'[a] = FailedRow(a, m) /\ job'[a] = FailedJob(a)
      /\ evidence'[a] = "none" /\ device'[a].at = "none"
      /\ limits'[a].attempts <= limits[a].attempts
  BY <1>1, DeviceFailsEffect
<1>3. DeviceJob(a)
  BY <1>1, <1>2 DEF IAccount, Sound, Fits
<1>4. Sound(a)'
  BY <1>2, <1>3, LoginEnds DEF IAccount
<1>5. ~WorkerLease(a)
  BY <1>3 DEF WorkerLease, WorkerTypes, DeviceJob
<1>6. Counted(a)'
  BY <1>2, <1>5, CountsStay DEF IAccount
<1>7. InTime(a)'
  <2> SUFFICES ASSUME stalls' = 0 PROVE (/\ Held(a) /\ Unsold(a) /\ Remembers(a)
                                         /\ DeviceRemembers(a) /\ Unproven(a)
                                         /\ Recovering(a) /\ Waiting(a))'
    BY DEF InTime
  <2>1. Held(a) /\ DeviceRemembers(a)
    BY <1>2, InTimeNow DEF SameWork
  <2>2. Held(a)' /\ Unsold(a)' /\ Remembers(a)'
    BY <1>2, <1>5, <2>1, IdleSteps
  <2>3. acct[a].status = "pending_validation" /\ ~acct[a].rerun
          => m = "pending_validation"
    BY <1>1, <2>1 DEF DeviceRemembers
  <2> QED
    BY <1>2, <1>3, <2>1, <2>2, <2>3, LoginEnds DEF IAccount
<1> QED
  BY <1>2, <1>4, <1>6, <1>7 DEF IAccount

\* twenty minutes: nothing is promised any more of who works
LEMMA StallKeeps ==
    ASSUME ITypes, NEW a \in Accounts, IAccount(a), Stall(a)
    PROVE  ITypes' /\ Local(a) /\ IAccount(a)'
<1>1. /\ ITypes' /\ Local(a) /\ UNCHANGED worker
      /\ UNCHANGED <<acct, limits, evidence, proven, readers, busy, device>>
      /\ job[a].status = "running" /\ job[a].live /\ job[a].type \in WorkerTypes
      /\ job'[a].status = "running" /\ ~job'[a].live
      /\ job'[a].type = job[a].type /\ job'[a].holders = job[a].holders
      /\ stalls' = stalls + 1
  BY StallEffect
<1>2. Sound(a)'
  BY <1>1 DEF IAccount, Sound, Suspends, Vouched, Fits, DeviceJob, Active, Leased,
              Running, Polling, WorkerTypes
<1>3. OnIts(a)' = OnIts(a) /\ RecoversIt(a)' = RecoversIt(a)
  BY <1>1 DEF OnIts, RecoversIt, On
<1>4. Cardinality(OnIts(a)) \in Nat /\ Cardinality(RecoversIt(a)) \in Nat
      /\ stalls \in Nat /\ limits[a].attempts \in Nat
  BY Counts, JobsAssumption DEF ITypes, Limits
<1>5. Overdue(a)'
  BY <1>1, <1>3, <1>4 DEF IAccount, Counted, Overdue
<1>6. Spent(a)'
  BY <1>1, <1>3, <1>4, JobsAssumption DEF IAccount, Counted, Spent
<1>7. InTime(a)'
  BY <1>1, <1>4 DEF InTime
<1> QED
  BY <1>1, <1>2, <1>5, <1>6, <1>7 DEF IAccount, Counted

-----------------------------------------------------------------------------
(* The workers *)

LEMMA ClaimKeeps ==
    ASSUME ITypes, NEW w \in Workers, NEW a \in Accounts, IAccount(a), Claim(w, a)
    PROVE  ITypes' /\ Local(a) /\ IAccount(a)'
<1>1. /\ ITypes' /\ Local(a)
      /\ UNCHANGED <<acct, limits, evidence, proven, busy, device, stalls>>
      /\ a \notin busy /\ worker[w].acct = NoAccount
      /\ job[a].status = "pending" /\ job[a].type \in WorkerTypes
      /\ job'[a].status = "running" /\ job'[a].live /\ job'[a].type = job[a].type
      /\ job'[a].holders = job[a].holders \cup {w}
      /\ worker'[w].acct = a /\ worker'[w].type = job[a].type
      /\ worker'[w].row = acct[a]
      /\ \A v \in Workers \ {w} : worker'[v] = worker[v]
      /\ readers'[a] = readers[a] \cup {w}
  BY ClaimEffect
<1>2. w # Device
  BY JobsAssumption
<1>3. Sound(a)'
  BY <1>1, <1>2 DEF IAccount, Sound, Suspends, Vouched, Fits, DeviceJob, Active, Leased,
                    Running, Polling, WorkerTypes
<1>4. Counted(a)'
  BY CountsClaim DEF IAccount
<1>5. InTime(a)'
  <2> SUFFICES ASSUME stalls' = 0 PROVE (/\ Held(a) /\ Unsold(a) /\ Remembers(a)
                                         /\ DeviceRemembers(a) /\ Unproven(a)
                                         /\ Recovering(a) /\ Waiting(a))'
    BY DEF InTime
  <2>1. /\ Held(a) /\ Unsold(a) /\ Remembers(a) /\ DeviceRemembers(a)
        /\ Unproven(a) /\ Recovering(a) /\ Waiting(a)
    BY <1>1, InTimeNow
  <2>2. \A v \in Workers : ~On(v, a)
    BY <1>1, <2>1, Nobody DEF WorkerLease, Leased, Running
  <2>3. \A v \in Workers : On(v, a)' <=> v = w
    BY <1>1, <2>2 DEF On
  <2>4. Held(a)' /\ Unsold(a)'
    BY <1>1, <2>3 DEF Held, Unsold, Leased, Running
  <2>5. Remembers(a)'
    BY <1>1, <2>1, <2>3 DEF Remembers, Unproven
  <2>6. DeviceRemembers(a)' /\ Unproven(a)'
    BY <1>1, <2>1 DEF DeviceRemembers, Unproven, DeviceJob, Active, Polling
  <2>7. Recovering(a)' /\ Waiting(a)'
    BY <1>1, <2>1 DEF Recovering, Waiting, Active
  <2> QED
    BY <2>4, <2>5, <2>6, <2>7
<1> QED
  BY <1>1, <1>3, <1>4, <1>5 DEF IAccount

\* a worker that leaves never takes the device login's job with it, and it leaves
\* nobody behind who still has a lease
LEMMA LeavesFit ==
    ASSUME ITypes, NEW w \in Workers, NEW a \in Accounts, Fits(a), Leaves(w, a),
           NEW types \in SUBSET WorkerTypes, LeavesJob(w, a, types)
    PROVE  Fits(a)' /\ (WorkerLease(a)' => WorkerLease(a))
<1>1. w # Device /\ readers'[a] = readers[a] \ {w} /\ UNCHANGED <<busy, device>>
  BY JobsAssumption DEF Leaves
<1>2. CASE w \in job[a].holders
  <2>1. \/ job'[a].status = "ended" /\ job'[a].holders = job[a].holders
        \/ job'[a].status = "pending" /\ job'[a].holders = {}
           /\ job'[a].type # "device_auth"
    BY <1>2 DEF LeavesJob, Fresh, WorkerTypes
  <2>2. ~DeviceJob(a)
    BY <1>1, <1>2 DEF Fits
  <2> QED
    BY <1>1, <2>1, <2>2
       DEF Fits, DeviceJob, Active, Leased, Running, Polling, WorkerLease
<1>3. CASE w \notin job[a].holders
  <2>1. \/ job'[a] = job[a]
        \/ /\ job[a].status # "running" /\ job'[a].status = "pending"
           /\ job'[a].holders = {} /\ job'[a].type # "device_auth"
    BY <1>3 DEF LeavesJob, Fresh, WorkerTypes
  <2> QED
    BY <1>1, <2>1 DEF Fits, DeviceJob, Active, Leased, Running, Polling, WorkerLease
<1> QED
  BY <1>2, <1>3

LEMMA LeavesNobody ==
    ASSUME NEW w \in Workers, NEW a \in Accounts, Held(a), Leaves(w, a)
    PROVE  /\ Held(a)' /\ Unsold(a)' /\ Remembers(a)'
           /\ w \in job[a].holders /\ job[a].status = "running"
           /\ job[a].type = worker[w].type
<1>1. /\ On(w, a) /\ worker'[w].acct = NoAccount
      /\ \A v \in Workers \ {w} : worker'[v] = worker[v]
  BY DEF Leaves
<1>2. \A v \in Workers : ~On(v, a)'
  BY <1>1, NoAccountAssumption DEF Held, On
<1> QED
  BY <1>1, <1>2, NobodyThen DEF Held, Leased, Running

\* what a verdict, or a limit check's end, leaves that is always so
LEMMA LeavesSound ==
    ASSUME ITypes, ITypes', NEW w \in Workers, NEW a \in Accounts, IAccount(a),
           Leaves(w, a), Rewrites(w, a),
           NEW types \in SUBSET WorkerTypes, LeavesJob(w, a, types),
           acct[a].suspended => acct'[a].status # "active",
           evidence'[a] # "none" => evidence[a] # "none",
           limits'[a].attempts <= limits[a].attempts + 1,
           worker[w].type # "refresh_recover"
             => limits'[a].attempts <= limits[a].attempts
    PROVE  Sound(a)' /\ Counted(a)'
<1>1. Fits(a)' /\ (WorkerLease(a)' => WorkerLease(a))
  BY LeavesFit DEF IAccount, Sound
<1>2. Suspends(a)'
  BY DEF Suspends, Rewrites
<1>3. Vouched(a)'
  BY JobsAssumption DEF Vouched, Leaves, IAccount, Sound
<1>4. Counted(a)'
  BY <1>1, CountsLeave DEF IAccount
<1> QED
  BY <1>1, <1>2, <1>3, <1>4 DEF Sound

LEMMA PassKeeps ==
    ASSUME ITypes, NEW w \in Workers, NEW a \in Accounts, IAccount(a), CheckPasses(w, a)
    PROVE  ITypes' /\ Local(a) /\ IAccount(a)'
<1> DEFINE m == worker[w].row
<1>1. /\ ITypes' /\ Local(a) /\ Leaves(w, a) /\ Rewrites(w, a)
      /\ worker[w].type # "limit_check"
      /\ LeavesJob(w, a, {"full_validation"})
      /\ SeesRerun(w) => Active(a)'
      /\ acct[a].suspended =>
           \/ acct'[a].status = "suspended"
           \/ acct'[a].status = acct[a].status /\ m.status = "suspended"
      /\ ~acct[a].suspended /\ m.rerun => acct'[a].status = "pending_validation"
      /\ ~acct[a].suspended /\ ~m.rerun
           => acct'[a].status = IF m.status = "active" THEN acct[a].status
                                ELSE "active"
      /\ limits'[a].attempts = 0
      /\ evidence'[a] \in {"none", evidence[a]}
      /\ proven'[a] <=> proven[a] \/ w \in readers[a]
  BY PassEffect
<1>2. {"full_validation"} \in SUBSET WorkerTypes
  BY DEF WorkerTypes, JobType
<1>3. acct[a].suspended => acct'[a].status # "active"
  BY <1>1 DEF IAccount, Sound, Suspends
<1>4. limits[a].attempts \in Nat
  BY DEF ITypes, Limits
<1>5. Sound(a)' /\ Counted(a)'
  BY <1>1, <1>2, <1>3, <1>4, LeavesSound
<1>6. InTime(a)'
  <2> SUFFICES ASSUME stalls' = 0 PROVE (/\ Held(a) /\ Unsold(a) /\ Remembers(a)
                                         /\ DeviceRemembers(a) /\ Unproven(a)
                                         /\ Recovering(a) /\ Waiting(a))'
    BY DEF InTime
  <2>1. Held(a) /\ Remembers(a) /\ Unproven(a) /\ On(w, a)
    BY <1>1, InTimeNow DEF Leaves
  <2>2. /\ Held(a)' /\ Unsold(a)' /\ Remembers(a)' /\ w \in job[a].holders
    BY <1>1, <2>1, LeavesNobody
  <2>3. \/ job'[a].status = "ended" /\ ~m.rerun
        \/ job'[a].status = "pending" /\ job'[a].type = "full_validation"
    BY <1>1, <2>2 DEF LeavesJob, Fresh
  <2>4. /\ acct[a].status = "active" => m.status = "active"
        /\ acct[a].status = "pending_validation" /\ ~acct[a].rerun
             => m.status = "pending_validation"
        /\ w \notin readers[a] => acct[a].rerun
    BY <2>1 DEF Remembers
  <2>5. acct'[a].rerun <=> acct[a].rerun /\ ~m.rerun
    BY <1>1 DEF Rewrites
  <2>6. Unproven(a)'
    BY <1>1, <1>3, <2>4, <2>5 DEF Unproven
  <2>7. DeviceRemembers(a)' /\ Recovering(a)'
    <3>1. ~DeviceJob(a)' /\ ~Polling(a)'
      BY <1>5, <2>3 DEF DeviceJob, Active, Sound, Fits, Polling
    <3> QED
      BY <2>3, <3>1 DEF DeviceRemembers, Recovering, Active
  <2>8. Waiting(a)'
    BY <1>1, <2>3, <2>4, <2>5 DEF Waiting, Active, SeesRerun
  <2> QED
    BY <2>2, <2>6, <2>7, <2>8
<1> QED
  BY <1>1, <1>5, <1>6 DEF IAccount

LEMMA FailKeeps ==
    ASSUME ITypes, NEW w \in Workers, NEW a \in Accounts, IAccount(a), NEW c \in Codes,
           NEW tokens \in BOOLEAN, CheckFails(w, a, c, tokens)
    PROVE  ITypes' /\ Local(a) /\ IAccount(a)'
<1> DEFINE m == worker[w].row
<1>1. /\ ITypes' /\ Local(a) /\ Leaves(w, a) /\ Rewrites(w, a)
      /\ LeavesJob(w, a, {"full_validation"})
      /\ SeesRerun(w) => Active(a)'
      /\ acct[a].suspended => acct'[a].status = "suspended"
      /\ ~acct[a].suspended /\ m.rerun => acct'[a].status = "pending_validation"
      /\ ~acct[a].suspended /\ ~m.rerun =>
           \/ acct'[a].status = "active" /\ m.status = "active"
           \/ acct'[a].status = "validation_failed"
           \/ acct'[a].status = acct[a].status /\ m.status = "validation_failed"
      /\ limits'[a].attempts <= limits[a].attempts + 1
      /\ worker[w].type # "refresh_recover"
           => limits'[a].attempts <= limits[a].attempts
      /\ evidence'[a] # "none" => evidence[a] # "none"
      /\ UNCHANGED proven
  BY FailEffect
<1>2. {"full_validation"} \in SUBSET WorkerTypes
  BY DEF WorkerTypes, JobType
<1>3. acct[a].suspended => acct'[a].status # "active"
  BY <1>1
<1>5. Sound(a)' /\ Counted(a)'
  BY <1>1, <1>2, <1>3, LeavesSound
<1>6. InTime(a)'
  <2> SUFFICES ASSUME stalls' = 0 PROVE (/\ Held(a) /\ Unsold(a) /\ Remembers(a)
                                         /\ DeviceRemembers(a) /\ Unproven(a)
                                         /\ Recovering(a) /\ Waiting(a))'
    BY DEF InTime
  <2>1. Held(a) /\ Remembers(a) /\ Unproven(a) /\ On(w, a)
    BY <1>1, InTimeNow DEF Leaves
  <2>2. /\ Held(a)' /\ Unsold(a)' /\ Remembers(a)' /\ w \in job[a].holders
    BY <1>1, <2>1, LeavesNobody
  <2>3. \/ job'[a].status = "ended" /\ ~m.rerun
        \/ job'[a].status = "pending" /\ job'[a].type = "full_validation"
    BY <1>1, <2>2 DEF LeavesJob, Fresh
  <2>4. /\ acct[a].status = "active" => m.status = "active"
        /\ acct[a].status = "pending_validation" /\ ~acct[a].rerun
             => m.status = "pending_validation"
        /\ w \notin readers[a] => acct[a].rerun
        /\ w \in readers[a] /\ m.status = "active" /\ ~m.rerun => proven[a]
    BY <2>1 DEF Remembers
  <2>5. acct'[a].rerun <=> acct[a].rerun /\ ~m.rerun
    BY <1>1 DEF Rewrites
  <2>6. Unproven(a)'
    BY <1>1, <1>3, <2>4, <2>5 DEF Unproven
  <2>7. DeviceRemembers(a)' /\ Recovering(a)'
    <3>1. ~DeviceJob(a)' /\ ~Polling(a)'
      BY <1>5, <2>3 DEF DeviceJob, Active, Sound, Fits, Polling
    <3> QED
      BY <2>3, <3>1 DEF DeviceRemembers, Recovering, Active
  <2>8. Waiting(a)'
    BY <1>1, <2>3, <2>4, <2>5 DEF Waiting, Active, SeesRerun
  <2> QED
    BY <2>2, <2>6, <2>7, <2>8
<1> QED
  BY <1>1, <1>5, <1>6 DEF IAccount

LEMMA MeasuredKeeps ==
    ASSUME ITypes, NEW w \in Workers, NEW a \in Accounts, IAccount(a),
           \/ LimitsUnavailable(w, a) \/ TokenExpired(w, a) \/ PlanRefused(w, a)
           \/ \E b \in BOOLEAN : LimitsMeasured(w, a, b)
    PROVE  ITypes' /\ Local(a) /\ IAccount(a)'
<1> DEFINE m == worker[w].row
<1>1. /\ ITypes' /\ Local(a) /\ Leaves(w, a) /\ Rewrites(w, a)
      /\ worker[w].type = "limit_check"
      /\ LeavesJob(w, a, {"full_validation", "refresh_recover"})
      /\ SeesRerun(w) => Active(a)'
      /\ ~m.rerun => acct'[a].status \in {acct[a].status, "suspended",
                                          "validation_failed"}
      /\ m.rerun =>
           \/ acct'[a].status \in {"pending_validation", "suspended"}
           \/ /\ acct'[a].status = acct[a].status
              /\ m.status \in {"pending_validation", "suspended"}
      /\ limits'[a].attempts <= limits[a].attempts
      /\ evidence'[a] \in {"none", evidence[a]}
      /\ UNCHANGED proven
      /\ w \in job[a].holders =>
           \/ limits'[a].refresh = "expired"
           \/ job'[a].status = "ended" \/ Fresh(job'[a], "full_validation")
  BY MeasuredEffect
<1>2. {"full_validation", "refresh_recover"} \in SUBSET WorkerTypes
  BY DEF WorkerTypes, JobType
<1>3. acct[a].suspended => acct'[a].status # "active"
  BY <1>1 DEF IAccount, Sound, Suspends
<1>4. limits[a].attempts \in Nat /\ limits'[a].attempts \in Nat
  BY <1>1 DEF ITypes, Limits
<1>5. Sound(a)' /\ Counted(a)'
  BY <1>1, <1>2, <1>3, <1>4, LeavesSound
<1>6. InTime(a)'
  <2> SUFFICES ASSUME stalls' = 0 PROVE (/\ Held(a) /\ Unsold(a) /\ Remembers(a)
                                         /\ DeviceRemembers(a) /\ Unproven(a)
                                         /\ Recovering(a) /\ Waiting(a))'
    BY DEF InTime
  <2>1. Held(a) /\ Remembers(a) /\ Unproven(a) /\ Waiting(a) /\ On(w, a)
    BY <1>1, InTimeNow DEF Leaves
  <2>2. /\ Held(a)' /\ Unsold(a)' /\ Remembers(a)' /\ w \in job[a].holders
        /\ job[a].status = "running" /\ job[a].type = "limit_check"
    BY <1>1, <2>1, LeavesNobody
  <2>3. \/ job'[a].status = "ended" /\ ~m.rerun
        \/ /\ job'[a].status = "pending"
           /\ job'[a].type \in {"full_validation", "refresh_recover"}
    BY <1>1, <2>2 DEF LeavesJob, Fresh
  <2>4. /\ acct[a].status = "active" => m.status = "active"
        /\ acct[a].status = "pending_validation" => acct[a].rerun
    BY <2>1, <2>2 DEF Remembers, Waiting, Active
  <2>5. acct'[a].rerun <=> acct[a].rerun /\ ~m.rerun
    BY <1>1 DEF Rewrites
  <2>6. Unproven(a)'
    BY <1>1, <2>1, <2>4, <2>5 DEF Unproven
  <2>7. DeviceRemembers(a)'
    <3>1. ~DeviceJob(a)' /\ ~Polling(a)'
      BY <1>5, <2>3 DEF DeviceJob, Active, Sound, Fits, Polling
    <3> QED
      BY <3>1 DEF DeviceRemembers
  <2>8. Recovering(a)'
    BY <1>1, <2>2 DEF Recovering, Active, Fresh
  <2>9. Waiting(a)'
    BY <1>1, <2>3, <2>4, <2>5 DEF Waiting, Active, SeesRerun
  <2> QED
    BY <2>2, <2>6, <2>7, <2>8, <2>9
<1> QED
  BY <1>1, <1>5, <1>6 DEF IAccount

LEMMA CancelledKeeps ==
    ASSUME ITypes, NEW w \in Workers, NEW a \in Accounts, IAccount(a), Cancelled(w, a)
    PROVE  ITypes' /\ Local(a) /\ IAccount(a)'
<1>1. /\ ITypes' /\ Local(a) /\ Leaves(w, a)
      /\ UNCHANGED <<acct, limits, evidence, proven>>
      /\ IF w \in job[a].holders /\ job[a].status = "running"
         THEN /\ job'[a].status = "pending" /\ job'[a].type = job[a].type
              /\ job'[a].holders = job[a].holders
         ELSE job'[a] = job[a]
  BY CancelledEffect
<1>2. w # Device /\ readers'[a] = readers[a] \ {w} /\ UNCHANGED <<busy, device, stalls>>
  BY <1>1, JobsAssumption DEF Leaves
<1>3. Sound(a)'
  <2>1. w \in job[a].holders => ~DeviceJob(a)
    BY <1>2 DEF IAccount, Sound, Fits
  <2> QED
    BY <1>1, <1>2, <2>1 DEF IAccount, Sound, Suspends, Vouched, Fits, DeviceJob, Active,
                            Leased, Running, Polling
<1>4. WorkerLease(a)' => WorkerLease(a)
  BY <1>1 DEF WorkerLease, Leased, Running
<1>5. limits[a].attempts \in Nat
  BY DEF ITypes, Limits
<1>6. Counted(a)'
  BY <1>1, <1>4, <1>5, CountsLeave DEF IAccount
<1>7. InTime(a)'
  <2> SUFFICES ASSUME stalls' = 0 PROVE (/\ Held(a) /\ Unsold(a) /\ Remembers(a)
                                         /\ DeviceRemembers(a) /\ Unproven(a)
                                         /\ Recovering(a) /\ Waiting(a))'
    BY DEF InTime
  <2>1. /\ Held(a) /\ DeviceRemembers(a) /\ Unproven(a) /\ Recovering(a) /\ Waiting(a)
    BY <1>2, InTimeNow
  <2>2. /\ Held(a)' /\ Unsold(a)' /\ Remembers(a)' /\ w \in job[a].holders
        /\ job[a].status = "running" /\ job'[a].status = "pending"
        /\ job'[a].type = job[a].type
    BY <1>1, <2>1, LeavesNobody
  <2>3. (DeviceRemembers(a) /\ Unproven(a) /\ Recovering(a) /\ Waiting(a))'
    BY <1>1, <1>2, <2>1, <2>2
       DEF DeviceRemembers, Unproven, Recovering, Waiting, DeviceJob, Active, Polling
  <2> QED
    BY <2>2, <2>3
<1> QED
  BY <1>1, <1>3, <1>6, <1>7 DEF IAccount

-----------------------------------------------------------------------------
(* A restart, the start, and every step *)

LEMMA RestartKeeps ==
    ASSUME ITypes, NEW a \in Accounts, IAccount(a), Restart
    PROVE  ITypes' /\ IAccount(a)'
<1>1. /\ ITypes' /\ UNCHANGED <<limits, proven, busy, stalls>>
      /\ \A w \in Workers : worker'[w].acct = NoAccount
      /\ readers'[a] = readers[a] \ Workers /\ device'[a].at = "none"
      /\ IF DeviceJob(a)
         THEN /\ acct'[a] = FailedRow(a, acct[a].status)
              /\ job'[a] = FailedJob(a) /\ evidence'[a] = "none"
         ELSE /\ acct'[a] = acct[a] /\ evidence'[a] = evidence[a]
              /\ job'[a].holders = {} /\ job'[a].type = job[a].type
              /\ job'[a].status = IF job[a].status = "running" THEN "pending"
                                  ELSE job[a].status
  BY RestartEffect
<1>2. acct[a].status \in RowStatus
  BY DEF ITypes, Row
<1>3. \A w \in Workers : ~On(w, a)'
  BY <1>1, NoAccountAssumption DEF On
<1>4. Counted(a)'
  <2>1. OnIts(a)' = {} /\ RecoversIt(a)' = {}
    BY <1>3 DEF OnIts, RecoversIt
  <2>2. Cardinality(OnIts(a))' = 0 /\ Cardinality(RecoversIt(a))' = 0
    BY <2>1, FS_EmptySet
  <2>3. Cardinality(RecoversIt(a)) \in Nat /\ stalls \in Nat /\ limits[a].attempts \in Nat
    BY Counts, JobsAssumption DEF ITypes, Limits
  <2>4. Overdue(a)'
    BY <1>1, <2>2, <2>3 DEF Overdue
  <2>5. Spent(a)'
    BY <1>1, <2>2, <2>3, JobsAssumption DEF Spent, IAccount, Counted
  <2> QED
    BY <2>4, <2>5 DEF Counted
<1>5. CASE DeviceJob(a)
  <2>1. Sound(a)'
    BY <1>1, <1>2, <1>5, LoginEnds DEF IAccount
  <2>2. InTime(a)'
    <3> SUFFICES ASSUME stalls' = 0 PROVE (/\ Held(a) /\ Unsold(a) /\ Remembers(a)
                                           /\ DeviceRemembers(a) /\ Unproven(a)
                                           /\ Recovering(a) /\ Waiting(a))'
      BY DEF InTime
    <3>1. DeviceRemembers(a)
      BY <1>1, InTimeNow
    <3>2. Held(a)' /\ Unsold(a)' /\ Remembers(a)'
      BY <1>3, NobodyThen
    <3> QED
      BY <1>1, <1>2, <1>5, <3>1, <3>2, LoginEnds DEF IAccount
  <2> QED
    BY <1>1, <1>4, <2>1, <2>2 DEF IAccount
<1>6. CASE ~DeviceJob(a)
  <2>1. ~DeviceJob(a)' /\ (Active(a)' <=> Active(a))
    BY <1>1, <1>6 DEF DeviceJob, Active
  <2>2. Sound(a)'
    BY <1>1, <1>6, <2>1, JobsAssumption
       DEF IAccount, Sound, Suspends, Vouched, Fits, Polling
  <2>3. InTime(a)'
    <3> SUFFICES ASSUME stalls' = 0 PROVE (/\ Held(a) /\ Unsold(a) /\ Remembers(a)
                                           /\ DeviceRemembers(a) /\ Unproven(a)
                                           /\ Recovering(a) /\ Waiting(a))'
      BY DEF InTime
    <3>1. Unproven(a) /\ Recovering(a) /\ Waiting(a)
      BY <1>1, InTimeNow
    <3>2. Held(a)' /\ Unsold(a)' /\ Remembers(a)'
      BY <1>3, NobodyThen
    <3>3. (DeviceRemembers(a) /\ Unproven(a) /\ Recovering(a) /\ Waiting(a))'
      BY <1>1, <1>6, <2>1, <3>1
         DEF DeviceRemembers, Unproven, Recovering, Waiting, Polling
    <3> QED
      BY <3>2, <3>3
  <2> QED
    BY <1>1, <1>4, <2>2, <2>3 DEF IAccount
<1> QED
  BY <1>5, <1>6

LEMMA Initially == Init => IInv
<1> SUFFICES ASSUME Init PROVE IInv
  OBVIOUS
<1>1. PICK n \in Job : /\ n = NewJob("new", "full_validation")
                       /\ n.type = "full_validation" /\ n.status = "pending"
                       /\ n.holders = {}
  BY NewTyped DEF Priority, JobType
<1>2. NewAccount \in Row /\ NewAccount.status = "pending_validation"
      /\ ~NewAccount.suspended /\ ~NewAccount.rerun
  BY DEF NewAccount, Row, RowStatus
<1>3. PICK l \in Limits : l = [refresh |-> "none", attempts |-> 0] /\ l.attempts = 0
  <2>1. PICK l : l = [refresh |-> "none", attempts |-> 0]
    OBVIOUS
  <2>2. l \in Limits /\ l.attempts = 0
    BY <2>1 DEF Limits
  <2> QED
    BY <2>1, <2>2
<1>4. /\ acct = [a \in Accounts |-> NewAccount] /\ limits = [a \in Accounts |-> l]
      /\ job = [a \in Accounts |-> n] /\ evidence = [a \in Accounts |-> "none"]
      /\ proven = [a \in Accounts |-> FALSE] /\ readers = [a \in Accounts |-> {}]
      /\ busy = {} /\ worker = [w \in Workers |-> Idle]
      /\ device = [a \in Accounts |-> NoLogin] /\ stalls = 0
  BY <1>1, <1>3 DEF Init
<1>5. ITypes
  <2>1. acct \in [Accounts -> Row] /\ limits \in [Accounts -> Limits]
        /\ job \in [Accounts -> Job]
    BY <1>2, <1>4
  <2>2. worker \in [Workers -> Work] /\ device \in [Accounts -> Login]
    BY <1>4, IdleTyped, NoLoginTyped
  <2>3. 0 \in 0..MaxStalls
    BY JobsAssumption
  <2> QED
    BY <1>4, <2>1, <2>2, <2>3 DEF ITypes
<1>6. ASSUME NEW a \in Accounts PROVE IAccount(a)
  <2>1. \A w \in Workers : ~On(w, a)
    BY <1>4, IdleTyped DEF On
  <2>2. Sound(a)
    BY <1>1, <1>2, <1>4, NoLoginTyped
       DEF Sound, Suspends, Vouched, Fits, DeviceJob, Polling
  <2>3. OnIts(a) = {} /\ RecoversIt(a) = {}
    BY <2>1 DEF OnIts, RecoversIt
  <2>4. Cardinality(OnIts(a)) = 0 /\ Cardinality(RecoversIt(a)) = 0
    BY <2>3, FS_EmptySet
  <2>5. Counted(a)
    BY <1>3, <1>4, <2>4, JobsAssumption DEF Counted, Overdue, Spent
  <2>6. Held(a) /\ Unsold(a) /\ Remembers(a)
    BY <2>1 DEF Held, Unsold, Remembers
  <2>7. DeviceRemembers(a) /\ Unproven(a) /\ Recovering(a) /\ Waiting(a)
    BY <1>1, <1>2, <1>4, NoLoginTyped
       DEF DeviceRemembers, Unproven, Recovering, Waiting, Active, DeviceJob, Polling
  <2> QED
    BY <2>2, <2>5, <2>6, <2>7 DEF IAccount, InTime
<1> QED
  BY <1>5, <1>6 DEF IInv

\* a step of one account keeps its part of the invariant
LEMMA OwnStep ==
    ASSUME IInv, Next, ~Restart
    PROVE  \E a \in Accounts : ITypes' /\ Local(a) /\ IAccount(a)'
<1>1. ITypes /\ \A a \in Accounts : IAccount(a)
  BY DEF IInv
<1>2. CASE AccountJobsNext
  <2>1. PICK a \in Accounts :
          \/ QueueLimitCheck(a) \/ QueueScheduled(a) \/ QueueRecovery(a)
          \/ RecoverStale(a) \/ Recheck(a) \/ EditCredentials(a) \/ ChangeRoute(a)
          \/ Suspend(a) \/ ConfirmByHand(a) \/ EvidenceAges(a) \/ Rent(a) \/ Return(a)
          \/ MeasuredForBuyer(a)
    BY <1>2 DEF AccountJobsNext
  <2> QED
    BY <1>1, <2>1, SweepKeeps, RecoverStaleKeeps, RecheckKeeps, EditKeeps, RouteKeeps,
       SuspendKeeps, ConfirmKeeps, RentalKeeps
<1>3. CASE ValidationWorkerNext
  <2>1. PICK a \in Accounts :
          \/ Stall(a)
          \/ \E w \in Workers :
               Claim(w, a) \/ GiveUpRecovery(w, a) \/ WorkerEnds(w, a) \/ Cancelled(w, a)
    BY <1>3 DEF ValidationWorkerNext
  <2>2. ASSUME NEW w \in Workers, WorkerEnds(w, a)
        PROVE  ITypes' /\ Local(a) /\ IAccount(a)'
    BY <1>1, <2>2, PassKeeps, FailKeeps, MeasuredKeeps DEF WorkerEnds
  <2> QED
    BY <1>1, <2>1, <2>2, StallKeeps, ClaimKeeps, GiveUpKeeps, CancelledKeeps
<1>4. CASE DeviceAuthNext
  <2>1. PICK a \in Accounts :
          \/ StartDevice(a) \/ PollBegin(a) \/ PollSuperseded(a) \/ PollEmpty(a)
          \/ DeviceConnected(a) \/ PollFails(a) \/ PollFailsLate(a) \/ SessionExpires(a)
    BY <1>4 DEF DeviceAuthNext
  <2> QED
    BY <1>1, <2>1, StartKeeps, PollBeginKeeps, PollIdleKeeps, ConnectedKeeps,
       DeviceFailsKeeps
<1> QED
  BY <1>2, <1>3, <1>4 DEF Next

LEMMA Stuttering == ASSUME IInv, UNCHANGED jobVars PROVE IInv'
<1>1. UNCHANGED <<acct, limits, job, evidence, proven, readers, busy, worker, device,
                  stalls>>
  BY DEF jobVars
<1>2. ITypes'
  BY <1>1 DEF IInv, ITypes
<1>3. ASSUME NEW a \in Accounts PROVE IAccount(a)'
  <2>1. \A b \in Accounts : IAccount(b)
    BY DEF IInv
  <2>2. IAccount(a)
    BY <2>1
  <2>3. OnIts(a)' = OnIts(a) /\ RecoversIt(a)' = RecoversIt(a)
    BY <1>1 DEF OnIts, RecoversIt, On
  <2>4. Sound(a)'
    BY <1>1, <2>2 DEF IAccount, Sound, Suspends, Vouched, Fits, DeviceJob, Active, Leased,
                      Running, Polling
  <2>5. Counted(a)'
    BY <1>1, <2>2, <2>3 DEF IAccount, Counted, Overdue, Spent, WorkerLease, Leased, Running
  <2>6. InTime(a)'
    BY <1>1, <2>2 DEF IAccount, InTime, Held, Unsold, Remembers, DeviceRemembers, Unproven,
                      Recovering, Waiting, On, DeviceJob, Active, Leased, Running, Polling
  <2> QED
    BY <2>4, <2>5, <2>6 DEF IAccount
<1> QED
  BY <1>2, <1>3 DEF IInv

LEMMA Invariant == Spec => []IInv
<1>1. IInv /\ [Next]_jobVars => IInv'
  <2> SUFFICES ASSUME IInv, [Next]_jobVars PROVE IInv'
    OBVIOUS
  <2>1. CASE UNCHANGED jobVars
    BY <2>1, Stuttering
  <2>2. CASE Restart
    <3>1. ITypes'
      BY <2>2, RestartEffect DEF IInv
    <3>2. \A a \in Accounts : IAccount(a)'
      BY <2>2, RestartKeeps DEF IInv
    <3> QED
      BY <3>1, <3>2 DEF IInv
  <2>3. CASE Next /\ ~Restart
    <3>1. PICK a \in Accounts : ITypes' /\ Local(a) /\ IAccount(a)'
      BY <2>3, OwnStep
    <3>2. ASSUME NEW b \in Accounts PROVE IAccount(b)'
      BY <3>1, Elsewhere DEF IInv
    <3> QED
      BY <3>1, <3>2 DEF IInv
  <2> QED
    BY <2>1, <2>2, <2>3
<1> QED
  BY <1>1, Initially, PTL DEF Spec

-----------------------------------------------------------------------------
\* Types, for every number of accounts, workers and stalls; with them the budget
\* of a recovery: the attempts counted and those under way never exceed
\* RefreshRecoveryWorker's max_attempts by more than the workers that outlived
\* their lease.
THEOREM JobsTyped == Spec => []JobsTypeOK
<1>1. IInv => JobsTypeOK
  <2> SUFFICES ASSUME IInv PROVE JobsTypeOK
    OBVIOUS
  <2>1. ASSUME NEW a \in Accounts
        PROVE  limits[a] \in [refresh : {"none", "ok", "expired"},
                              attempts : 0..(MaxRecoveries + stalls)]
    <3>1. limits[a] \in Limits /\ Spent(a)
      BY DEF IInv, ITypes, IAccount, Counted
    <3>2. Cardinality(RecoversIt(a)) \in Nat /\ stalls \in Nat
      BY Counts, JobsAssumption DEF IInv, ITypes
    <3>3. limits[a].attempts \in 0..(MaxRecoveries + stalls)
      BY <3>1, <3>2, JobsAssumption DEF Spent, Limits
    <3> QED
      BY <3>1, <3>3 DEF Limits
  <2>2. limits \in [Accounts -> [refresh : {"none", "ok", "expired"},
                                 attempts : 0..(MaxRecoveries + stalls)]]
    BY <2>1 DEF IInv, ITypes
  <2> QED
    BY <2>2 DEF IInv, ITypes, JobsTypeOK, Holders, Work, Login
<1> QED
  BY <1>1, Invariant, PTL

\* models/account.py: a late success does not make a paused account sellable
THEOREM SuspensionHolds == Spec => []SuspensionWins
<1>1. IInv => SuspensionWins
  BY DEF IInv, IAccount, Sound, Suspends, SuspensionWins
<1> QED
  BY <1>1, Invariant, PTL

\* the evidence that a manual confirmation accepts is about the credentials and
\* the route stored now
THEOREM EvidenceIsCurrent == Spec => []ConfirmableIsCurrent
<1>1. IInv => ConfirmableIsCurrent
  BY DEF IInv, IAccount, Sound, Vouched, ConfirmableIsCurrent
<1> QED
  BY <1>1, Invariant, PTL

\* one login of an account at a time, and none while a buyer has it, as long as no
\* worker has outlived its lease
THEOREM LoginsAreAlone == Spec => []OneLoginAtATime
<1>1. IInv => OneLoginAtATime
  <2> SUFFICES ASSUME IInv, stalls = 0, NEW a \in Accounts
               PROVE  Cardinality(AtWork(a)) <= 1 /\ (a \in busy => AtWork(a) = {})
    BY DEF OneLoginAtATime
  <2>1. /\ Held(a) /\ Unsold(a) /\ Fits(a) /\ ITypes
    BY InTimeNow DEF IInv, IAccount, Sound
  <2>2. CASE Polling(a)
    <3>1. DeviceJob(a)
      BY <2>1, <2>2 DEF Fits, Polling
    <3>2. \A w \in Workers : ~On(w, a)
      BY <2>1, <3>1, Nobody DEF WorkerLease, WorkerTypes, DeviceJob
    <3>3. AtWork(a) = {Device}
      BY <2>2, <3>2 DEF AtWork
    <3>4. Cardinality(AtWork(a)) = 1
      BY <3>3, FS_Singleton
    <3> QED
      BY <2>1, <3>1, <3>4 DEF Fits
  <2>3. CASE ~Polling(a)
    <3>1. AtWork(a) = {w \in Workers : On(w, a)}
      BY <2>3 DEF AtWork
    <3>2. AtWork(a) = {} \/ \E w : AtWork(a) = {w}
      BY <2>1, <3>1 DEF Held
    <3>3. Cardinality(AtWork(a)) \in {0, 1}
      BY <3>2, FS_EmptySet, FS_Singleton
    <3>4. a \in busy => AtWork(a) = {}
      BY <2>1, <3>1 DEF Unsold
    <3> QED
      BY <3>3, <3>4
  <2> QED
    BY <2>2, <2>3
<1> QED
  BY <1>1, Invariant, PTL

\* credentials or a route that no check has proven are never forgotten on an
\* account for sale: until a worker outlives its lease, the rerun is even
\* requested in the row itself, whatever is queued besides
THEOREM UnprovenNotForgotten == Spec => []UnprovenIsDue
<1>1. IInv => UnprovenIsDue
  BY InTimeNow DEF IInv, UnprovenIsDue, Unproven
<1> QED
  BY <1>1, Invariant, PTL

\* nor is an account that waits for a verdict
THEOREM WaitingNotForgotten == Spec => []WaitingIsDue
<1>1. IInv => WaitingIsDue
  BY InTimeNow DEF IInv, WaitingIsDue, Waiting
<1> QED
  BY <1>1, Invariant, PTL
=============================================================================
