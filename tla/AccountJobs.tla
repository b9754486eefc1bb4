---------------------------- MODULE AccountJobs ----------------------------
(***************************************************************************)
(* The rows behind an account check and what writes them outside a check:  *)
(* CheckJobQueue, the sweeps of app_lifecycle.py that queue checks, and    *)
(* the operator's endpoints of api/routers/accounts.py.                    *)
(*                                                                         *)
(* An account has at most one active job, so job[a] is its newest row;     *)
(* "holders" are the workers, or the device login, whose session loaded    *)
(* that very row.  A newer row has no holders: what a late worker writes   *)
(* to the old one changes nothing here.                                    *)
(***************************************************************************)
EXTENDS Naturals, FiniteSets

CONSTANTS Accounts, Workers,
          Device,           \* the device-login manager, as a holder of a job
          MaxRecoveries,    \* RefreshRecoveryWorker max_attempts
          MaxStalls         \* bound: how many workers may outlive their lease

ASSUME JobsAssumption ==
    /\ MaxRecoveries \in Nat \ {0} /\ MaxStalls \in Nat
    /\ Device \notin Workers /\ IsFiniteSet(Workers)

VARIABLES
  acct,      \* Account: status, operator_status_override, validation_rerun_requested
  limits,    \* AccountLimits: refresh_status, refresh_recover_attempts
  job,       \* the newest AccountCheckJob of each account
  evidence,  \* the chain a manual browser confirmation needs
  proven,    \* a login with the stored credentials and route has succeeded
  readers,   \* who has worked with the credentials and route stored now: workers
             \* whose session holds them, the last device login
  busy,      \* accounts rented or reserved by the rental core
  worker,    \* a RefreshRecoveryWorker.process_next in progress
  device,    \* DeviceAuthSession of each account
  stalls

jobVars == <<acct, limits, job, evidence, proven, readers, busy, worker, device,
             stalls>>

RowStatus == {"pending_validation", "active", "validation_failed", "suspended"}
Row == [status : RowStatus, suspended : BOOLEAN, rerun : BOOLEAN]
JobType == {"full_validation", "refresh_recover", "limit_check", "device_auth"}
Priority == {"new", "refresh_recover", "manual", "scheduled", "limit_check"}
Urgency == [p \in Priority |->
              CASE p \in {"new", "refresh_recover"} -> 0
                [] p = "manual" -> 1 [] p = "scheduled" -> 2 [] OTHER -> 3]
Job == [type : JobType, prio : Priority, live : BOOLEAN,
        status : {"pending", "running", "ended"},   \* ended: done or failed
        holders : SUBSET (Workers \cup {Device})]
WorkerTypes == JobType \ {"device_auth"}

Active(a) == job[a].status \in {"pending", "running"}
Running(a) == job[a].status = "running"
\* a running job whose worker kept its twenty-minute lease
Leased(a) == Running(a) /\ job[a].live

NewJob(prio, type) == [type |-> type, prio |-> prio, live |-> TRUE,
                       status |-> "pending", holders |-> {}]

\* mark_done, mark_failed and superseding alike: what an ended job was, its
\* readers do not ask (the one that does, the evidence, has a state of its own)
Over(j) == [NewJob("new", "full_validation") EXCEPT !.status = "ended",
                                                    !.holders = j.holders]

\* CheckJobQueue.enqueue on an account whose newest job is j
Keeps(j, prio) == \/ j.status = "running"
                  \/ j.status = "pending" /\ Urgency[prio] >= Urgency[j.prio]
Enqueued(j, prio, type) == IF Keeps(j, prio) THEN j ELSE NewJob(prio, type)

\* a newer check other than a limit check breaks the chain of evidence
EvidenceAfter(a, j) ==
    IF j.holders = {} /\ j # job[a] /\ j.type # "limit_check"
    THEN "none" ELSE evidence[a]

\* the operator's suspension decides what a status becomes
Status(row, s) == IF row.suspended THEN "suspended" ELSE s

Enqueue(a, prio, type) ==
    LET j == Enqueued(job[a], prio, type)
    IN /\ job' = [job EXCEPT ![a] = j]
       /\ evidence' = [evidence EXCEPT ![a] = EvidenceAfter(a, j)]

\* enqueue_exclusive: refused while a leased job runs, otherwise the only job
Exclusive(a, prio, type) ==
    /\ job' = [job EXCEPT ![a] = NewJob(prio, type)]
    /\ evidence' = [evidence EXCEPT ![a] = "none"]

-----------------------------------------------------------------------------
(* The sweeps. *)

QueueLimitCheck(a) ==
    /\ limits[a].refresh = "ok" /\ a \notin busy
    /\ Enqueue(a, "limit_check", "limit_check")
    /\ UNCHANGED <<acct, limits, proven, readers, busy, worker, device, stalls>>

QueueScheduled(a) ==
    /\ acct[a].status = "active" /\ ~acct[a].suspended /\ a \notin busy
    /\ Enqueue(a, "scheduled", "full_validation")
    /\ UNCHANGED <<acct, limits, proven, readers, busy, worker, device, stalls>>

QueueRecovery(a) ==
    /\ limits[a].refresh = "expired" /\ limits[a].attempts < MaxRecoveries
    /\ Enqueue(a, "refresh_recover", "refresh_recover")
    /\ UNCHANGED <<acct, limits, proven, readers, busy, worker, device, stalls>>

\* recover_stale_running without a start-up: the lease has run out
RecoverStale(a) ==
    /\ Running(a) /\ ~job[a].live /\ job[a].type \in WorkerTypes
    /\ job' = [job EXCEPT ![a].status = "pending", ![a].live = TRUE]
    /\ UNCHANGED <<acct, limits, evidence, proven, readers, busy, worker, device,
                   stalls>>

-----------------------------------------------------------------------------
(* The operator's endpoints, each under the lock of the Account row. *)

Recheck(a) ==
    /\ a \notin busy /\ ~Leased(a)
    /\ Exclusive(a, "manual", "full_validation")
    /\ acct' = [acct EXCEPT ![a].suspended = FALSE, ![a].status = "pending_validation"]
    /\ UNCHANGED <<limits, proven, readers, busy, worker, device, stalls>>

\* Faulty variant: the edit leaves the chain of evidence alone.
EditedEvidenceKept(a) == evidence[a]
EditedEvidence(a) == "none"

\* update_account_credentials: under a leased job it asks for one more check
EditCredentials(a) ==
    /\ a \notin busy
    /\ job' = [job EXCEPT ![a] =
                 IF Leased(a) THEN @ ELSE NewJob("manual", "full_validation")]
    /\ evidence' = [evidence EXCEPT ![a] = EditedEvidence(a)]
    /\ acct' = [acct EXCEPT ![a] = [status |-> "pending_validation",
                                    suspended |-> FALSE, rerun |-> Leased(a)]]
    /\ proven' = [proven EXCEPT ![a] = FALSE]
    /\ readers' = [readers EXCEPT ![a] = {}]
    /\ UNCHANGED <<limits, busy, worker, device, stalls>>

\* a new route of the account, or of the default it inherits: no check may be
\* queued, and what was proven on the old route no longer counts
ChangeRoute(a) ==
    /\ ~Active(a) /\ a \notin busy
    /\ acct' = [acct EXCEPT ![a].status = Status(acct[a], "pending_validation"),
                            ![a].rerun = FALSE]
    /\ Enqueue(a, "manual", "full_validation")
    /\ proven' = [proven EXCEPT ![a] = FALSE]
    /\ readers' = [readers EXCEPT ![a] = {}]
    /\ UNCHANGED <<limits, busy, worker, device, stalls>>

\* update_account with a status: maintenance or disabled
Suspend(a) ==
    /\ a \notin busy
    /\ acct' = [acct EXCEPT ![a].suspended = TRUE, ![a].status = "suspended"]
    /\ UNCHANGED <<limits, job, evidence, proven, readers, busy, worker, device,
                   stalls>>

\* what _manual_browser_confirmation_evidence accepts: the check linked to a
\* fresh device login is the last one, and only Cloudflare stopped it
Confirmable(a) ==
    /\ a \notin busy /\ evidence[a] = "blocked" /\ ~Active(a)
    /\ ~acct[a].suspended /\ acct[a].status = "validation_failed" /\ ~acct[a].rerun
    /\ limits[a].refresh = "ok"

ConfirmByHand(a) ==
    /\ Confirmable(a)
    /\ acct' = [acct EXCEPT ![a].status = "active"]
    /\ proven' = [proven EXCEPT ![a] = TRUE]
    /\ UNCHANGED <<limits, job, evidence, readers, busy, worker, device, stalls>>

\* thirty minutes pass
EvidenceAges(a) ==
    /\ evidence[a] # "none"
    /\ evidence' = [evidence EXCEPT ![a] = "none"]
    /\ UNCHANGED <<acct, limits, job, proven, readers, busy, worker, device, stalls>>

-----------------------------------------------------------------------------
(* The rental core, as far as it excludes checks and is excluded by them. *)

MayBeRented(a) ==
    /\ acct[a].status = "active" /\ ~acct[a].suspended
    /\ limits[a].refresh = "ok" /\ ~Active(a)

Rent(a) ==
    /\ a \notin busy /\ MayBeRented(a)
    /\ busy' = busy \cup {a}
    /\ UNCHANGED <<acct, limits, job, evidence, proven, readers, worker, device,
                   stalls>>

Return(a) ==
    /\ a \in busy
    /\ busy' = busy \ {a}
    /\ UNCHANGED <<acct, limits, job, evidence, proven, readers, worker, device,
                   stalls>>

\* !subscription measures the account again and finds its refresh token spent
MeasuredForBuyer(a) ==
    /\ a \in busy /\ limits[a].refresh = "ok"
    /\ limits' = [limits EXCEPT ![a].refresh = "expired"]
    /\ UNCHANGED <<acct, job, evidence, proven, readers, busy, worker, device,
                   stalls>>

AccountJobsNext ==
    \E a \in Accounts :
      \/ QueueLimitCheck(a) \/ QueueScheduled(a) \/ QueueRecovery(a)
      \/ RecoverStale(a) \/ Recheck(a) \/ EditCredentials(a) \/ ChangeRoute(a)
      \/ Suspend(a) \/ ConfirmByHand(a) \/ EvidenceAges(a) \/ Rent(a) \/ Return(a)
      \/ MeasuredForBuyer(a)
=============================================================================
