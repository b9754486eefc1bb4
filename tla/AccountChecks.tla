--------------------------- MODULE AccountChecks ---------------------------
(***************************************************************************)
(* The account side: check_job_queue.py and refresh_worker.py as far as    *)
(* they change who may get the account, the operator's endpoints of        *)
(* api/routers/accounts.py, and what the measurements say.  A check logs   *)
(* in to the account, so it must never run under a buyer.                  *)
(***************************************************************************)
EXTENDS RentalRows

restVars == <<saleVars, rentalVars, deliveryVars, leaseVars, noticeVars, task,
              overruled, faults, access>>

\* the recovery, limit and daily validation sweeps queue a check
EnqueueCheck(a) ==
    /\ a \in CheckedAccounts
    /\ job[a] = "none"
    /\ job' = Enqueued(a)
    /\ UNCHANGED <<restVars, astatus>>

\* fetch_next_pending and mark_running, in one transaction
StartCheck(a) ==
    /\ job[a] = "pending" /\ ~Busy(a)
    /\ job' = [job EXCEPT ![a] = "running"]
    /\ UNCHANGED <<restVars, astatus>>

\* the worker's verdict; the operator's override wins, a limit check that
\* worked or met a passing error leaves the status
FinishCheck(a, s) ==
    /\ job[a] = "running"
    /\ s \in {"active", "validation_failed", astatus[a]}
    /\ astatus' = [astatus EXCEPT ![a] = IF @ = "suspended" THEN @ ELSE s]
    /\ job' = [job EXCEPT ![a] = "none"]
    /\ UNCHANGED restVars

\* new credentials or a new route arrived during the check: one more follows
FinishRerun(a) ==
    /\ job[a] = "running"
    /\ astatus' = [astatus EXCEPT ![a] =
                     IF @ = "suspended" THEN @ ELSE "pending_validation"]
    /\ job' = [job EXCEPT ![a] = "pending"]
    /\ UNCHANGED restVars

\* the worker was cancelled, or died and recover_stale_running found its job;
\* or a limit check could not refresh its token and queued a recovery
RequeueCheck(a) ==
    /\ job[a] = "running"
    /\ job' = [job EXCEPT ![a] = "pending"]
    /\ UNCHANGED <<restVars, astatus>>

\* recheck_account, update_account_credentials and a route change
Recheck(a) ==
    /\ a \in CheckedAccounts
    /\ ~Busy(a)
    /\ job[a] # "running"
    /\ astatus' = [astatus EXCEPT ![a] = "pending_validation"]
    /\ job' = Enqueued(a)
    /\ UNCHANGED restVars

\* update_account with a status: the operator can only suspend
Suspend(a) ==
    /\ a \in CheckedAccounts
    /\ ~Busy(a)
    /\ astatus' = [astatus EXCEPT ![a] = "suspended"]
    /\ UNCHANGED <<restVars, job>>

AccountChecksNext ==
    \E a \in Accounts :
      \/ EnqueueCheck(a) \/ StartCheck(a)
      \/ \E s \in AccountStatus : FinishCheck(a, s)
      \/ FinishRerun(a) \/ RequeueCheck(a) \/ Recheck(a) \/ Suspend(a)
=============================================================================
