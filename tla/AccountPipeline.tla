--------------------------- MODULE AccountPipeline ---------------------------
(***************************************************************************)
(* The account side as a whole: the queue, the sweeps and the operator     *)
(* (AccountJobs), the workers (ValidationWorker), the device login         *)
(* (DeviceAuth), and a restart of the process.                             *)
(***************************************************************************)
EXTENDS ValidationWorker, DeviceAuth

\* create_account, with its first job
NewAccount == [status |-> "pending_validation", suspended |-> FALSE, rerun |-> FALSE]
Init ==
    /\ acct = [a \in Accounts |-> NewAccount]
    /\ limits = [a \in Accounts |-> [refresh |-> "none", attempts |-> 0]]
    /\ job = [a \in Accounts |-> NewJob("new", "full_validation")]
    /\ evidence = [a \in Accounts |-> "none"]
    /\ proven = [a \in Accounts |-> FALSE]
    /\ readers = [a \in Accounts |-> {}]
    /\ busy = {}
    /\ worker = [w \in Workers |-> Idle]
    /\ device = [a \in Accounts |-> NoLogin]
    /\ stalls = 0

\* Faulty variant: a device login that nobody polls any more stays active.
RestartedJobKept(a) == IF DeviceJob(a) THEN job[a] ELSE [job[a] EXCEPT !.holders = {}]
\* a job that a start-up, or a graceful stop, finds active
RestartedJob(a) ==
    CASE DeviceJob(a) -> FailedJob(a)
      [] Running(a) /\ ~DeviceJob(a) ->
           [job[a] EXCEPT !.status = "pending", !.live = TRUE, !.holders = {}]
      [] OTHER -> [job[a] EXCEPT !.holders = {}]
\* Every session and worker is gone; _recover_interrupted_validation_jobs runs
\* before the listeners start.  shutdown() writes the same rows.
Restart ==
    /\ job' = [a \in Accounts |-> RestartedJob(a)]
    /\ acct' = [a \in Accounts |-> IF DeviceJob(a) THEN FailedRow(a, acct[a].status)
                                   ELSE acct[a]]
    /\ evidence' = [a \in Accounts |-> IF DeviceJob(a) THEN "none" ELSE evidence[a]]
    /\ worker' = [w \in Workers |-> Idle]
    /\ readers' = [a \in Accounts |-> readers[a] \ Workers]
    /\ device' = [a \in Accounts |-> NoLogin]
    /\ UNCHANGED <<limits, proven, busy, stalls>>

Next == AccountJobsNext \/ ValidationWorkerNext \/ DeviceAuthNext \/ Restart

Spec == Init /\ [][Next]_jobVars

(* The recovery sweep and the workers run again and again, a check and a    *)
(* rental end, a login that nobody finishes expires, and an operator does   *)
(* not supersede the recovery job every single time: strong fairness, since *)
(* each of these is now and then prevented by another.                      *)
Fairness ==
    \A a \in Accounts :
      /\ WF_jobVars(RecoverStale(a)) /\ WF_jobVars(Return(a))
      /\ SF_jobVars(QueueRecovery(a))
      /\ SF_jobVars(\E w \in Workers : Claim(w, a))
      /\ SF_jobVars(\E w \in Workers : job[a].type = "refresh_recover" /\ Claim(w, a))
      /\ SF_jobVars(\E w \in Workers : WorkerEnds(w, a))
      /\ SF_jobVars(SessionExpires(a) \/ PollFails(a))

FairSpec == Spec /\ Fairness

-----------------------------------------------------------------------------
(* Types: rows, sessions and holders keep their shape, and a recovery never *)
(* takes more attempts than RefreshRecoveryWorker allows, one more for each *)
(* worker that outlived its lease.                                          *)
JobsTypeOK ==
    /\ acct \in [Accounts -> Row]
    /\ limits \in [Accounts -> [refresh : {"none", "ok", "expired"},
                                attempts : 0..(MaxRecoveries + stalls)]]
    /\ job \in [Accounts -> Job]
    /\ evidence \in [Accounts -> {"none", "linked", "blocked"}]
    /\ proven \in [Accounts -> BOOLEAN]
    /\ readers \in [Accounts -> SUBSET (Workers \cup {Device})]
    /\ busy \subseteq Accounts
    /\ worker \in [Workers -> [acct : Accounts \cup {NoAccount}, type : WorkerTypes,
                               scheduled : BOOLEAN, row : Row]]
    /\ device \in [Accounts -> [at : {"none", "pending", "polling"},
                                status : RowStatus, rerun : BOOLEAN]]
    /\ stalls \in 0..MaxStalls

\* A suspension wins over every verdict, however late: models/account.py says
\* a late success must not make a paused account sellable again.
SuspensionWins == \A a \in Accounts : acct[a].suspended => acct[a].status # "active"

\* As long as no worker has outlived its lease, an account is worked on by one
\* worker or one poll at a time, and by none while a buyer has it.
AtWork(a) == {w \in Workers : On(w, a)} \cup IF Polling(a) THEN {Device} ELSE {}
OneLoginAtATime ==
    stalls = 0 => \A a \in Accounts :
                    /\ Cardinality(AtWork(a)) <= 1
                    /\ a \in busy => AtWork(a) = {}

\* Credentials or a route that no check has proven are never forgotten on an
\* account for sale: the rerun is still requested, or a check is due or under
\* way.  (As long as no worker has outlived its lease: the verdict of one that
\* did is written over its successor's.)
UnprovenIsDue ==
    stalls = 0 => \A a \in Accounts :
                    acct[a].status = "active" /\ ~proven[a] => acct[a].rerun \/ Active(a)

\* An account that waits for a verdict has a check due or under way, or still
\* holds the request for one, except when its recoveries are spent: those end
\* without a verdict, and only the operator can queue the next check.
WaitingIsDue ==
    stalls = 0 =>
    \A a \in Accounts :
      acct[a].status = "pending_validation" =>
        Active(a) \/ acct[a].rerun \/ limits[a].attempts >= MaxRecoveries

\* An account can be confirmed by hand only about the credentials and the route
\* it has now: neither has changed since the device login vouched for it.
ConfirmableIsCurrent == \A a \in Accounts : evidence[a] # "none" => Device \in readers[a]

\* A spent refresh token is always tried again, until the attempts are spent:
\* no restart, stale worker, other check, rental or device login keeps the
\* recovery waiting for ever.
RecoveryTried ==
    \A a \in Accounts :
      limits[a].refresh = "expired"
        ~> \/ limits[a].refresh = "ok" \/ limits[a].attempts >= MaxRecoveries
           \/ \E w \in Workers : On(w, a) /\ worker[w].type = "refresh_recover"

\* An account that a buyer gets has been logged in to with the credentials and
\* the route it has (refresh_worker.py:273: kept out of the pool until the
\* follow-up pass has validated the newly stored credentials).
SoldIsProven == [][\A a \in busy' \ busy : proven[a]]_jobVars
=============================================================================
