-------------------------- MODULE ValidationWorker --------------------------
(***************************************************************************)
(* refresh_worker.py with validate_account and measure_account_limits: a   *)
(* worker takes a job, commits "running", works outside the database, and  *)
(* writes its verdict.                                                     *)
(*                                                                         *)
(* The worker's session keeps the Account it loaded at the start (sessions *)
(* are built with expire_on_commit=False, and locking a row again does not *)
(* reload it): worker[w].row.  Only operator_status_override is refreshed  *)
(* before a verdict.  An attribute is written to the database only when it *)
(* differs from what the session remembers.                                *)
(***************************************************************************)
EXTENDS AccountJobs

CONSTANT NoAccount
ASSUME NoAccountAssumption == NoAccount \notin Accounts

Idle == [acct |-> NoAccount, type |-> "full_validation", scheduled |-> FALSE,
         row |-> [status |-> "active", suspended |-> FALSE, rerun |-> FALSE]]
Free(w) == worker[w] = Idle
On(w, a) == worker[w].acct = a

Codes == {"passing", "cloudflare", "terminal"}

\* what the column holds after a session that remembers old writes new
Written(column, old, new) == IF old = new THEN column ELSE new

\* _enqueue_requested_rerun reads the remembered row: the account goes back to
\* pending_validation and one full check follows
SeesRerun(w) == worker[w].row.rerun

\* Faulty variant: a verdict clears the request without having seen it.
JudgedClears(w, a, column, s) == [acct[a] EXCEPT !.status = column, !.rerun = FALSE]
\* the Account after verdict s, with the rerun that the session knows of
Judged(w, a, column, s) ==
    [acct[a] EXCEPT
       !.status = IF SeesRerun(w) THEN Written(column, s, Status(acct[a], "pending_validation"))
                  ELSE column,
       !.rerun = @ /\ ~SeesRerun(w)]

\* Faulty variant: the request is cleared, and nothing is queued.
WithoutRerun(w, j) == j
\* the job after this worker writes its end, and the checks it queues
Ended(w, a) ==
    IF w \in job[a].holders THEN Over(job[a]) ELSE job[a]
WithRerun(w, j) ==
    IF SeesRerun(w) THEN Enqueued(j, "manual", "full_validation") ELSE j
Release(w) == worker' = [worker EXCEPT ![w] = Idle]
Forget(w, a) == readers' = [readers EXCEPT ![a] = @ \ {w}]

-----------------------------------------------------------------------------
\* Faulty variant: a busy account's job is taken too.
ClaimableBusy(a) == job[a].status = "pending" /\ job[a].type \in WorkerTypes
Claimable(a) ==
    /\ job[a].status = "pending" /\ job[a].type \in WorkerTypes /\ a \notin busy

\* fetch_next_pending: the most urgent class first
NextInLine(a) ==
    /\ Claimable(a)
    /\ \A b \in Accounts : Claimable(b) => Urgency[job[a].prio] <= Urgency[job[b].prio]

Exhausted(a) == /\ job[a].type = "refresh_recover"
                /\ limits[a].attempts >= MaxRecoveries

Claim(w, a) ==
    /\ Free(w) /\ NextInLine(a) /\ ~Exhausted(a)
    /\ job' = [job EXCEPT ![a].status = "running", ![a].live = TRUE,
                          ![a].holders = @ \cup {w}]
    /\ worker' = [worker EXCEPT ![w] =
                    [acct |-> a, type |-> job[a].type,
                     scheduled |-> job[a].prio = "scheduled", row |-> acct[a]]]
    /\ readers' = [readers EXCEPT ![a] = @ \cup {w}]
    /\ UNCHANGED <<acct, limits, evidence, proven, busy, device, stalls>>

\* refresh_recovery_exhausted: the job fails without a login
GiveUpRecovery(w, a) ==
    LET failed == Over(job[a])
        j == IF acct[a].rerun THEN Enqueued(failed, "manual", "full_validation")
             ELSE failed
    IN /\ Free(w) /\ NextInLine(a) /\ Exhausted(a)
       /\ job' = [job EXCEPT ![a] = j]
       /\ evidence' = [evidence EXCEPT ![a] = EvidenceAfter(a, j)]
       /\ acct' = [acct EXCEPT
            ![a].status = IF acct[a].rerun THEN Status(acct[a], "pending_validation") ELSE @,
            ![a].rerun = FALSE]
       /\ UNCHANGED <<limits, proven, readers, busy, worker, device, stalls>>

\* Faulty variant: the suspension is the one remembered from the start.
VerdictRemembered(w, a, s) == Status(worker[w].row, s)
\* the operator's suspension as the verdict sees it: refreshed just before
Verdict(w, a, s) == Status(acct[a], s)

\* login, tokens and measurement succeeded
CheckPasses(w, a) ==
    LET s == Verdict(w, a, "active")
        j == WithRerun(w, Ended(w, a))
    IN /\ On(w, a) /\ worker[w].type # "limit_check"
       /\ acct' = [acct EXCEPT ![a] =
                     Judged(w, a, Written(acct[a].status, worker[w].row.status, s), s)]
       /\ limits' = [limits EXCEPT ![a] = [refresh |-> "ok", attempts |-> 0]]
       /\ job' = [job EXCEPT ![a] = j]
       /\ evidence' = [evidence EXCEPT ![a] =
                         IF w \in job[a].holders THEN "none" ELSE EvidenceAfter(a, j)]
       /\ proven' = [proven EXCEPT ![a] = @ \/ w \in readers[a]]
       /\ Forget(w, a) /\ Release(w)
       /\ UNCHANGED <<busy, device, stalls>>

\* a daily check that failed in passing leaves a proven account for sale
KeepsActive(w, c) ==
    /\ worker[w].type = "full_validation" /\ worker[w].scheduled
    /\ worker[w].row.status = "active" /\ c # "terminal"

\* Faulty variant: the attempt is counted twice.
RecoveredTwice(w, a, tokens) ==
    IF worker[w].type # "refresh_recover" \/ limits[a].refresh = "none" THEN limits[a]
    ELSE [refresh |-> "expired", attempts |-> limits[a].attempts + 2]
\* _record_recovery_failure, and one more attempt spent; tokens: the tokens of
\* this login were already stored
Recovered(w, a, tokens) ==
    LET l == IF tokens THEN [refresh |-> "ok", attempts |-> 0] ELSE limits[a]
    IN IF worker[w].type # "refresh_recover" \/ l.refresh = "none" THEN l
       ELSE [refresh |-> "expired", attempts |-> l.attempts + 1]

CheckFails(w, a, c, tokens) ==
    LET s == Verdict(w, a, IF KeepsActive(w, c) THEN "active" ELSE "validation_failed")
        first == Written(acct[a].status, worker[w].row.status, "validation_failed")
        j == WithRerun(w, Ended(w, a))
    IN /\ On(w, a) /\ worker[w].type # "limit_check"
       /\ acct' = [acct EXCEPT ![a] =
                     Judged(w, a, Written(first, "validation_failed", s), s)]
       /\ limits' = [limits EXCEPT ![a] = Recovered(w, a, tokens)]
       /\ job' = [job EXCEPT ![a] = j]
       /\ evidence' = [evidence EXCEPT ![a] =
            IF w \notin job[a].holders \/ SeesRerun(w) THEN EvidenceAfter(a, j)
            ELSE IF @ = "linked" /\ c = "cloudflare" /\ worker[w].type = "full_validation"
                 THEN "blocked" ELSE "none"]
       /\ Forget(w, a) /\ Release(w)
       /\ UNCHANGED <<proven, busy, device, stalls>>

-----------------------------------------------------------------------------
(* _process_limit_check; the override it uses is the remembered one. *)

\* the status is set to s, then perhaps once more for the rerun
LimitStep(w, a, s, l, j) ==
    LET k == WithRerun(w, j)
        column == Written(acct[a].status, worker[w].row.status, s)
        again == Status(worker[w].row, "pending_validation")
    IN /\ On(w, a) /\ worker[w].type = "limit_check"
       /\ acct' = [acct EXCEPT
            ![a].status = IF SeesRerun(w) THEN Written(column, s, again) ELSE column,
            ![a].rerun = @ /\ ~SeesRerun(w)]
       /\ limits' = [limits EXCEPT ![a] = l]
       /\ job' = [job EXCEPT ![a] = k]
       /\ evidence' = [evidence EXCEPT ![a] = EvidenceAfter(a, k)]
       /\ Forget(w, a) /\ Release(w)
       /\ UNCHANGED <<proven, busy, device, stalls>>

\* refreshed: the access token was renewed on the way, which ends a recovery
LimitsMeasured(w, a, refreshed) ==
    LimitStep(w, a, worker[w].row.status,
              [refresh |-> "ok", attempts |-> IF refreshed THEN 0 ELSE limits[a].attempts],
              Ended(w, a))

LimitsUnavailable(w, a) ==
    LimitStep(w, a, worker[w].row.status, limits[a], Ended(w, a))

\* the refresh token is spent: a recovery, that is a login, is queued
TokenExpired(w, a) ==
    LimitStep(w, a, worker[w].row.status, [limits[a] EXCEPT !.refresh = "expired"],
              Enqueued(Ended(w, a), "refresh_recover", "refresh_recover"))

\* the plan is unknown or does not fit its window: the account cannot be sold
PlanRefused(w, a) ==
    LimitStep(w, a, Status(worker[w].row, "validation_failed"),
              [limits[a] EXCEPT !.refresh = "ok"], Ended(w, a))

-----------------------------------------------------------------------------
\* _requeue_cancelled: the job is given back if it is still this worker's
Cancelled(w, a) ==
    /\ On(w, a)
    /\ job' = [job EXCEPT ![a] =
                 IF w \in @.holders /\ @.status = "running"
                 THEN [@ EXCEPT !.status = "pending", !.live = TRUE] ELSE @]
    /\ Forget(w, a) /\ Release(w)
    /\ UNCHANGED <<acct, limits, evidence, proven, busy, device, stalls>>

\* twenty minutes pass and the worker is still at it
Stall(a) ==
    /\ stalls < MaxStalls /\ Leased(a) /\ job[a].type \in WorkerTypes
    /\ job' = [job EXCEPT ![a].live = FALSE]
    /\ stalls' = stalls + 1
    /\ UNCHANGED <<acct, limits, evidence, proven, readers, busy, worker, device>>

WorkerEnds(w, a) ==
    \/ CheckPasses(w, a) \/ LimitsUnavailable(w, a)
    \/ TokenExpired(w, a) \/ PlanRefused(w, a)
    \/ \E b \in BOOLEAN : LimitsMeasured(w, a, b)
    \/ \E c \in Codes, b \in BOOLEAN : CheckFails(w, a, c, b)

ValidationWorkerNext ==
    \E a \in Accounts :
      \/ Stall(a)
      \/ \E w \in Workers :
           Claim(w, a) \/ GiveUpRecovery(w, a) \/ WorkerEnds(w, a) \/ Cancelled(w, a)
=============================================================================
