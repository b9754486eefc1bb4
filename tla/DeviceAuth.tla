----------------------------- MODULE DeviceAuth -----------------------------
(***************************************************************************)
(* services/account_device_auth.py: an operator logs in on OpenAI's own    *)
(* page while the manager polls for tokens.  The session lives in memory,  *)
(* its job and the account in the database.  The manager's lock serialises *)
(* starts and polls, a poll's wait for OpenAI included, so a poll of a is  *)
(* never overtaken by a start for a.                                       *)
(***************************************************************************)
EXTENDS AccountJobs

NoLogin == [at |-> "none", status |-> "active", rerun |-> FALSE]

\* the session's job is still the account's newest row and active
OwnsJob(a) == Device \in job[a].holders /\ Active(a)
Polling(a) == device[a].at = "polling"
\* the manager's lock is one for all accounts
LockFree == \A b \in Accounts : ~Polling(b)

\* start(): an older session of the account is retired with its job, then the
\* job is created as the only active one
StartDevice(a) ==
    /\ LockFree /\ a \notin busy
    /\ ~Leased(a) \/ OwnsJob(a)
    /\ Exclusive(a, "manual", "device_auth")
    /\ device' = [device EXCEPT ![a] = [NoLogin EXCEPT !.at = "pending"]]
    /\ acct' = [acct EXCEPT ![a].suspended = FALSE, ![a].status = "pending_validation"]
    /\ UNCHANGED <<limits, proven, readers, busy, worker, stalls>>

\* Only the manager takes this job: what is in memory keeps it, whatever the
\* queue says in between.
DeviceJob(a) == job[a].type = "device_auth" /\ Active(a)

\* poll() up to OpenAI's answer: the Account it works with was loaded before
PollBegin(a) ==
    /\ device[a].at = "pending" /\ LockFree /\ DeviceJob(a)
    /\ job' = [job EXCEPT ![a].status = "running", ![a].holders = @ \cup {Device}]
    /\ device' = [device EXCEPT ![a] = [at |-> "polling", status |-> acct[a].status,
                                        rerun |-> acct[a].rerun]]
    /\ UNCHANGED <<acct, limits, evidence, proven, readers, busy, worker, stalls>>

\* a recheck or an edit has superseded the job before it was polled
PollSuperseded(a) ==
    /\ device[a].at = "pending" /\ LockFree /\ ~DeviceJob(a)
    /\ device' = [device EXCEPT ![a] = NoLogin]
    /\ UNCHANGED <<acct, limits, job, evidence, proven, readers, busy, worker, stalls>>

\* the operator has not finished on OpenAI's page
PollEmpty(a) ==
    /\ Polling(a)
    /\ device' = [device EXCEPT ![a] = [NoLogin EXCEPT !.at = "pending"]]
    /\ UNCHANGED <<acct, limits, job, evidence, proven, readers, busy, worker, stalls>>

\* what the account becomes after the tokens are stored: never "active", since
\* the password and the TOTP a buyer gets were not exercised
Connected == "pending_validation"

\* tokens arrived for the right identity and were measured; the request for a
\* rerun is cleared only if this session remembers it
DeviceConnected(a) ==
    /\ Polling(a)
    /\ job' = [job EXCEPT ![a] = Enqueued(Over(@),
                                          "manual", "full_validation")]
    /\ evidence' = [evidence EXCEPT ![a] = "linked"]
    /\ acct' = [acct EXCEPT ![a].status = Status(acct[a], Connected),
                            ![a].rerun = @ /\ ~device[a].rerun]
    /\ limits' = [limits EXCEPT ![a] = [refresh |-> "ok", attempts |-> 0]]
    /\ device' = [device EXCEPT ![a] = NoLogin]
    /\ readers' = [readers EXCEPT ![a] = @ \cup {Device}]
    /\ UNCHANGED <<proven, busy, worker, stalls>>

\* the row after _fail: override and rerun are refreshed, status is remembered
FailedRow(a, remembered) ==
    LET s == Status(acct[a], IF acct[a].rerun THEN "pending_validation"
                             ELSE "validation_failed")
    IN [acct[a] EXCEPT !.status = IF s = remembered THEN @ ELSE s, !.rerun = FALSE]
FailedJob(a) ==
    LET j == Over(job[a])
    IN IF acct[a].rerun THEN Enqueued(j, "manual", "full_validation") ELSE j

\* refused, expired, another identity, no route, or the measurement failed
DeviceFails(a, remembered) ==
    /\ Device \in job[a].holders
    /\ acct' = [acct EXCEPT ![a] = FailedRow(a, remembered)]
    /\ job' = [job EXCEPT ![a] = FailedJob(a)]
    /\ evidence' = [evidence EXCEPT ![a] = "none"]
    /\ device' = [device EXCEPT ![a] = NoLogin]
    /\ UNCHANGED <<proven, readers, busy, worker, stalls>>

PollFails(a) == /\ Polling(a) /\ DeviceFails(a, device[a].status)
                /\ UNCHANGED limits
\* the same after the tokens were stored
PollFailsLate(a) == /\ Polling(a) /\ DeviceFails(a, device[a].status)
                    /\ limits' = [limits EXCEPT ![a] = [refresh |-> "ok", attempts |-> 0]]
\* fifteen minutes pass; a job once polled cannot be superseded in that time
SessionExpires(a) == /\ device[a].at = "pending" /\ LockFree
                     /\ DeviceFails(a, acct[a].status)
                     /\ UNCHANGED limits

DeviceAuthNext ==
    \E a \in Accounts :
      \/ StartDevice(a) \/ PollBegin(a) \/ PollSuperseded(a) \/ PollEmpty(a)
      \/ DeviceConnected(a) \/ PollFails(a) \/ PollFailsLate(a) \/ SessionExpires(a)
=============================================================================
