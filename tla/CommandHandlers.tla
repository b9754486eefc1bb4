-------------------------- MODULE CommandHandlers --------------------------
(***************************************************************************)
(* services/command_handlers.py: the two buyer commands that touch the     *)
(* rental.  !code discloses a login code, authorised anew in each          *)
(* transaction; !replace validates the account in a browser, reserves a    *)
(* healthy one, logs the old one out and moves the rental.                 *)
(***************************************************************************)
EXTENDS RentalRows

\* an authorisation check past the deadline closes the rental by itself
CommandTooLate(w, o) ==
    /\ task[w] = Idle
    /\ CloseOnCommand(o) /\ rstatus' # rstatus
    /\ UNCHANGED <<saleVars, racct, term, repl, deliveryVars, leaseVars,
                   noticeVars, accountVars, task, faults, access>>

\* CodeHandler up to its durable claim of the TOTP step
CodeClaim(w, o) ==
    /\ task[w] = Idle
    /\ Authorised(o) /\ remote[o] # "refunded"
    /\ astatus[racct[o]] = "active"
    /\ Begin(w, Step("code", o, racct[o]))
    /\ UNCHANGED <<saleVars, rentalVars, deliveryVars, leaseVars, noticeVars,
                   accountVars, faults, access>>

\* Faulty variant: the Account row is not read again before the send.
MayShowCodeAnyStatus(w, o) == Authorised(o) /\ racct[o] = task[w].acct

\* the second authorisation
MayShowCode(w, o) ==
    /\ Authorised(o) /\ racct[o] = task[w].acct
    /\ astatus[racct[o]] = "active"

\* its locks are held until the message is sent; a send that fails may have
\* shown the code all the same
CodeSend(w, o) ==
    /\ At(w, "code") /\ task[w].ord = o
    /\ MayShowCode(w, o)
    /\ access' = [access EXCEPT ![racct[o]] = @ \cup {o}]
    /\ Finish(w)
    /\ UNCHANGED <<saleVars, rentalVars, deliveryVars, leaseVars, noticeVars,
                   accountVars, faults>>

\* refused, or the TOTP step has passed meanwhile, or the send failed
CodeRefused(w, o) ==
    /\ At(w, "code") /\ task[w].ord = o
    /\ IF racct[o] = task[w].acct THEN CloseOnCommand(o) ELSE rstatus' = rstatus
    /\ Finish(w)
    /\ UNCHANGED <<saleVars, racct, term, repl, deliveryVars, leaseVars,
                   noticeVars, accountVars, faults, access>>

-----------------------------------------------------------------------------
(* ReplaceHandler                                                          *)

\* Faulty variant: the replacement limit is not asked.
ReplaceableWithoutLimit(o) == Authorised(o) /\ term[o] = "open"

\* enough time and budget are left
Replaceable(o) ==
    /\ Authorised(o) /\ term[o] = "open"
    /\ repl[o] < MaxReplacements

\* __call__ up to the validator, once per command the buyer sends; an abandoned
\* reservation is released on the way.  Reading Account now is what the
\* validator's session remembers.
ReplaceStart(w, o) ==
    /\ task[w] = Idle
    /\ Replaceable(o) /\ LeaseFree(o)
    /\ IF target[o] # NoAccount
       THEN target' = [target EXCEPT ![o] = NoAccount] /\ DropLease(o)
       ELSE UNCHANGED leaseVars
    /\ Begin(w, [Step("check", o, racct[o]) EXCEPT !.was = astatus[racct[o]]])
    /\ UNCHANGED <<saleVars, rentalVars, deliveryVars, noticeVars,
                   accountVars, faults, access>>

\* what verdict s takes from a replacement: the account it is leaving comes
\* back into use, or the one it has reserved goes out of use
Undone(a, s) ==
    {b \in Accounts :
       /\ b = a /\ astatus[b] # s
       /\ \E o \in Orders :
            target[o] # NoAccount /\ b = IF s = "active" THEN racct[o] ELSE target[o]}

\* validate_account writes its verdict, unless the session believes the row
\* holds it already; the row is not read again in between
Verdict(w, s) ==
    LET a == task[w].acct
        writes == task[w].was # s
    IN  /\ astatus' = IF writes THEN [astatus EXCEPT ![a] = s] ELSE astatus
        /\ overruled' = IF writes THEN overruled \cup Undone(a, s) ELSE overruled

\* the account works (the replacement is declined), or failed in a way that
\* is for the seller to look at
ReplaceDeclined(w, o) ==
    /\ At(w, "check") /\ task[w].ord = o
    /\ Verdict(w, "active") \/ Verdict(w, "validation_failed")
    /\ Finish(w)
    /\ UNCHANGED <<saleVars, rentalVars, deliveryVars, leaseVars, noticeVars,
                   job, faults, access>>

\* its credentials no longer work
ReplaceChecked(w, o) ==
    /\ At(w, "check") /\ task[w].ord = o
    /\ Verdict(w, "validation_failed")
    /\ Begin(w, [task[w] EXCEPT !.at = "checked"])
    /\ UNCHANGED <<saleVars, rentalVars, deliveryVars, leaseVars, noticeVars,
                   job, faults, access>>

MayReplace(w, o) ==
    /\ At(w, "checked") /\ task[w].ord = o
    /\ Replaceable(o) /\ racct[o] = task[w].acct /\ LeaseFree(o)

\* _claim_replacement_revoke
ReplaceClaim(w, o, b) ==
    /\ MayReplace(w, o)
    /\ Allocatable(o, b)
    /\ astatus' = [astatus EXCEPT ![racct[o]] = "maintenance"]
    /\ target' = [target EXCEPT ![o] = b]
    /\ TakeLease(w, o)
    /\ Begin(w, [task[w] EXCEPT !.at = "replace", !.tgt = b])
    /\ UNCHANGED <<saleVars, rentalVars, deliveryVars, noticeVars, job,
                   overruled, faults, access>>

\* no account found (the pool skips rows others have locked): a stale claim
\* is gone, the buyer keeps the account
ReplaceNoAccount(w, o) ==
    /\ MayReplace(w, o)
    /\ target' = [target EXCEPT ![o] = NoAccount]
    /\ DropLease(o)
    /\ Finish(w)
    /\ UNCHANGED <<saleVars, rentalVars, deliveryVars, noticeVars,
                   accountVars, faults, access>>

ReplaceRefused(w, o) ==
    /\ At(w, "checked") /\ task[w].ord = o
    /\ ~MayReplace(w, o)
    /\ IF racct[o] = task[w].acct THEN CloseOnCommand(o) ELSE rstatus' = rstatus
    /\ Finish(w)
    /\ UNCHANGED <<saleVars, racct, term, repl, deliveryVars, leaseVars,
                   noticeVars, accountVars, faults, access>>

ReplaceKick(w, o, ok) ==
    /\ At(w, "replace") /\ task[w].ord = o
    /\ Logout(task[w].acct, ok)
    /\ Begin(w, [task[w] EXCEPT !.at = "replace_kicked", !.ok = ok])
    /\ UNCHANGED <<saleVars, rentalVars, deliveryVars, leaseVars, noticeVars,
                   accountVars>>

\* Faulty variant: the rental moves although the logout failed.
ReplaceMatchesAnyLogout(w, o) ==
    /\ claim[o] = w /\ target[o] = task[w].tgt /\ racct[o] = task[w].acct
    /\ astatus[task[w].tgt] = "active"

\* _finalize_replacement: only the worker whose claim and reservation still
\* stand clears them, and moves the rental if all of it is still allowed
OwnsReplacement(w, o) == Owns(w, o) /\ target[o] = task[w].tgt
ReplaceMatches(w, o) ==
    /\ OwnsReplacement(w, o) /\ racct[o] = task[w].acct
    /\ task[w].ok /\ astatus[task[w].tgt] = "active"

ReplaceSwitch(w, o) ==
    /\ At(w, "replace_kicked") /\ task[w].ord = o
    /\ ReplaceMatches(w, o) /\ Replaceable(o)
    /\ racct' = [racct EXCEPT ![o] = task[w].tgt]
    /\ repl' = [repl EXCEPT ![o] = @ + 1]
    /\ dstatus' = [dstatus EXCEPT ![o] = "sending"]
    /\ template' = [template EXCEPT ![o] = "replace_success"]
    /\ attempts' = [attempts EXCEPT ![o] = 0]
    /\ dwait' = [dwait EXCEPT ![o] = TRUE]
    /\ target' = [target EXCEPT ![o] = NoAccount]
    /\ DropLease(o)
    /\ job' = Enqueued(task[w].acct)
    /\ Begin(w, Step("deliver", o, NoAccount))
    /\ UNCHANGED <<saleVars, rstatus, term, noticeVars, astatus, overruled,
                   faults, access>>

ReplaceGiveUp(w, o) ==
    /\ At(w, "replace_kicked") /\ task[w].ord = o
    /\ ~(ReplaceMatches(w, o) /\ Replaceable(o))
    /\ IF OwnsReplacement(w, o)
       THEN target' = [target EXCEPT ![o] = NoAccount] /\ DropLease(o)
       ELSE UNCHANGED leaseVars
    /\ IF ReplaceMatches(w, o) THEN CloseOnCommand(o) ELSE rstatus' = rstatus
    /\ Finish(w)
    /\ UNCHANGED <<saleVars, racct, term, repl, deliveryVars, noticeVars,
                   accountVars, faults, access>>

CommandHandlersNext ==
    \E w \in Workers, o \in Orders :
      \/ CommandTooLate(w, o)
      \/ CodeClaim(w, o) \/ CodeSend(w, o) \/ CodeRefused(w, o)
      \/ ReplaceStart(w, o) \/ ReplaceDeclined(w, o) \/ ReplaceChecked(w, o)
      \/ \E b \in Accounts : ReplaceClaim(w, o, b)
      \/ ReplaceNoAccount(w, o) \/ ReplaceRefused(w, o)
      \/ \E ok \in BOOLEAN : ReplaceKick(w, o, ok)
      \/ ReplaceSwitch(w, o) \/ ReplaceGiveUp(w, o)
=============================================================================
