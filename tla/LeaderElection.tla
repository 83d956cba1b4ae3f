--------------------------- MODULE LeaderElection ---------------------------
(***************************************************************************)
(* One writer at a time: the replicas of the controller manager            *)
(* (node-leaderelection) or of the scheduler (its own copy, election.rs)   *)
(* compete for a Lease with optimistic writes and run their work while     *)
(* they renew it.                                                          *)
(*                                                                         *)
(* Time is what the protocol rests on.  It passes in ticks, and is kept as *)
(* ages: how long ago the lease says it was renewed, how long an attempt   *)
(* has been going on, and so on.  All clocks agree.                        *)
(***************************************************************************)
EXTENDS Integers

CONSTANTS
    Replicas,
    LeaseDuration, RenewDeadline, RetryPeriod,
    AnswerTime,      \* what an attempt to acquire takes at most; no code bounds it
    ConflictRetries, \* MAX_CONFLICT_RETRIES
    MaxErrors,       \* requests that fail, and crashes
    None, Gone       \* nobody; a former process of a replica

ASSUME DurationsAssumption ==
    /\ LeaseDuration \in Nat /\ RenewDeadline \in Nat /\ RetryPeriod \in Nat
    /\ AnswerTime \in Nat /\ ConflictRetries \in Nat /\ MaxErrors \in Nat
    /\ 0 < RetryPeriod /\ RetryPeriod < RenewDeadline
    /\ RenewDeadline < LeaseDuration          \* ElectionConfig::validate
ASSUME NamesAssumption == None \notin Replicas /\ Gone \notin Replicas /\ None # Gone

VARIABLES
    copy,        \* which of the two copies of the code runs
    lease,       \* the Lease object: holder (None: there is none), age of renewTime
    attempt,     \* a replica's call of try_acquire
    left,        \* of a replica's sleep, which it is in between attempts
    leading,     \* its work runs
    last,        \* since last_success
    late,        \* a write given up on that may still arrive
    errors

vars == <<copy, lease, attempt, left, leading, last, late, errors>>

\* ages are kept up to these; no comparison tells older ones apart
Slowest == IF AnswerTime > RetryPeriod THEN AnswerTime ELSE RetryPeriod
Old     == LeaseDuration + Slowest + 1
Later(a, bound) == IF a < bound THEN a + 1 ELSE bound

\* of an attempt: how far it is, its outcome when done, since when it goes on,
\* since when it knows the time, whether nobody wrote the lease since it read it,
\* and the conflicts so far
Asleep  == [phase |-> "sleep", answer |-> "failed", age |-> 0, stamp |-> 0,
            fresh |-> FALSE, tries |-> 0]
Nothing == [stamp |-> 0, holder |-> None]

-----------------------------------------------------------------------------
Init ==
    /\ copy \in {"shared", "scheduler"}
    /\ lease = [holder |-> None, age |-> 0]
    /\ attempt = [r \in Replicas |-> Asleep]
    /\ left \in [Replicas -> 0 .. RetryPeriod]
    /\ leading = [r \in Replicas |-> FALSE]
    /\ last = [r \in Replicas |-> 0]
    /\ late = [r \in Replicas |-> Nothing]
    /\ errors = 0

\* variant: on the second the lease lapses
may_acquire_early(r, now) == \/ lease.holder \in {None, r}
                             \/ lease.age - now >= LeaseDuration

\* variant: a holder that died keeps its lease
may_acquire_if_given_up(r, now) == lease.holder \in {None, r}

\* may_acquire: it is unheld, or ours, or was renewed too long ago for the clock
\* reading this attempt goes by
may_acquire(r, now) == \/ lease.holder \in {None, r}
                       \/ lease.age - now > LeaseDuration

Step(r, from, to) ==
    /\ attempt[r].phase = from
    /\ attempt' = [attempt EXCEPT ![r].phase = to]

Done(r, answer) == [phase |-> "done", answer |-> answer, age |-> attempt[r].age,
                    stamp |-> attempt[r].stamp, fresh |-> FALSE, tries |-> 0]

\* try_acquire starts: the shared copy reads the clock here
Begin(r) ==
    /\ left[r] = 0
    /\ Step(r, "sleep", "read")
    /\ UNCHANGED <<copy, lease, left, leading, last, late, errors>>

\* the server answers the GET; the scheduler's copy reads the clock now, unless
\* there is no Lease yet, and one has to be created
Read(r) ==
    /\ attempt[r].phase = "read"
    /\ LET exists == lease.holder # None
           now == IF copy = "scheduler" /\ exists THEN 0 ELSE attempt[r].stamp
       IN attempt' = [attempt EXCEPT ![r] =
             IF may_acquire(r, now)
             THEN [@ EXCEPT !.phase = IF exists THEN "replace" ELSE "create",
                            !.stamp = now, !.fresh = TRUE]
             ELSE Done(r, "taken")]
    /\ UNCHANGED <<copy, lease, left, leading, last, late, errors>>

Writing(r) == attempt[r].phase \in {"create", "replace"}

\* the server takes a write that carries the resourceVersion it has, and nothing
\* that was read before it is fresh any more
Stored(holder, renewed) == lease' = [holder |-> holder, age |-> renewed]
Outdated == [q \in Replicas |-> [attempt[q] EXCEPT !.fresh = FALSE]]
NoneLate == [q \in Replicas |-> Nothing]

Write(r) ==
    /\ Writing(r) /\ attempt[r].fresh
    /\ Stored(r, attempt[r].stamp)
    /\ attempt' = [Outdated EXCEPT ![r] = Done(r, "ok")]
    /\ late' = NoneLate
    /\ UNCHANGED <<copy, left, leading, last, errors>>

\* variant: the scheduler's copy takes any conflict for a lost race
Conflicted_lost(r) == Done(r, "taken")

\* variant: one conflict too many is retried
Conflicted_once_more(r) ==
    IF copy = "shared" \/ attempt[r].phase = "create" THEN Done(r, "taken")
    ELSE [attempt[r] EXCEPT !.phase = "read", !.tries = @ + 1]

\* ... and answers 409 to any other: a lost race, and for the scheduler's copy,
\* when it was a replace, a reason to read again
Conflicted(r) ==
    IF copy = "shared" \/ attempt[r].phase = "create" THEN Done(r, "taken")
    ELSE IF attempt[r].tries < ConflictRetries
    THEN [attempt[r] EXCEPT !.phase = "read", !.tries = attempt[r].tries + 1]
    ELSE Done(r, "failed")

Conflict(r) ==
    /\ Writing(r) /\ ~attempt[r].fresh
    /\ attempt' = [attempt EXCEPT ![r] = Conflicted(r)]
    /\ UNCHANGED <<copy, lease, left, leading, last, late, errors>>

\* an attempt ends without its answer; a write may still be on its way
Unanswered(r) == /\ attempt[r].phase # "sleep"
                 /\ ~(attempt[r].phase = "done" /\ attempt[r].answer = "failed")

GiveUp(r) ==
    /\ attempt' = [attempt EXCEPT ![r] = Done(r, "failed")]
    /\ \/ UNCHANGED late
       \/ /\ Writing(r) /\ attempt[r].fresh
          /\ late' = [late EXCEPT ![r] = [stamp |-> attempt[r].stamp, holder |-> r]]

Fail(r) ==
    /\ Unanswered(r) /\ errors < MaxErrors
    /\ errors' = errors + 1
    /\ GiveUp(r)
    /\ UNCHANGED <<copy, lease, left, leading, last>>

\* tokio::time::timeout around a renewal
TimeOut(r) ==
    /\ Unanswered(r) /\ leading[r] /\ attempt[r].age = RetryPeriod
    /\ GiveUp(r)
    /\ UNCHANGED <<copy, lease, left, leading, last, errors>>

LateWrite(r) ==
    /\ late[r] # Nothing
    /\ Stored(late[r].holder, late[r].stamp)
    /\ attempt' = Outdated
    /\ late' = NoneLate
    /\ UNCHANGED <<copy, left, leading, last, errors>>

Sleep(r) == /\ attempt' = [attempt EXCEPT ![r] = Asleep]
            /\ left'    = [left EXCEPT ![r] = RetryPeriod]

\* acquire returned, or a renewal succeeded
Acquired(r) ==
    /\ attempt[r].phase = "done" /\ attempt[r].answer = "ok"
    /\ leading' = [leading EXCEPT ![r] = TRUE]
    /\ last'    = [last EXCEPT ![r] = 0]
    /\ Sleep(r)
    /\ UNCHANGED <<copy, lease, late, errors>>

Refused(r) == attempt[r].phase = "done" /\ attempt[r].answer # "ok"

\* variant: the deadline is looked at only when a renewal was refused
MustStop_when_taken(r) == attempt[r].answer = "taken"

MustStop(r) == \/ attempt[r].answer = "taken"
               \/ last[r] >= RenewDeadline

\* try again after a sleep: a standby always, a leader while it may
TryAgain(r) ==
    /\ Refused(r)
    /\ leading[r] => ~MustStop(r)
    /\ Sleep(r)
    /\ UNCHANGED <<copy, lease, leading, last, late, errors>>

\* the process ends, and a new one takes its place, to which the old one is a
\* stranger: the identity has the pid in it
Renamed(h, r) == IF h = r THEN Gone ELSE h

Restart(r) ==
    /\ leading' = [leading EXCEPT ![r] = FALSE]
    /\ last'    = [last EXCEPT ![r] = 0]
    /\ attempt' = [attempt EXCEPT ![r] = Asleep]
    /\ \E wait \in 0 .. RetryPeriod : left' = [left EXCEPT ![r] = wait]
    /\ lease'   = [lease EXCEPT !.holder = Renamed(@, r)]
    /\ late'    = [late EXCEPT ![r].holder = Renamed(@, r)]
    /\ UNCHANGED copy

StopLeading(r) ==
    /\ Refused(r) /\ leading[r] /\ MustStop(r)
    /\ Restart(r)
    /\ UNCHANGED errors

Crash(r) ==
    /\ errors < MaxErrors
    /\ errors' = errors + 1
    /\ Restart(r)

\* time passes, but no sleep is overslept, no renewal outlasts its timeout and
\* no attempt to acquire takes more than AnswerTime
Patience(r) == IF leading[r] THEN RetryPeriod ELSE AnswerTime

MayPass(r) == IF attempt[r].phase = "sleep" THEN left[r] > 0
              ELSE attempt[r].age < Patience(r)

Aged(a) == IF a.phase = "sleep" THEN a
           ELSE [a EXCEPT !.age = Later(@, Slowest), !.stamp = Later(@, Slowest)]

Tick ==
    /\ \A r \in Replicas : MayPass(r)
    /\ lease'   = [lease EXCEPT !.age = Later(@, Old)]
    /\ attempt' = [r \in Replicas |-> Aged(attempt[r])]
    /\ last'    = [r \in Replicas |-> IF leading[r] THEN Later(last[r], Old) ELSE 0]
    /\ left'    = [r \in Replicas |-> IF left[r] > 0 THEN left[r] - 1 ELSE 0]
    /\ late'    = [r \in Replicas |-> IF late[r] = Nothing THEN Nothing
                                      ELSE [late[r] EXCEPT !.stamp = Later(@, Old)]]
    /\ UNCHANGED <<copy, leading, errors>>

Proceed(r) == \/ Begin(r) \/ Read(r) \/ Write(r) \/ Conflict(r)
              \/ Acquired(r) \/ TryAgain(r) \/ StopLeading(r) \/ TimeOut(r)

Next == \/ \E r \in Replicas : Proceed(r) \/ Fail(r) \/ Crash(r) \/ LateWrite(r)
        \/ Tick

Spec == Init /\ [][Next]_vars

\* clocks run, and tasks and requests go on
Fairness == WF_vars(Tick) /\ \A r \in Replicas : WF_vars(Proceed(r))
LiveSpec == Spec /\ Fairness

-----------------------------------------------------------------------------
(* Properties *)

Ages     == 0 .. Old
Holders  == Replicas \cup {None, Gone}
Attempts == [phase : {"sleep", "read", "create", "replace", "done"},
             answer : {"ok", "taken", "failed"}, age : 0 .. Slowest,
             stamp : 0 .. Slowest, fresh : BOOLEAN, tries : 0 .. ConflictRetries]

\* Every variable keeps its shape.
TypeOK ==
    /\ copy \in {"shared", "scheduler"}
    /\ lease \in [holder : Holders, age : Ages]
    /\ attempt \in [Replicas -> Attempts]
    /\ left \in [Replicas -> 0 .. RetryPeriod]
    /\ leading \in [Replicas -> BOOLEAN] /\ last \in [Replicas -> Ages]
    /\ late \in [Replicas -> [stamp : Ages, holder : Holders]]
    /\ errors \in 0 .. MaxErrors

\* The durations that keep leaders apart: an answer may be that old when it
\* arrives, the deadline is looked at a sleep and an attempt later at worst, and
\* only then must the lease have lapsed.  validate asks for less.
Margin  == Slowest + RenewDeadline + 2 * RetryPeriod <= LeaseDuration + 1

\* No two replicas run their work at the same time, whatever fails, is late or
\* crashes (node-leaderelection lib.rs 38-50, 289-325).
OneLeader == \A q, r \in Replicas : leading[q] /\ leading[r] => q = r

\* Whoever leads is who the lease names, and the lease has not lapsed: nobody
\* may take it, and an operator who reads it sees the truth.
LeaderHoldsLease ==
    \A r \in Replicas : leading[r] => /\ lease.holder = r
                                      /\ lease.age <= LeaseDuration

\* The scheduler's copy gives the lead up as taken only to somebody else, never
\* to a late write of its own (election.rs 124-129).
StopsOnlyWhenTaken ==
    \A r \in Replicas :
      copy = "scheduler" /\ leading[r] /\ attempt[r].phase = "done"
        /\ attempt[r].answer = "taken"
        => lease.holder # r

\* Somebody leads again and again, once requests and processes stop failing.
SomebodyLeads == []<>(\E r \in Replicas : leading[r])
=============================================================================
