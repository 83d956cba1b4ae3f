------------------------ MODULE LeaderElectionProofs ------------------------
(***************************************************************************)
(* Durations that leave a margin keep leaders apart, whatever fails, comes *)
(* late or crashes, and however many replicas there are.                   *)
(***************************************************************************)
EXTENDS LeaderElection, TLAPS

(* What a replica knows of the lease.  A leader's lease is no older than    *)
(* its last success and the attempt that brought it; a leader looks at its  *)
(* deadline a sleep and an attempt late at most; a write that the server    *)
(* would take was read when nobody else held the lease.                     *)
Pace(r) ==
    leading[r] =>
      \/ attempt[r].phase = "sleep" /\ last[r] + left[r] <= RenewDeadline - 1 + RetryPeriod
      \/ /\ attempt[r].phase # "sleep"
         /\ attempt[r].age <= RetryPeriod /\ attempt[r].age <= last[r]
         /\ last[r] <= RenewDeadline - 1 + RetryPeriod + attempt[r].age

Holds(r) == leading[r] => lease.holder = r /\ lease.age <= last[r] + Slowest

Won(r) ==
    attempt[r].phase = "done" /\ attempt[r].answer = "ok" =>
      lease.holder = r /\ lease.age <= attempt[r].age /\ late[r] = Nothing

FreshRead(r) ==
    Writing(r) /\ attempt[r].fresh =>
      lease.holder \in {None, r} \/ lease.age - attempt[r].stamp > LeaseDuration

LateRead(r) ==
    late[r] # Nothing =>
      /\ late[r].holder \in {r, Gone}
      /\ lease.holder \in {None, late[r].holder} \/ lease.age > LeaseDuration
      /\ leading[r] => late[r].holder = r /\ late[r].stamp <= last[r]

Unbeaten(r) ==
    leading[r] /\ copy = "scheduler" =>
      /\ attempt[r].phase # "create"
      /\ attempt[r].phase = "done" => attempt[r].answer # "taken"

Part(r) == /\ attempt[r].stamp <= attempt[r].age
           /\ attempt[r].phase = "sleep" => attempt[r].age = 0
           /\ Pace(r) /\ Holds(r) /\ Won(r) /\ FreshRead(r) /\ LateRead(r) /\ Unbeaten(r)

IInv == TypeOK /\ \A r \in Replicas : Part(r)

-----------------------------------------------------------------------------
(* The bounds on ages. *)
LEMMA Durations ==
    /\ Slowest \in Nat /\ Old \in Nat
    /\ RetryPeriod <= Slowest /\ AnswerTime <= Slowest
    /\ Old = LeaseDuration + Slowest + 1
    /\ LeaseDuration \in Nat /\ RenewDeadline \in Nat /\ RetryPeriod \in Nat
    /\ AnswerTime \in Nat /\ ConflictRetries \in Nat /\ MaxErrors \in Nat
    /\ 0 < RetryPeriod /\ RetryPeriod < RenewDeadline /\ RenewDeadline < LeaseDuration
  BY DurationsAssumption DEF Slowest, Old

(* A leader's lease has not lapsed. *)
LEMMA LeaseLasts ==
    ASSUME Margin, TypeOK, NEW r \in Replicas, Part(r), leading[r]
    PROVE  lease.holder = r /\ lease.age <= LeaseDuration
  <1>1. last[r] \in Nat /\ left[r] \in Nat /\ attempt[r].age \in Nat /\ lease.age \in Nat
    BY Durations DEF TypeOK, Attempts, Ages
  <1>2. last[r] <= RenewDeadline - 1 + 2 * RetryPeriod
    BY <1>1, Durations DEF Part, Pace
  <1> QED
    BY <1>1, <1>2, Durations DEF Part, Holds, Margin

(* Nobody else can be about to take it, nor have taken it. *)
LEMMA NobodyElse ==
    ASSUME Margin, TypeOK, NEW r \in Replicas, NEW q \in Replicas, q # r,
           Part(r), Part(q), leading[r]
    PROVE  /\ ~(Writing(q) /\ attempt[q].fresh)
           /\ late[q] = Nothing
           /\ ~(attempt[q].phase = "done" /\ attempt[q].answer = "ok")
  <1>1. lease.holder = r /\ lease.age <= LeaseDuration
    BY LeaseLasts
  <1>2. attempt[q].stamp \in Nat /\ lease.age \in Nat
    BY Durations DEF TypeOK, Attempts, Ages
  <1> QED
    BY <1>1, <1>2, NamesAssumption, Durations DEF Part, FreshRead, LateRead, Won

(* Whoever the server would take a write of, nobody else holds the lease. *)
LEMMA WriterIsAlone ==
    ASSUME Margin, TypeOK, NEW r \in Replicas, NEW q \in Replicas, q # r,
           Part(r), Part(q), (Writing(r) /\ attempt[r].fresh) \/ late[r] # Nothing
    PROVE  ~leading[q] /\ ~(attempt[q].phase = "done" /\ attempt[q].answer = "ok")
  <1>1. ~leading[q]
    BY NobodyElse
  <1>2. attempt[r].stamp \in Nat /\ lease.age \in Nat /\ attempt[q].age \in 0 .. Slowest
    BY Durations DEF TypeOK, Attempts, Ages
  <1>3. ASSUME attempt[q].phase = "done", attempt[q].answer = "ok" PROVE FALSE
    <2>1. lease.holder = q /\ lease.age <= Slowest
      BY <1>2, <1>3, Durations DEF Part, Won
    <2>2. Slowest <= LeaseDuration
      BY Durations DEF Margin
    <2> QED
      BY <1>2, <2>1, <2>2, NamesAssumption, Durations DEF Part, FreshRead, LateRead
  <1> QED
    BY <1>1, <1>3

-----------------------------------------------------------------------------
(* What a step of one replica leaves of the others. *)
LEMMA Bystander ==
    ASSUME TypeOK, NEW q \in Replicas, Part(q), UNCHANGED <<copy, lease>>,
           leading'[q] = leading[q], last'[q] = last[q], left'[q] = left[q],
           attempt'[q] = attempt[q], late'[q] = late[q]
    PROVE  Part(q)'
  BY DEF Part, Pace, Holds, Won, FreshRead, LateRead, Unbeaten, Writing, Nothing

(* ... one that stores the lease: *)
LEMMA Overwritten ==
    ASSUME TypeOK, NEW q \in Replicas, Part(q), UNCHANGED copy,
           ~leading[q], ~(attempt[q].phase = "done" /\ attempt[q].answer = "ok"),
           leading'[q] = leading[q],
           attempt'[q] = [attempt[q] EXCEPT !.fresh = FALSE], late'[q] = Nothing
    PROVE  Part(q)'
  <1>1. attempt[q] \in Attempts
    BY DEF TypeOK
  <1>2. /\ attempt'[q].phase = attempt[q].phase /\ attempt'[q].answer = attempt[q].answer
        /\ attempt'[q].stamp = attempt[q].stamp /\ attempt'[q].age = attempt[q].age
        /\ attempt'[q].fresh = FALSE
    BY <1>1 DEF Attempts
  <1> QED
    BY <1>2 DEF Part, Pace, Holds, Won, FreshRead, LateRead, Unbeaten, Writing, Nothing

(* ... and one that renames the process that had it. *)
LEMMA Survivor ==
    ASSUME TypeOK, NEW r \in Replicas, NEW q \in Replicas, q # r, Part(q), UNCHANGED copy,
           lease' = [lease EXCEPT !.holder = Renamed(@, r)],
           leading'[q] = leading[q], last'[q] = last[q], left'[q] = left[q],
           attempt'[q] = attempt[q], late'[q] = late[q]
    PROVE  Part(q)'
  <1>1. lease'.age = lease.age /\ lease'.holder = IF lease.holder = r THEN Gone ELSE lease.holder
    BY DEF TypeOK, Renamed
  <1> QED
    BY <1>1, NamesAssumption
    DEF Part, Pace, Holds, Won, FreshRead, LateRead, Unbeaten, Writing, Nothing

-----------------------------------------------------------------------------
(* Before any replica has started, nobody holds or writes the lease. *)
THEOREM InitKeeps == Init => IInv
  BY Durations, NamesAssumption
  DEF Init, IInv, TypeOK, Part, Pace, Holds, Won, FreshRead, LateRead, Unbeaten, Writing,
      Asleep, Nothing, Attempts, Ages, Holders

-----------------------------------------------------------------------------
(* A step of a replica's attempt that leaves the lease alone. *)
LEMMA AttemptType ==
    ASSUME TypeOK, NEW r \in Replicas, NEW a \in Attempts,
           attempt' = [attempt EXCEPT ![r] = a],
           UNCHANGED <<copy, lease, left, leading, last, late, errors>>
    PROVE  TypeOK' /\ attempt'[r] = a /\ \A q \in Replicas \ {r} : attempt'[q] = attempt[q]
  BY DEF TypeOK

(* An attempt that is over is an attempt. *)
LEMMA DoneType ==
    ASSUME TypeOK, NEW r \in Replicas, NEW answer \in {"ok", "taken", "failed"}
    PROVE  /\ Done(r, answer) \in Attempts
           /\ Done(r, answer).phase = "done" /\ Done(r, answer).answer = answer
           /\ Done(r, answer).age = attempt[r].age /\ Done(r, answer).stamp = attempt[r].stamp
           /\ Done(r, answer).fresh = FALSE
  BY Durations DEF TypeOK, Attempts, Done

(* A step that stores nothing and starts no write keeps every holder alone. *)
LEMMA Alone ==
    ASSUME IInv, NEW r \in Replicas, TypeOK', Part(r)', UNCHANGED <<copy, lease>>,
           \A q \in Replicas \ {r} :
               /\ leading'[q] = leading[q] /\ last'[q] = last[q] /\ left'[q] = left[q]
               /\ attempt'[q] = attempt[q] /\ late'[q] = late[q]
    PROVE  IInv'
  <1>1. ASSUME NEW q \in Replicas, q # r PROVE Part(q)'
    BY <1>1, Bystander DEF IInv
  <1> QED
    BY <1>1 DEF IInv

(* The start of an attempt (lib.rs try_acquire_or_renew) keeps the invariant. *)
LEMMA BeginKeeps == ASSUME IInv, NEW r \in Replicas, Begin(r) PROVE IInv'
  <1>1. attempt[r] \in Attempts /\ left[r] = 0 /\ last[r] \in Nat
    BY Durations DEF IInv, TypeOK, Begin, Ages
  <1>2. PICK a \in Attempts : a = [attempt[r] EXCEPT !.phase = "read"]
    BY <1>1 DEF Attempts
  <1>3. attempt' = [attempt EXCEPT ![r] = a]
    BY <1>2 DEF Begin, Step
  <1>4. TypeOK' /\ attempt'[r] = a /\ \A q \in Replicas \ {r} : attempt'[q] = attempt[q]
    BY <1>3, AttemptType DEF IInv, Begin
  <1>5. /\ a.phase = "read" /\ a.age = attempt[r].age /\ a.stamp = attempt[r].stamp
    BY <1>1, <1>2 DEF Attempts
  <1>6. attempt[r].phase = "sleep" /\ attempt[r].age = 0
    BY DEF IInv, Part, Begin, Step
  <1>7. Part(r)'
    BY <1>1, <1>4, <1>5, <1>6, Durations
    DEF IInv, Begin, Part, Pace, Holds, Won, FreshRead, LateRead, Unbeaten, Writing, Nothing
  <1> QED
    BY <1>4, <1>7, Alone DEF Begin

(* Reading the lease, and deciding to write it, renew it or leave it, too. *)
LEMMA ReadKeeps == ASSUME Margin, IInv, NEW r \in Replicas, Read(r) PROVE IInv'
  <1> DEFINE exists == lease.holder # None
             now    == IF copy = "scheduler" /\ exists THEN 0 ELSE attempt[r].stamp
  <1>1. attempt[r] \in Attempts /\ now \in 0 .. Slowest /\ now <= attempt[r].age
    BY Durations DEF IInv, TypeOK, Attempts, Part
  <1>2. CASE may_acquire(r, now)
    <2>1. PICK a \in Attempts : a = [attempt[r] EXCEPT
                   !.phase = IF exists THEN "replace" ELSE "create", !.stamp = now, !.fresh = TRUE]
      BY <1>1 DEF Attempts
    <2>2. attempt' = [attempt EXCEPT ![r] = a]
      BY <1>2, <2>1 DEF Read
    <2>3. TypeOK' /\ attempt'[r] = a /\ \A q \in Replicas \ {r} : attempt'[q] = attempt[q]
      BY <2>2, AttemptType DEF IInv, Read
    <2>4. /\ a.phase = IF exists THEN "replace" ELSE "create"
          /\ a.age = attempt[r].age /\ a.stamp = now
      BY <1>1, <2>1 DEF Attempts
    <2>5. leading[r] => exists
      BY NamesAssumption DEF IInv, Part, Holds
    <2>6. Part(r)'
      BY <1>1, <1>2, <2>3, <2>4, <2>5, Durations
      DEF IInv, Read, may_acquire, Part, Pace, Holds, Won, FreshRead, LateRead, Unbeaten,
          Writing, Nothing
    <2> QED
      BY <2>3, <2>6, Alone DEF Read
  <1>3. CASE ~may_acquire(r, now)
    <2>1. PICK a \in Attempts : a = Done(r, "taken")
      BY DoneType DEF IInv
    <2>2. attempt' = [attempt EXCEPT ![r] = a]
      BY <1>3, <2>1 DEF Read
    <2>3. TypeOK' /\ attempt'[r] = a /\ \A q \in Replicas \ {r} : attempt'[q] = attempt[q]
      BY <2>2, AttemptType DEF IInv, Read
    <2>4. /\ a.phase = "done" /\ a.answer = "taken"
          /\ a.age = attempt[r].age /\ a.stamp = attempt[r].stamp
      BY <2>1, DoneType DEF IInv
    <2>5. ~leading[r]
      BY <1>3 DEF may_acquire, IInv, Part, Holds
    <2>6. Part(r)'
      BY <1>1, <2>3, <2>4, <2>5
      DEF IInv, Read, Part, Pace, Holds, Won, FreshRead, LateRead, Unbeaten, Writing, Nothing
    <2> QED
      BY <2>3, <2>6, Alone DEF Read
  <1> QED
    BY <1>2, <1>3

(* So does a write the server refuses because the lease has moved on. *)
LEMMA ConflictKeeps == ASSUME IInv, NEW r \in Replicas, Conflict(r) PROVE IInv'
  <1>1. attempt[r] \in Attempts
    BY DEF IInv, TypeOK
  <1>2. PICK a \in Attempts :
           /\ attempt' = [attempt EXCEPT ![r] = a]
           /\ \/ a.phase = "read"
              \/ a.phase = "done" /\ a.answer \in {"taken", "failed"}
           /\ a.phase = "done" /\ a.answer = "taken"
                 => copy = "shared" \/ attempt[r].phase = "create"
           /\ a.age = attempt[r].age /\ a.stamp = attempt[r].stamp
    <2> DEFINE b == Conflicted(r)
    <2>1. attempt' = [attempt EXCEPT ![r] = b]
      BY DEF Conflict
    <2>2. ASSUME attempt[r].tries < ConflictRetries
          PROVE  [attempt[r] EXCEPT !.phase = "read", !.tries = attempt[r].tries + 1] \in Attempts
      <3>1. PICK t \in 0 .. ConflictRetries : t = attempt[r].tries + 1
        BY <1>1, <2>2, Durations DEF Attempts
      <3>2. [attempt[r] EXCEPT !.tries = t] \in Attempts
        BY <1>1 DEF Attempts
      <3> QED
        BY <1>1, <3>1, <3>2 DEF Attempts
    <2>3. /\ \/ b.phase = "read"
             \/ b.phase = "done" /\ b.answer \in {"taken", "failed"}
          /\ b.phase = "done" /\ b.answer = "taken"
                 => copy = "shared" \/ attempt[r].phase = "create"
          /\ b.age = attempt[r].age /\ b.stamp = attempt[r].stamp
          /\ b \in Attempts
      BY <1>1, <2>2, DoneType, Durations DEF Attempts, IInv, Conflicted
    <2> QED
      BY <2>1, <2>2, <2>3
  <1>3. TypeOK' /\ attempt'[r] = a /\ \A q \in Replicas \ {r} : attempt'[q] = attempt[q]
    BY <1>2, AttemptType DEF IInv, Conflict
  <1>4. Part(r)'
    BY <1>1, <1>2, <1>3
    DEF IInv, Conflict, Part, Pace, Holds, Won, FreshRead, LateRead, Unbeaten, Writing, Nothing
  <1> QED
    BY <1>3, <1>4, Alone DEF Conflict

(* Whatever a replica gives up on may still arrive, and may still be stored. *)
LEMMA GiveUpKeeps ==
    ASSUME IInv, NEW r \in Replicas, attempt[r].phase # "sleep", GiveUp(r),
           errors' \in 0 .. MaxErrors, UNCHANGED <<copy, lease, left, leading, last>>
    PROVE  IInv'
  <1> DEFINE a == Done(r, "failed")
  <1>1. /\ a \in Attempts /\ a.phase = "done" /\ a.answer = "failed"
        /\ a.age = attempt[r].age /\ a.stamp = attempt[r].stamp
    BY DoneType DEF IInv
  <1>2. /\ attempt' \in [Replicas -> Attempts] /\ attempt'[r] = a
        /\ \A q \in Replicas \ {r} : attempt'[q] = attempt[q]
    BY <1>1 DEF IInv, TypeOK, GiveUp
  <1>3. /\ attempt[r].stamp \in 0 .. Slowest /\ attempt[r].age \in 0 .. Slowest
        /\ lease.age \in Nat /\ last[r] \in Nat
    BY Durations DEF IInv, TypeOK, Attempts, Ages
  <1>4. /\ late' \in [Replicas -> [stamp : Ages, holder : Holders]]
        /\ \A q \in Replicas \ {r} : late'[q] = late[q]
        /\ \/ late'[r] = late[r]
           \/ /\ Writing(r) /\ attempt[r].fresh
              /\ late'[r].stamp = attempt[r].stamp /\ late'[r].holder = r
    <2>1. [stamp |-> attempt[r].stamp, holder |-> r] \in [stamp : Ages, holder : Holders]
      BY <1>3, Durations DEF Ages, Holders
    <2>2. CASE UNCHANGED late
      BY <2>2 DEF IInv, TypeOK
    <2>3. CASE /\ Writing(r) /\ attempt[r].fresh
               /\ late' = [late EXCEPT ![r] = [stamp |-> attempt[r].stamp, holder |-> r]]
      <3>1. late'[r] = [stamp |-> attempt[r].stamp, holder |-> r]
        BY <2>3 DEF IInv, TypeOK
      <3> QED
        BY <2>1, <2>3, <3>1 DEF IInv, TypeOK
    <2> QED
      BY <2>2, <2>3 DEF GiveUp
  <1>5. TypeOK'
    BY <1>2, <1>4 DEF IInv, TypeOK
  <1>6. Part(r)'
    <2>1. Pace(r)' /\ Holds(r)' /\ Won(r)' /\ FreshRead(r)' /\ Unbeaten(r)'
      BY <1>1, <1>2 DEF IInv, Part, Pace, Holds, Won, FreshRead, Unbeaten, Writing
    <2>2. LateRead(r)'
      BY <1>1, <1>2, <1>3, <1>4, Durations
      DEF IInv, Part, Pace, LateRead, FreshRead, Writing, Nothing
    <2> QED
      BY <1>1, <1>2, <2>1, <2>2 DEF IInv, Part
  <1> QED
    BY <1>2, <1>4, <1>5, <1>6, Alone

-----------------------------------------------------------------------------
(* The server stores a lease. *)
LEMMA StoreKeeps ==
    ASSUME Margin, IInv, NEW r \in Replicas, NEW holder \in {r, Gone}, NEW stamp \in Ages,
           NEW a \in Attempts,
           (Writing(r) /\ attempt[r].fresh) \/ late[r] # Nothing,
           Stored(holder, stamp), late' = NoneLate,
           attempt' = [Outdated EXCEPT ![r] = a],
           Part(r)', UNCHANGED <<copy, left, leading, last, errors>>
    PROVE  IInv'
  <1>1. \A q \in Replicas : [attempt[q] EXCEPT !.fresh = FALSE] \in Attempts
    BY DEF IInv, TypeOK, Attempts
  <1>2. /\ attempt' \in [Replicas -> Attempts]
        /\ \A q \in Replicas \ {r} : attempt'[q] = [attempt[q] EXCEPT !.fresh = FALSE]
    BY <1>1 DEF Outdated
  <1>3. Nothing \in [stamp : Ages, holder : Holders]
    BY Durations DEF Nothing, Ages, Holders
  <1>4. TypeOK'
    BY <1>2, <1>3 DEF IInv, TypeOK, Stored, NoneLate, Holders
  <1>5. ASSUME NEW q \in Replicas, q # r PROVE Part(q)'
    <2>1. ~leading[q] /\ ~(attempt[q].phase = "done" /\ attempt[q].answer = "ok")
      BY <1>5, WriterIsAlone DEF IInv
    <2>2. late'[q] = Nothing
      BY DEF NoneLate
    <2> QED
      BY <1>2, <1>5, <2>1, <2>2, Overwritten DEF IInv
  <1> QED
    BY <1>4, <1>5 DEF IInv

(* The write of a live attempt keeps the invariant: it is of the lease read. *)
LEMMA WriteKeeps == ASSUME Margin, IInv, NEW r \in Replicas, Write(r) PROVE IInv'
  <1> DEFINE a == Done(r, "ok")
  <1>1. /\ a \in Attempts /\ a.phase = "done" /\ a.answer = "ok"
        /\ a.age = attempt[r].age /\ a.stamp = attempt[r].stamp
    BY DoneType DEF IInv
  <1>2. attempt'[r] = a /\ late'[r] = Nothing
    BY DEF Write, Outdated, NoneLate
  <1>3. /\ attempt[r].stamp \in Nat /\ attempt[r].age \in Nat /\ attempt[r].stamp <= attempt[r].age
        /\ attempt[r].stamp \in Ages /\ last[r] \in Nat
    BY Durations DEF IInv, TypeOK, Attempts, Ages, Part
  <1>4. lease'.holder = r /\ lease'.age = attempt[r].stamp
    BY DEF Write, Stored
  <1>5. Part(r)'
    BY <1>1, <1>2, <1>3, <1>4, Durations
    DEF Write, IInv, Part, Pace, Holds, Won, FreshRead, LateRead, Unbeaten, Writing
  <1> QED
    BY <1>1, <1>3, <1>5, StoreKeeps DEF Write

(* So does the write of a replica that has stopped waiting for it. *)
LEMMA LateWriteKeeps == ASSUME Margin, IInv, NEW r \in Replicas, LateWrite(r) PROVE IInv'
  <1> DEFINE a == [attempt[r] EXCEPT !.fresh = FALSE]
  <1>1. /\ a \in Attempts /\ a.phase = attempt[r].phase /\ a.answer = attempt[r].answer
        /\ a.age = attempt[r].age /\ a.stamp = attempt[r].stamp /\ a.fresh = FALSE
    BY ZenonT(60) DEF IInv, TypeOK, Attempts
  <1>2. attempt' = [Outdated EXCEPT ![r] = a] /\ attempt'[r] = a /\ late'[r] = Nothing
    BY DEF LateWrite, Outdated, NoneLate
  <1>3. late[r].stamp \in Ages /\ late[r].stamp \in Nat /\ last[r] \in Nat
    BY Durations DEF IInv, TypeOK, Ages
  <1>4. lease'.holder = late[r].holder /\ lease'.age = late[r].stamp
    BY DEF LateWrite, Stored
  <1>5. late[r] # Nothing /\ late[r].holder \in {r, Gone}
    BY DEF LateWrite, IInv, Part, LateRead
  <1>6. Part(r)'
    <2>1. Pace(r)' /\ Unbeaten(r)'
      BY <1>1, <1>2 DEF LateWrite, IInv, Part, Pace, Unbeaten
    <2>2. Holds(r)'
      BY <1>3, <1>4, <1>5, Durations DEF LateWrite, IInv, Part, Holds, LateRead
    <2>3. Won(r)' /\ FreshRead(r)' /\ LateRead(r)'
      BY ZenonT(60), <1>1, <1>2, <1>5 DEF LateWrite, IInv, Part, Won, FreshRead, LateRead, Nothing, Writing
    <2> QED
      BY <1>1, <1>2, <2>1, <2>2, <2>3 DEF IInv, Part
  <1> QED
    BY <1>1, <1>2, <1>3, <1>5, <1>6, StoreKeeps DEF LateWrite

-----------------------------------------------------------------------------
(* A call returns, and its replica sleeps. *)
LEMMA AsleepType ==
    /\ Asleep \in Attempts /\ Asleep.phase = "sleep" /\ Asleep.age = 0 /\ Asleep.stamp = 0
    /\ Asleep.fresh = FALSE
  BY Durations DEF Asleep, Attempts

(* Going to sleep keeps the invariant, leading from then on or not. *)
LEMMA SleepKeeps ==
    ASSUME IInv, NEW r \in Replicas, Sleep(r), UNCHANGED <<copy, lease, late, errors>>,
           NEW b \in BOOLEAN, NEW n \in Ages,
           leading' = [leading EXCEPT ![r] = b], last' = [last EXCEPT ![r] = n],
           b => /\ n < RenewDeadline /\ lease.holder = r /\ lease.age <= n + Slowest
                /\ late[r] = Nothing \/ (leading[r] /\ n = last[r])
    PROVE  IInv'
  <1>1. /\ attempt' \in [Replicas -> Attempts] /\ attempt'[r] = Asleep
        /\ left' \in [Replicas -> 0 .. RetryPeriod] /\ left'[r] = RetryPeriod
        /\ leading' \in [Replicas -> BOOLEAN] /\ leading'[r] = b
        /\ last' \in [Replicas -> Ages] /\ last'[r] = n
        /\ \A q \in Replicas \ {r} :
               /\ leading'[q] = leading[q] /\ last'[q] = last[q] /\ left'[q] = left[q]
               /\ attempt'[q] = attempt[q]
    BY AsleepType, Durations DEF IInv, TypeOK, Sleep
  <1>2. TypeOK'
    BY <1>1 DEF IInv, TypeOK
  <1>3. n \in Nat
    BY Durations DEF Ages
  <1>4. Part(r)'
    BY <1>1, <1>3, AsleepType, Durations
    DEF IInv, Part, Pace, Holds, Won, FreshRead, LateRead, Unbeaten, Writing, Nothing
  <1> QED
    BY <1>1, <1>2, <1>4, Alone

(* An attempt that ends holding the lease starts or keeps a term. *)
LEMMA AcquiredKeeps == ASSUME IInv, NEW r \in Replicas, Acquired(r) PROVE IInv'
  <1>1. lease.holder = r /\ lease.age <= attempt[r].age /\ late[r] = Nothing
    BY DEF Acquired, IInv, Part, Won
  <1>2. attempt[r].age \in 0 .. Slowest /\ lease.age \in Nat /\ 0 \in Ages
    BY Durations DEF IInv, TypeOK, Attempts, Ages
  <1>3. /\ 0 < RenewDeadline /\ lease.age <= 0 + Slowest /\ TRUE \in BOOLEAN
        /\ leading' = [leading EXCEPT ![r] = TRUE] /\ last' = [last EXCEPT ![r] = 0]
        /\ Sleep(r) /\ UNCHANGED <<copy, lease, late, errors>>
    BY <1>1, <1>2, Durations DEF Acquired
  <1> QED
    BY <1>1, <1>2, <1>3, SleepKeeps

(* An attempt that ends without it leads to another. *)
LEMMA TryAgainKeeps == ASSUME IInv, NEW r \in Replicas, TryAgain(r) PROVE IInv'
  <1>1. /\ leading[r] \in BOOLEAN /\ last[r] \in Ages /\ last[r] \in Nat
        /\ leading' = [leading EXCEPT ![r] = leading[r]] /\ last' = [last EXCEPT ![r] = last[r]]
    BY Durations DEF IInv, TypeOK, TryAgain, Ages
  <1>2. leading[r] => /\ last[r] < RenewDeadline
                      /\ lease.holder = r /\ lease.age <= last[r] + Slowest
    BY <1>1, Durations DEF TryAgain, MustStop, IInv, Part, Holds
  <1> QED
    BY <1>1, <1>2, SleepKeeps DEF TryAgain

(* A process ends: what it held or sent is a stranger's. *)
LEMMA RestartKeeps ==
    ASSUME IInv, NEW r \in Replicas, Restart(r), errors' \in 0 .. MaxErrors
    PROVE  IInv'
  <1>1. PICK wait \in 0 .. RetryPeriod : left' = [left EXCEPT ![r] = wait]
    BY DEF Restart
  <1>2. /\ attempt' \in [Replicas -> Attempts] /\ attempt'[r] = Asleep
        /\ left' \in [Replicas -> 0 .. RetryPeriod]
        /\ leading' \in [Replicas -> BOOLEAN] /\ leading'[r] = FALSE
        /\ last' \in [Replicas -> Ages]
        /\ \A q \in Replicas \ {r} :
               /\ leading'[q] = leading[q] /\ last'[q] = last[q] /\ left'[q] = left[q]
               /\ attempt'[q] = attempt[q]
    BY <1>1, AsleepType, Durations DEF IInv, TypeOK, Restart, Ages
  <1>3. lease' \in [holder : Holders, age : Ages] /\ lease'.age = lease.age
        /\ lease'.holder = Renamed(lease.holder, r)
    BY DEF IInv, TypeOK, Restart, Renamed, Holders
  <1>4. /\ late' \in [Replicas -> [stamp : Ages, holder : Holders]]
        /\ late'[r] = [late[r] EXCEPT !.holder = Renamed(late[r].holder, r)]
        /\ \A q \in Replicas \ {r} : late'[q] = late[q]
    BY DEF IInv, TypeOK, Restart, Renamed, Holders
  <1>5. TypeOK'
    BY <1>2, <1>3, <1>4 DEF IInv, TypeOK, Restart
  <1>6. Part(r)'
    <2>1. late[r] \in [stamp : Ages, holder : Holders]
      BY DEF IInv, TypeOK
    <2>2. /\ late'[r].holder = Renamed(late[r].holder, r)
          /\ late[r] = Nothing => late'[r] = Nothing
      BY <1>4, <2>1, NamesAssumption DEF Nothing, Renamed
    <2>3. LateRead(r)'
      BY <1>2, <1>3, <2>2, NamesAssumption DEF IInv, Part, LateRead, Renamed, Nothing
    <2> QED
      BY <1>2, <2>3, AsleepType DEF Part, Pace, Holds, Won, FreshRead, Unbeaten, Writing
  <1>7. ASSUME NEW q \in Replicas, q # r PROVE Part(q)'
    BY <1>2, <1>4, <1>7, Survivor DEF IInv, Restart
  <1> QED
    BY <1>5, <1>6, <1>7 DEF IInv

-----------------------------------------------------------------------------
(* Time passes for everyone at once. *)
LEMMA LaterIs ==
    ASSUME NEW bound \in Nat, NEW a \in 0 .. bound
    PROVE  /\ Later(a, bound) \in 0 .. bound /\ a <= Later(a, bound)
           /\ a < bound => Later(a, bound) = a + 1
           /\ a = bound => Later(a, bound) = bound
  BY DEF Later

(* A tick leaves every variable in its type. *)
LEMMA TickType ==
    ASSUME IInv, Tick
    PROVE  /\ TypeOK'
           /\ lease'.holder = lease.holder /\ lease'.age = Later(lease.age, Old)
           /\ \A r \in Replicas :
                /\ last'[r] = IF leading[r] THEN Later(last[r], Old) ELSE 0
                /\ left'[r] = IF left[r] > 0 THEN left[r] - 1 ELSE 0
                /\ attempt'[r].phase = attempt[r].phase /\ attempt'[r].answer = attempt[r].answer
                /\ attempt'[r].fresh = attempt[r].fresh
                /\ attempt'[r].age = IF attempt[r].phase = "sleep" THEN attempt[r].age
                                     ELSE Later(attempt[r].age, Slowest)
                /\ attempt'[r].stamp = IF attempt[r].phase = "sleep" THEN attempt[r].stamp
                                       ELSE Later(attempt[r].stamp, Slowest)
                /\ late[r] = Nothing => late'[r] = Nothing
                /\ late[r] # Nothing => /\ late'[r].holder = late[r].holder
                                        /\ late'[r].stamp = Later(late[r].stamp, Old)
  <1>1. lease' \in [holder : Holders, age : Ages]
           /\ lease'.holder = lease.holder /\ lease'.age = Later(lease.age, Old)
    BY LaterIs, Durations DEF IInv, TypeOK, Tick, Ages
  <1>2. ASSUME NEW r \in Replicas
        PROVE  /\ attempt'[r] \in Attempts
               /\ attempt'[r].phase = attempt[r].phase /\ attempt'[r].answer = attempt[r].answer
               /\ attempt'[r].fresh = attempt[r].fresh
               /\ attempt'[r].age = IF attempt[r].phase = "sleep" THEN attempt[r].age
                                    ELSE Later(attempt[r].age, Slowest)
               /\ attempt'[r].stamp = IF attempt[r].phase = "sleep" THEN attempt[r].stamp
                                      ELSE Later(attempt[r].stamp, Slowest)
    <2>1. attempt[r] \in Attempts /\ attempt'[r] = Aged(attempt[r])
      BY DEF IInv, TypeOK, Tick
    <2>2. /\ Later(attempt[r].age, Slowest) \in 0 .. Slowest
          /\ Later(attempt[r].stamp, Slowest) \in 0 .. Slowest
      BY <2>1, LaterIs, Durations DEF Attempts
    <2> QED
      BY <2>1, <2>2 DEF Aged, Attempts
  <1>3. ASSUME NEW r \in Replicas
        PROVE  /\ late'[r] \in [stamp : Ages, holder : Holders]
               /\ late[r] = Nothing => late'[r] = Nothing
               /\ late[r] # Nothing => /\ late'[r].holder = late[r].holder
                                       /\ late'[r].stamp = Later(late[r].stamp, Old)
    <2>1. late[r] \in [stamp : Ages, holder : Holders]
      BY DEF IInv, TypeOK
    <2>2. Later(late[r].stamp, Old) \in Ages
      BY <2>1, LaterIs, Durations DEF Ages
    <2> QED
      BY <2>1, <2>2 DEF Tick
  <1>4. ASSUME NEW r \in Replicas
        PROVE  /\ last'[r] \in Ages /\ last'[r] = IF leading[r] THEN Later(last[r], Old) ELSE 0
               /\ left'[r] \in 0 .. RetryPeriod
               /\ left'[r] = IF left[r] > 0 THEN left[r] - 1 ELSE 0
    BY LaterIs, Durations DEF IInv, TypeOK, Tick, Ages
  <1>5. TypeOK'
    BY <1>1, <1>2, <1>3, <1>4 DEF IInv, TypeOK, Tick
  <1> QED
    BY <1>1, <1>2, <1>3, <1>4, <1>5

(* A tick keeps the invariant: the renewer has stopped when its lease lapses. *)
LEMMA TickKeeps == ASSUME IInv, Tick PROVE IInv'
  <1>1. ASSUME NEW r \in Replicas PROVE Part(r)'
    <2> DEFINE a == attempt[r]
    <2>1. /\ a.age \in 0 .. Slowest /\ a.stamp \in 0 .. Slowest /\ a.stamp <= a.age
          /\ last[r] \in 0 .. Old /\ left[r] \in 0 .. RetryPeriod /\ lease.age \in 0 .. Old
          /\ late[r].stamp \in 0 .. Old
      BY DEF IInv, TypeOK, Attempts, Ages, Part
    <2>2. a.phase # "sleep" => a.age < Slowest
      BY <2>1, Durations DEF Tick, MayPass, Patience, Slowest
    <2>3. /\ a.phase # "sleep" =>
                /\ attempt'[r].age = a.age + 1
                /\ attempt'[r].stamp = a.stamp + 1
          /\ a.phase = "sleep" => attempt'[r].age = a.age /\ attempt'[r].stamp = a.stamp
      <3>1. /\ a.phase # "sleep" => /\ attempt'[r].age = Later(a.age, Slowest)
                                    /\ attempt'[r].stamp = Later(a.stamp, Slowest)
            /\ a.phase = "sleep" => attempt'[r].age = a.age /\ attempt'[r].stamp = a.stamp
        BY TickType
      <3> QED
        BY <2>1, <2>2, <3>1, Durations DEF Later
    <2>4. /\ attempt'[r].phase = a.phase /\ attempt'[r].answer = a.answer
          /\ attempt'[r].fresh = a.fresh
          /\ leading' = leading /\ copy' = copy /\ lease'.holder = lease.holder
          /\ leading[r] => last'[r] = Later(last[r], Old)
          /\ left[r] > 0 => left'[r] = left[r] - 1
          /\ lease'.age = Later(lease.age, Old)
          /\ late[r] = Nothing => late'[r] = Nothing
      BY TickType DEF Tick
    <2>5. /\ Later(last[r], Old) <= last[r] + 1 /\ last[r] <= Later(last[r], Old)
          /\ Later(last[r], Old) = last[r] + 1 \/ Later(last[r], Old) = Old
          /\ Later(lease.age, Old) <= lease.age + 1 /\ lease.age <= Later(lease.age, Old)
          /\ Later(lease.age, Old) = lease.age + 1 \/ Later(lease.age, Old) = Old
          /\ Later(lease.age, Old) \in 0 .. Old /\ Later(last[r], Old) \in 0 .. Old
      BY <2>1, Durations DEF Later
    <2>6. Pace(r)'
      <3>1. CASE leading[r] /\ a.phase = "sleep"
        <4>1. left[r] > 0
          BY <3>1 DEF Tick, MayPass
        <4> QED
          BY <2>1, <2>4, <2>5, <3>1, <4>1, Durations DEF IInv, Part, Pace
      <3>2. CASE leading[r] /\ a.phase # "sleep"
        <4>1. a.age < RetryPeriod
          BY <3>2 DEF Tick, MayPass, Patience
        <4> QED
          BY <2>1, <2>3, <2>4, <2>5, <3>2, <4>1, Durations DEF IInv, Part, Pace
      <3> QED
        BY <2>4, <3>1, <3>2 DEF Pace
    <2>7. Holds(r)'
      BY <2>1, <2>4, <2>5, Durations DEF IInv, Part, Holds
    <2>8. Won(r)'
      <3>1. Nothing' = Nothing
        BY DEF Nothing
      <3>2. Won(r)
        BY DEF IInv, Part
      <3>3. ASSUME a.phase = "done", a.answer = "ok"
            PROVE  lease'.holder = r /\ lease'.age <= attempt'[r].age /\ late'[r] = Nothing
        BY <2>1, <2>3, <2>4, <2>5, <3>2, <3>3 DEF Won
      <3> QED
        BY <2>4, <3>1, <3>3 DEF Won
    <2>9. FreshRead(r)'
      <3>1. FreshRead(r)
        BY DEF IInv, Part
      <3>2. ASSUME a.phase \in {"create", "replace"}, a.fresh
            PROVE  lease'.holder \in {None, r} \/ lease'.age - attempt'[r].stamp > LeaseDuration
        <4>1. attempt'[r].stamp = a.stamp + 1 /\ a.stamp < Slowest
          BY <2>1, <2>2, <2>3, <3>2, Durations
        <4> QED
          BY <2>1, <2>4, <2>5, <3>1, <3>2, <4>1, Durations DEF FreshRead, Writing
      <3> QED
        BY <2>4, <3>2 DEF FreshRead, Writing
    <2>10. LateRead(r)'
      <3>1. SUFFICES ASSUME late'[r] # Nothing PROVE LateRead(r)'
        BY DEF LateRead, Nothing
      <3>2. /\ late[r] # Nothing /\ late'[r].holder = late[r].holder
            /\ late'[r].stamp = Later(late[r].stamp, Old)
        BY <3>1, TickType DEF Nothing
      <3>3. leading[r] => Later(late[r].stamp, Old) <= Later(last[r], Old)
        BY <2>1, <3>2, Durations DEF Later, IInv, Part, LateRead
      <3> QED
        BY <2>1, <2>4, <2>5, <3>2, <3>3, Durations DEF IInv, Part, LateRead
    <2>11. Unbeaten(r)'
      BY <2>4 DEF IInv, Part, Unbeaten
    <2> QED
      BY <2>1, <2>3, <2>4, <2>6, <2>7, <2>8, <2>9, <2>10, <2>11, Durations DEF IInv, Part
  <1> QED
    BY <1>1, TickType DEF IInv

-----------------------------------------------------------------------------
(* Every step keeps the invariant. *)
LEMMA NextKeeps == ASSUME Margin, IInv, [Next]_vars PROVE IInv'
  <1>1. ASSUME NEW r \in Replicas, Proceed(r) PROVE IInv'
    <2>1. CASE TimeOut(r)
      BY <2>1, GiveUpKeeps DEF TimeOut, Unanswered, IInv, TypeOK
    <2>2. CASE StopLeading(r)
      BY <2>2, RestartKeeps DEF StopLeading, IInv, TypeOK
    <2> QED
      BY <1>1, <2>1, <2>2, BeginKeeps, ReadKeeps, WriteKeeps, ConflictKeeps, AcquiredKeeps,
         TryAgainKeeps DEF Proceed
  <1>2. ASSUME NEW r \in Replicas, Fail(r) PROVE IInv'
    <2>1. errors' \in 0 .. MaxErrors
      BY <1>2, Durations DEF Fail, IInv, TypeOK
    <2> QED
      BY <1>2, <2>1, GiveUpKeeps DEF Fail, Unanswered
  <1>3. ASSUME NEW r \in Replicas, Crash(r) PROVE IInv'
    <2>1. errors' \in 0 .. MaxErrors
      BY <1>3, Durations DEF Crash, IInv, TypeOK
    <2> QED
      BY <1>3, <2>1, RestartKeeps DEF Crash
  <1>4. ASSUME UNCHANGED vars PROVE IInv'
    BY <1>4 DEF vars, IInv, TypeOK, Part, Pace, Holds, Won, FreshRead, LateRead, Unbeaten,
                Writing, Nothing
  <1> QED
    BY <1>1, <1>2, <1>3, <1>4, LateWriteKeeps, TickKeeps DEF Next

(* The inductive invariant. *)
LEMMA Invariance == Margin => (Spec => []IInv)
  <1> SUFFICES ASSUME Margin PROVE Spec => []IInv
    OBVIOUS
  <1>1. Init => IInv
    BY InitKeeps
  <1>2. IInv /\ [Next]_vars => IInv'
    BY NextKeeps
  <1> QED
    BY <1>1, <1>2, PTL DEF Spec

(* The shape of every variable. *)
THEOREM TypeCorrect == Margin => (Spec => []TypeOK)
  <1>1. IInv => TypeOK
    BY DEF IInv
  <1> QED
    BY <1>1, Invariance, PTL

(* Who leads holds a lease that has not lapsed.                             *)
THEOREM LeadersHoldTheLease == Margin => (Spec => []LeaderHoldsLease)
  <1> SUFFICES ASSUME Margin PROVE Spec => []LeaderHoldsLease
    OBVIOUS
  <1>1. IInv => LeaderHoldsLease
    BY LeaseLasts DEF IInv, LeaderHoldsLease
  <1> QED
    BY <1>1, Invariance, PTL

(* Nobody else does at the same time.                                       *)
THEOREM NeverTwoLeaders == Margin => (Spec => []OneLeader)
  <1> SUFFICES ASSUME Margin PROVE Spec => []OneLeader
    OBVIOUS
  <1>1. IInv => OneLeader
    BY LeaseLasts DEF IInv, OneLeader
  <1> QED
    BY <1>1, Invariance, PTL

(* A leader of the scheduler's copy never mistakes its own write for        *)
(* somebody else's.                                                         *)
THEOREM StopsForOthersOnly == Margin => (Spec => []StopsOnlyWhenTaken)
  <1> SUFFICES ASSUME Margin PROVE Spec => []StopsOnlyWhenTaken
    OBVIOUS
  <1>1. IInv => StopsOnlyWhenTaken
    BY DEF IInv, StopsOnlyWhenTaken, Part, Unbeaten
  <1> QED
    BY <1>1, Invariance, PTL
=============================================================================
