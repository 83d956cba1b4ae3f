----------------------------- MODULE WatchProofs -----------------------------
(***************************************************************************)
(* A Watch stream delivers every wanted event exactly once and in order,   *)
(* for any number of watchers, any hub capacity and any writer: the        *)
(* inductive invariant of module Watch, and the theorems it gives.         *)
(***************************************************************************)
EXTENDS Watch, FiniteSetTheorems, WellFoundedInduction, SequenceTheorems, TLAPS

-----------------------------------------------------------------------------
(***************************************************************************)
(* The inductive invariant.                                                *)
(***************************************************************************)

(* Events w has in its range and has not moved past. *)
Ahead(w) == {e \in hist : e.key \in w.range /\ e.rev > w.last}

CaughtUp(w, r) == \A e \in Ahead(w) : e.rev > r

(* What each task may assume of itself: which watchers its step concerns,   *)
(* and how far their positions are.                                         *)
Creating ==
    task.at = "create" =>
        /\ task.id \notin DOMAIN watchers
        /\ sent[task.id] = <<>>
        /\ task.watcher.last = task.watcher.start
        /\ ~task.replay => task.watcher.last >= cursor

(* The history still to be sent is all of it: nothing between the position  *)
(* and a pending event, the revision it was read at or the subscription's   *)
(* position is missing from it.                                             *)
SendingAll ==
    task.at = "send" =>
        /\ task.upto <= revision
        /\ task.pending \subseteq Ahead(task.watcher)
        /\ \A e \in Ahead(task.watcher) :
             (\E f \in task.pending : e.rev <= f.rev) \/ e.rev <= task.upto \/ e.rev <= cursor
                => e \in task.pending
        /\ task.id \notin task.todo
        /\ IF task.upto = 0
           THEN task.id \notin DOMAIN watchers /\ task.todo = {}
           ELSE task.id \in DOMAIN watchers /\ task.upto >= cursor

Todo == IF task.at \in {"send", "dispatch", "resync"} THEN task.todo ELSE {}

(* A position is the start, which may be a revision still to come, or a     *)
(* revision written since.                                                  *)
Reached(w) == w.last = w.start \/ w.last \in w.start + 1 .. revision

(* Every watcher the task is not about to serve has moved past what the     *)
(* subscription has received; in a dispatch the others miss one batch.      *)
Positioned ==
    /\ \A id \in DOMAIN watchers :
        /\ Reached(watchers[id])
        /\ id \notin Todo /\ ~(task.at = "send" /\ task.id = id) => CaughtUp(watchers[id], cursor)
        /\ task.at = "dispatch" => CaughtUp(watchers[id], cursor - 1)
    /\ task.at = "send" => Reached(task.watcher)
    /\ task.at = "dispatch" => task.rev = cursor

(* No response is ahead of the position it took its watcher to. *)
Acknowledged ==
    \A id \in Following : \A i \in DOMAIN sent[id] : sent[id][i].rev <= Position(id).last

IInv ==
    /\ TypeOK
    /\ Creating
    /\ SendingAll
    /\ Positioned
    /\ Gapless
    /\ Acknowledged
    /\ InOrder

-----------------------------------------------------------------------------
(* A non-empty set of revisions has an oldest one. *)
LEMMA OldestIsLeast ==
    ASSUME NEW S \in SUBSET Nat, S # {}
    PROVE  /\ Oldest(S) \in S
           /\ \A s \in S : Oldest(S) <= s
<1> DEFINE R == {ss \in Nat \X Nat : ss[1] < ss[2]}
<1>1. IsWellFoundedOn(R, Nat)
  BY NatLessThanWellFounded, Zenon DEF OpToRel
<1>2. PICK x \in S : \A y \in S : ~(<<y, x>> \in R)
  <2> HIDE DEF R
  <2> QED BY <1>1, WFMin, Zenon
<1>3. ASSUME NEW y \in S PROVE x <= y
  <2>1. <<y, x>> \notin R
    BY <1>2
  <2>2. ~(<<y, x>>[1] < <<y, x>>[2])
    BY <2>1
  <2> QED BY <2>2
<1> QED
  BY <1>3 DEF Oldest

-----------------------------------------------------------------------------
(***************************************************************************)
(* Type correctness.                                                       *)
(***************************************************************************)

LEMMA TypeInit == Init => TypeOK
<1> SUFFICES ASSUME Init PROVE TypeOK
  OBVIOUS
<1> USE MaxRevisionIsNat DEF Init, LogInit
<1>1. watchers \in [DOMAIN watchers -> Watcher] /\ sent \in [DOMAIN sent -> Seq(Response)]
  OBVIOUS
<1> QED
  BY <1>1 DEF TypeOK

(* What each handler knows of the task it continues. *)
LEMMA TaskShapes ==
    ASSUME TypeOK
    PROVE  /\ task.at = "create"   => task \in CreateTask
           /\ task.at = "send"     => task \in SendTask
           /\ task.at = "dispatch" => task \in DispatchTask
           /\ task.at = "resync"   => task \in ResyncTask
BY DEF TypeOK, Select, CreateTask, SendTask, DispatchTask, ResyncTask

LEMMA RespondType ==
    ASSUME TypeOK, NEW id \in DOMAIN sent, NEW r \in Nat, NEW events \in SUBSET Event,
           Respond(id, r, events)
    PROVE  /\ DOMAIN sent' = DOMAIN sent
           /\ sent' \in [DOMAIN sent' -> Seq(Response)]
<1>1. [rev |-> r, events |-> events] \in Response
  BY DEF Response
<1>2. sent[id] \in Seq(Response)
  BY DEF TypeOK
<1>3. Append(sent[id], [rev |-> r, events |-> events]) \in Seq(Response)
  BY <1>1, <1>2
<1> QED
  BY <1>3 DEF TypeOK, Respond

(* The hub stays the block of latest revisions. *)
LEMMA PublishKeepsHub ==
    ASSUME TypeOK, publish(revision + 1)
    PROVE  /\ overwritten' \in overwritten .. revision
           /\ hub' = overwritten' + 1 .. revision + 1
<1>1. CASE Cardinality(hub) < Capacity
  <2>1. hub' = hub \cup {revision + 1} /\ overwritten' = overwritten
    BY <1>1 DEF publish
  <2>2. (overwritten + 1 .. revision) \cup {revision + 1} = overwritten + 1 .. revision + 1
    BY DEF TypeOK
  <2> QED
    BY <2>1, <2>2 DEF TypeOK
<1>2. CASE ~(Cardinality(hub) < Capacity)
  <2>1. hub # {}
    BY <1>2, FS_EmptySet, CapacityIsPositive
  <2>2. overwritten + 1 \in hub /\ \A r \in hub : overwritten + 1 <= r
    BY <2>1 DEF TypeOK
  <2>3. Oldest(hub) = overwritten + 1
    BY <2>2 DEF Oldest, TypeOK
  <2>4. /\ hub' = (hub \ {overwritten + 1}) \cup {revision + 1}
        /\ overwritten' = overwritten + 1
    BY <1>2, <2>3 DEF publish
  <2>5. overwritten + 1 \in overwritten .. revision
    BY <2>2 DEF TypeOK
  <2>6. ((overwritten + 1 .. revision) \ {overwritten + 1}) \cup {revision + 1} =
            overwritten + 2 .. revision + 1
    BY <2>5 DEF TypeOK
  <2> QED
    BY <2>4, <2>5, <2>6 DEF TypeOK
<1> QED
  BY <1>1, <1>2

(* A progress response carries a position some watcher has reached. *)
LEMMA MinPosition ==
    ASSUME TypeOK, DOMAIN watchers # {}
    PROVE  LET min == Oldest({watchers[i].last : i \in DOMAIN watchers})
           IN  min \in Nat /\ \A i \in DOMAIN watchers : min <= watchers[i].last
<1> DEFINE positions == {watchers[i].last : i \in DOMAIN watchers}
<1>1. positions \in SUBSET Nat /\ positions # {}
  BY DEF TypeOK, Watcher
<1>2. Oldest(positions) \in Nat /\ \A p \in positions : Oldest(positions) <= p
  <2> HIDE DEF positions
  <2> QED BY <1>1, OldestIsLeast
<1> QED
  BY <1>2

LEMMA AcknowledgeType ==
    ASSUME NEW s \in Seq(Response), NEW r \in Nat
    PROVE  Acknowledge(s, r) \in Seq(Response)
<1>1. [rev |-> r, events |-> {}] \in Response
  BY DEF Response
<1>2. CASE Len(s) > 0 /\ s[Len(s)].events = {}
  <2>1. s[Len(s)] \in Response /\ Len(s) \in DOMAIN s
    BY <1>2
  <2>2. [s[Len(s)] EXCEPT !.rev = Max2(@, r)] \in Response
    BY <2>1 DEF Response, Max2
  <2>3. Acknowledge(s, r) = [s EXCEPT ![Len(s)] = [s[Len(s)] EXCEPT !.rev = Max2(@, r)]]
    BY <1>2 DEF Acknowledge
  <2> QED
    BY <2>1, <2>2, <2>3
<1>3. CASE ~(Len(s) > 0 /\ s[Len(s)].events = {})
  BY <1>1, <1>3 DEF Acknowledge
<1> QED
  BY <1>2, <1>3

LEMMA TypeNext == TypeOK /\ [Next]_watchVars => TypeOK'
<1> SUFFICES ASSUME TypeOK, [Next]_watchVars PROVE TypeOK'
  OBVIOUS
<1> USE TaskShapes DEF TypeOK, storeVars, streamVars, logVars
<1>1. ASSUME NEW write \in Writes, Apply(write) PROVE TypeOK'
  <2>1. /\ hub' = overwritten' + 1 .. revision'
        /\ overwritten' \in 1 .. revision'
    BY <1>1, PublishKeepsHub DEF Apply, WriteBatch
  <2>2. BatchOf(write, revision + 1) \subseteq {e \in Event : e.rev = revision + 1}
    BY <1>1 DEF Apply, WriteBatch, IsBatch
  <2>3. /\ hist' \subseteq Event
        /\ \A e \in hist' : e.rev <= revision'
        /\ log' = {e \in hist' : e.rev > compact_revision'}
    BY <1>1, <2>2 DEF Apply, WriteBatch, Event
  <2>4. UNCHANGED <<watchers, sent, task, cursor, compact_revision>> /\ revision' = revision + 1
    BY <1>1 DEF Apply, WriteBatch
  <2>5. revision' \in 1 .. MaxRevision + 1
    BY <1>1, <2>4, MaxRevisionIsNat DEF Apply
  <2> QED
    BY <2>1, <2>3, <2>4, <2>5 DEF CreateTask, SendTask, DispatchTask, ResyncTask
<1>2. ASSUME NEW r \in compact_revision + 1 .. revision, CompactStore(r) PROVE TypeOK'
  <2>1. log' = {e \in hist' : e.rev > compact_revision'} /\ compact_revision' \in 0 .. revision'
    BY <1>2 DEF CompactStore, Compact, Event
  <2> QED
    BY <1>2, <2>1 DEF CompactStore, Compact, CreateTask, SendTask, DispatchTask, ResyncTask
<1>3. ASSUME NEW id \in Ids, NEW req \in Requests, create_watch(id, req) PROVE TypeOK'
  <2>1. DOMAIN sent' = DOMAIN sent \cup {id} /\ sent' \in [DOMAIN sent' -> Seq(Response)]
    BY <1>3 DEF create_watch
  <2>2. task' \in CreateTask'
    BY <1>3, <2>1, RequestsAreTyped DEF create_watch, CreateTask, Watcher, Request
  <2> QED
    BY <1>3, <2>1, <2>2 DEF create_watch
<1>4. ASSUME NEW id \in Ids, cancel_watch(id) PROVE TypeOK'
  BY <1>4 DEF cancel_watch, Restrict
<1>5. CASE progress_request
  BY <1>5 DEF progress_request, Resync, ResyncTask
<1>6. CASE create_replay
  <2>1. task \in CreateTask
    BY <1>6 DEF create_replay
  <2>2. /\ task.id \in DOMAIN sent /\ task.watcher \in Watcher
        /\ UNCHANGED <<storeVars, cursor, sent>>
    BY <1>6, <2>1 DEF create_replay, CreateTask
  <2>3. CASE ~task.replay
    BY <1>6, <2>2, <2>3 DEF create_replay
  <2>4. CASE task.replay /\ task' = Select
    BY <1>6, <2>2, <2>4 DEF create_replay
  <2>5. CASE task.replay /\ task' = Sending(task.id, task.watcher, task.watcher.last, 0, {}, FALSE)
    <3>1. events_since(task.watcher.last, task.watcher) \subseteq Event
      BY DEF events_since
    <3>2. task' \in SendTask'
      BY <2>2, <2>5, <3>1 DEF Sending, SendTask
    <3> QED
      BY <1>6, <2>2, <2>5, <3>2 DEF create_replay
  <2> QED
    BY <1>6, <2>3, <2>4, <2>5 DEF create_replay
<1>7. CASE send_group
  <2> DEFINE r      == Oldest({e.rev : e \in task.pending})
             group  == {e \in task.pending : e.rev = r}
             wanted == {e \in group : wants(task.watcher, e)}
  <2>1. task \in SendTask
    BY <1>7 DEF send_group
  <2>2. r \in Nat
    <3>1. {e.rev : e \in task.pending} \in SUBSET Nat /\ {e.rev : e \in task.pending} # {}
      BY <1>7, <2>1 DEF send_group, SendTask, Event
    <3> HIDE DEF r
    <3> QED
      BY <3>1, OldestIsLeast DEF r
  <2>3. /\ task' = [task EXCEPT !.pending = @ \ group, !.watcher.last = Max2(@, r)]
        /\ UNCHANGED sent \/ Respond(task.id, r, wanted)
        /\ UNCHANGED <<storeVars, cursor, watchers>>
    BY <1>7 DEF send_group
  <2>4. DOMAIN sent' = DOMAIN sent /\ sent' \in [DOMAIN sent' -> Seq(Response)]
    <3>1. wanted \in SUBSET Event /\ task.id \in DOMAIN sent
      BY <2>1 DEF SendTask
    <3> HIDE DEF r, wanted
    <3> QED
      BY <2>2, <2>3, <3>1, RespondType
  <2>5. task' \in SendTask'
    <3> HIDE DEF r
    <3>1. Max2(task.watcher.last, r) \in Nat
      BY <2>1, <2>2 DEF SendTask, Watcher, Max2
    <3>2. task' \in SendTask
      BY <2>1, <2>3, <3>1 DEF SendTask, Watcher
    <3> QED
      BY <2>3, <2>4, <3>2 DEF SendTask
  <2> HIDE DEF r, group, wanted
  <2> QED
    BY <2>3, <2>4, <2>5
<1>8. CASE send_done
  <2> DEFINE w == [task.watcher EXCEPT !.last = Max2(@, task.upto)]
  <2>1. task \in SendTask
    BY <1>8 DEF send_done
  <2>2. w \in Watcher
    BY <2>1 DEF SendTask, Watcher, Max2
  <2>3. /\ watchers' = [i \in DOMAIN watchers \cup {task.id} |->
                            IF i = task.id THEN w ELSE watchers[i]]
        /\ UNCHANGED <<storeVars, cursor, sent>>
    BY <1>8 DEF send_done
  <2>4. /\ DOMAIN watchers' = DOMAIN watchers \cup {task.id}
        /\ watchers' \in [DOMAIN watchers' -> Watcher]
        /\ DOMAIN watchers' \subseteq DOMAIN sent'
    <3> HIDE DEF w
    <3> QED
      BY <2>1, <2>2, <2>3 DEF SendTask
  <2>5. task' \in {Select} \cup ResyncTask'
    BY <1>8, <2>1, <2>4 DEF send_done, SendTask, Resync, ResyncTask
  <2> HIDE DEF w
  <2> QED
    BY <2>3, <2>4, <2>5
<1>9. CASE recv
  BY <1>9 DEF recv, DispatchTask
<1>10. CASE recv_lagged
  BY <1>10 DEF recv_lagged, Resync, ResyncTask
<1>11. ASSUME NEW id \in Ids, dispatch(id) PROVE TypeOK'
  <2> DEFINE events == {e \in hist : e.rev = task.rev /\ wants(watchers[id], e)}
  <2>1. task \in DispatchTask /\ id \in DOMAIN watchers /\ id \in DOMAIN sent
    BY <1>11 DEF dispatch, DispatchTask
  <2>2. /\ UNCHANGED watchers \/ watchers' = [watchers EXCEPT ![id].last = task.rev]
        /\ UNCHANGED sent \/ Respond(id, task.rev, events)
        /\ task' = [task EXCEPT !.todo = @ \ {id}]
        /\ UNCHANGED <<storeVars, cursor>>
    BY <1>11 DEF dispatch
  <2>3. /\ DOMAIN watchers' = DOMAIN watchers
        /\ watchers' \in [DOMAIN watchers' -> Watcher]
    <3>1. [watchers[id] EXCEPT !.last = task.rev] \in Watcher
      BY <2>1 DEF DispatchTask, Watcher
    <3>2. CASE watchers' = [watchers EXCEPT ![id] = [watchers[id] EXCEPT !.last = task.rev]]
      BY <3>1, <3>2
    <3> QED
      BY <2>2, <3>2
  <2>4. DOMAIN sent' = DOMAIN sent /\ sent' \in [DOMAIN sent' -> Seq(Response)]
    BY <2>1, <2>2, RespondType DEF DispatchTask
  <2>5. task' \in DispatchTask'
    BY <2>1, <2>2, <2>3 DEF DispatchTask
  <2> QED
    BY <2>2, <2>3, <2>4, <2>5
<1>12. CASE dispatch_done
  BY <1>12 DEF dispatch_done
<1>13. ASSUME NEW id \in Ids, resync(id) PROVE TypeOK'
  <2>1. task \in ResyncTask /\ id \in DOMAIN watchers /\ id \in DOMAIN sent
    BY <1>13 DEF resync, ResyncTask
  <2>2. CASE watchers[id].last < compact_revision
    BY <1>13, <2>1, <2>2 DEF resync, ResyncTask, Resync, Restrict
  <2>3. CASE ~(watchers[id].last < compact_revision)
    <3>1. events_since(watchers[id].last, watchers[id]) \subseteq Event /\ watchers[id] \in Watcher
      BY <2>1 DEF events_since
    <3>2. task' \in SendTask'
      BY <1>13, <2>1, <2>3, <3>1 DEF resync, Sending, SendTask, ResyncTask
    <3> QED
      BY <1>13, <2>3, <3>2 DEF resync
  <2> QED
    BY <2>2, <2>3
<1>14. CASE resync_done
  <2> DEFINE min == Oldest({watchers[i].last : i \in DOMAIN watchers})
  <2>1. ASSUME NEW i \in DOMAIN watchers PROVE Acknowledge(sent[i], min) \in Seq(Response)
    <3>1. min \in Nat
      BY <2>1, MinPosition
    <3>2. sent[i] \in Seq(Response)
      BY <2>1
    <3> HIDE DEF min
    <3> QED
      BY <3>1, <3>2, AcknowledgeType
  <2>2. /\ sent' = IF task.progress
                   THEN [i \in DOMAIN sent |-> IF i \in DOMAIN watchers
                            THEN Acknowledge(sent[i], min) ELSE sent[i]]
                   ELSE sent
        /\ task' = Select
        /\ UNCHANGED <<storeVars, cursor, watchers>>
    BY <1>14 DEF resync_done
  <2>3. DOMAIN sent' = DOMAIN sent /\ sent' \in [DOMAIN sent' -> Seq(Response)]
    <3> HIDE DEF min
    <3> QED
      BY <2>1, <2>2
  <2> HIDE DEF min
  <2> QED
    BY <2>2, <2>3
<1>15. CASE UNCHANGED watchVars
  BY <1>15 DEF watchVars, CreateTask, SendTask, DispatchTask, ResyncTask
<1> QED
  BY <1>1, <1>2, <1>3, <1>4, <1>5, <1>6, <1>7, <1>8, <1>9, <1>10, <1>11, <1>12,
     <1>13, <1>14, <1>15 DEF Next, StoreNext, Client, Task

-----------------------------------------------------------------------------
(***************************************************************************)
(* What a response changes.                                                *)
(***************************************************************************)

LEMMA ResponsesTyped ==
    ASSUME TypeOK, NEW id \in DOMAIN sent, NEW i \in DOMAIN sent[id]
    PROVE  sent[id][i] \in Response /\ sent[id][i].rev \in Nat
<1>1. sent[id] \in Seq(Response)
  BY DEF TypeOK
<1>2. sent[id][i] \in Response
  BY <1>1
<1> QED
  BY <1>2 DEF Response

LEMMA RespondAppends ==
    ASSUME TypeOK, NEW id \in DOMAIN sent, NEW r \in Nat, NEW events \in SUBSET Event,
           Respond(id, r, events)
    PROVE  /\ DOMAIN sent' = DOMAIN sent
           /\ \A j \in DOMAIN sent \ {id} : sent'[j] = sent[j]
           /\ DOMAIN sent'[id] = 1 .. Len(sent[id]) + 1
           /\ DOMAIN sent[id] = 1 .. Len(sent[id]) /\ Len(sent[id]) \in Nat
           /\ \A i \in DOMAIN sent[id] : sent'[id][i] = sent[id][i] /\ sent[id][i] \in Response
           /\ sent'[id][Len(sent[id]) + 1] = [rev |-> r, events |-> events]
<1>1. [rev |-> r, events |-> events] \in Response
  BY DEF Response
<1>2. sent[id] \in Seq(Response)
  BY DEF TypeOK
<1>3. /\ sent'[id] = Append(sent[id], [rev |-> r, events |-> events])
      /\ DOMAIN sent' = DOMAIN sent
      /\ \A j \in DOMAIN sent \ {id} : sent'[j] = sent[j]
  BY DEF Respond, TypeOK
<1> QED
  BY <1>1, <1>2, <1>3

LEMMA RespondDelivers ==
    ASSUME TypeOK, NEW id \in DOMAIN sent, NEW r \in Nat, NEW events \in SUBSET Event,
           Respond(id, r, events)
    PROVE  /\ Delivered(id)' = Delivered(id) \cup events
           /\ \A j \in DOMAIN sent \ {id} : Delivered(j)' = Delivered(j)
<1> DEFINE n == Len(sent[id])
<1>0. /\ DOMAIN sent' = DOMAIN sent
      /\ \A j \in DOMAIN sent \ {id} : sent'[j] = sent[j]
      /\ DOMAIN sent'[id] = 1 .. n + 1 /\ DOMAIN sent[id] = 1 .. n /\ n \in Nat
      /\ \A i \in 1 .. n : sent'[id][i] = sent[id][i] /\ sent[id][i] \in Response
      /\ sent'[id][n + 1] = [rev |-> r, events |-> events]
  BY RespondAppends
<1> HIDE DEF n
<1>1. ASSUME NEW j \in DOMAIN sent \ {id} PROVE Delivered(j)' = Delivered(j)
  BY <1>0 DEF Delivered
<1>2. ASSUME NEW e PROVE e \in Delivered(id)' <=> e \in Delivered(id) \cup events
  <2>1. e \in Delivered(id)' <=> \E i \in 1 .. n + 1 : e \in sent'[id][i].events
    BY <1>0 DEF Delivered
  <2>2. e \in Delivered(id) <=> \E i \in 1 .. n : e \in sent[id][i].events
    BY <1>0 DEF Delivered
  <2>3. (\E i \in 1 .. n + 1 : e \in sent'[id][i].events)
            <=> (\E i \in 1 .. n : e \in sent[id][i].events) \/ e \in events
    BY <1>0
  <2> QED
    BY <2>1, <2>2, <2>3
<1> QED
  BY <1>1, <1>2

(* A response later than all before it keeps the order. *)
LEMMA RespondInOrder ==
    ASSUME TypeOK, InOrder,
           NEW id \in DOMAIN sent, NEW r \in Nat, NEW events \in SUBSET Event,
           Respond(id, r, events),
           \A i \in DOMAIN sent[id] : sent[id][i].rev < r
    PROVE  /\ InOrder'
           /\ \A i \in DOMAIN sent'[id] : sent'[id][i].rev <= r
<1> DEFINE n == Len(sent[id])
<1>0. /\ DOMAIN sent' = DOMAIN sent
      /\ \A j \in DOMAIN sent \ {id} : sent'[j] = sent[j]
      /\ DOMAIN sent'[id] = 1 .. n + 1 /\ DOMAIN sent[id] = 1 .. n /\ n \in Nat
      /\ \A i \in 1 .. n : sent'[id][i] = sent[id][i] /\ sent[id][i] \in Response
      /\ sent'[id][n + 1] = [rev |-> r, events |-> events]
  BY RespondAppends
<1> HIDE DEF n
<1>1. \A i \in DOMAIN sent'[id] : sent'[id][i].rev <= r
  BY <1>0 DEF Response
<1>2. ASSUME NEW i \in DOMAIN sent'[id], NEW j \in DOMAIN sent'[id], i < j,
             sent'[id][j].events # {}
      PROVE  sent'[id][i].rev < sent'[id][j].rev
  <2>1. i \in 1 .. n
    BY <1>0, <1>2
  <2>2. CASE j = n + 1
    BY <1>0, <2>1, <2>2
  <2>3. CASE j \in 1 .. n
    BY <1>0, <1>2, <2>1, <2>3 DEF InOrder
  <2> QED
    BY <1>0, <2>2, <2>3
<1>3. ASSUME NEW k \in DOMAIN sent', k # id, NEW i \in DOMAIN sent'[k], NEW j \in DOMAIN sent'[k],
             i < j, sent'[k][j].events # {}
      PROVE  sent'[k][i].rev < sent'[k][j].rev
  BY <1>0, <1>3 DEF InOrder
<1> QED
  BY <1>1, <1>2, <1>3 DEF InOrder

-----------------------------------------------------------------------------
(***************************************************************************)
(* Every step keeps the invariant.                                         *)
(***************************************************************************)

LEMMA InitInv == Init => IInv
<1> SUFFICES ASSUME Init PROVE IInv
  OBVIOUS
<1>1. TypeOK
  BY TypeInit
<1>2. /\ DOMAIN watchers = {} /\ DOMAIN sent = {}
      /\ task.at = "select"
  BY DEF Init, Select
<1> QED
  BY <1>1, <1>2 DEF IInv, Creating, SendingAll, Positioned, Gapless, Acknowledged, InOrder, Following

(* Facts about the watchers that are in play. *)
LEMMA FollowingTypes ==
    ASSUME TypeOK, NEW id \in Following
    PROVE  id \in DOMAIN sent /\ Position(id) \in Watcher
BY TaskShapes DEF TypeOK, Following, Position, SendTask

(* A write: its events are later than anything a task or a watcher has.     *)
LEMMA ApplyInv ==
    ASSUME IInv, TypeOK', NEW write \in Writes, Apply(write)
    PROVE  IInv'
<1> USE DEF IInv
<1>1. /\ UNCHANGED <<watchers, sent, task, cursor>>
      /\ revision' = revision + 1 /\ revision \in Nat /\ cursor <= revision /\ cursor \in Nat
      /\ hist \subseteq hist'
      /\ \A e \in hist' \ hist : e.rev = revision + 1
      /\ \A e \in hist' : e \in Event
      /\ \A e \in hist : e.rev <= revision
  BY DEF Apply, WriteBatch, IsBatch, TypeOK, streamVars
<1>2. ASSUME NEW w \in Watcher PROVE /\ Ahead(w) \subseteq Ahead(w)'
                                     /\ \A e \in Ahead(w)' \ Ahead(w) : e.rev = revision + 1
                                     /\ \A e \in Ahead(w)' : e.rev \in Nat
                                     /\ Reached(w) => Reached(w)'
  BY <1>1 DEF Ahead, Reached, Watcher, Event
<1>3. Creating'
  BY <1>1 DEF Creating
<1>4. SendingAll'
  <2> SUFFICES ASSUME task.at = "send" PROVE SendingAll'
    BY <1>1 DEF SendingAll
  <2>1. task \in SendTask
    BY TaskShapes
  <2>2. /\ task.watcher \in Watcher
        /\ task.upto \in Nat /\ task.upto <= revision
        /\ task.pending \subseteq Ahead(task.watcher)
    BY <2>1 DEF SendTask, SendingAll
  <2>3. \A f \in task.pending : f.rev \in Nat /\ f.rev <= revision
    BY <1>1, <2>2 DEF Ahead, Event
  <2>4. \A e \in Ahead(task.watcher)' \ Ahead(task.watcher) :
            ~((\E f \in task.pending : e.rev <= f.rev) \/ e.rev <= task.upto \/ e.rev <= cursor)
    BY <1>1, <1>2, <2>2, <2>3
  <2> QED
    BY <1>1, <1>2, <2>2, <2>4 DEF SendingAll
<1>5. Positioned'
  <2>1. ASSUME NEW w \in Watcher, NEW r \in Int, r <= cursor PROVE CaughtUp(w, r) => CaughtUp(w, r)'
    BY <1>1, <1>2, <2>1 DEF CaughtUp
  <2>2. \A id \in DOMAIN watchers : watchers[id] \in Watcher
    BY DEF TypeOK
  <2>3. task.at = "send" => task.watcher \in Watcher
    BY TaskShapes DEF SendTask
  <2> QED
    BY <1>1, <1>2, <2>1, <2>2, <2>3 DEF Positioned, Todo
<1>6. Gapless'
  <2> SUFFICES ASSUME NEW id \in Following PROVE
            Delivered(id) = {e \in hist' : wants(Position(id), e) /\ e.rev > Position(id).start
                                                                  /\ e.rev <= Position(id).last}
    BY <1>1 DEF Gapless, Following, Position, Delivered
  <2>1. Reached(Position(id)) /\ Position(id) \in Watcher
    BY FollowingTypes DEF Positioned, Following, Position
  <2>2. \A e \in hist' \ hist : ~(e.rev > Position(id).start /\ e.rev <= Position(id).last)
    BY <1>1, <2>1 DEF Reached, Watcher
  <2> QED
    BY <1>1, <2>2 DEF Gapless
<1>7. Acknowledged' /\ InOrder'
  BY <1>1 DEF Acknowledged, InOrder, Following, Position
<1> QED
  BY <1>3, <1>4, <1>5, <1>6, <1>7

LEMMA CompactInv ==
    ASSUME IInv, TypeOK', NEW r \in compact_revision + 1 .. revision, CompactStore(r)
    PROVE  IInv'
<1>1. UNCHANGED <<watchers, sent, task, cursor, hist, revision>>
  BY DEF CompactStore, Compact, streamVars
<1> QED
  BY <1>1 DEF IInv, Creating, SendingAll, Positioned, Gapless, Acknowledged, InOrder,
              Following, Position, Delivered, Ahead, CaughtUp, Reached, Todo

(* Outside a replay, following is having a watcher. *)
LEMMA FollowingIsWatching ==
    ASSUME task.at # "send"
    PROVE  /\ Following = DOMAIN watchers
           /\ \A id : Position(id) = watchers[id]
BY DEF Following, Position

LEMMA CreateWatchInv ==
    ASSUME IInv, TypeOK', NEW id \in Ids, NEW req \in Requests, create_watch(id, req)
    PROVE  IInv'
<1> USE DEF IInv
<1>1. /\ UNCHANGED <<watchers, cursor, hist, revision>>
      /\ task.at = "select" /\ task'.at = "create" /\ task'.id = id
      /\ DOMAIN sent' = DOMAIN sent \cup {id}
      /\ sent'[id] = <<>> /\ id \notin DOMAIN sent
      /\ \A i \in DOMAIN sent : sent'[i] = sent[i]
      /\ task'.watcher.last = task'.watcher.start
      /\ ~task'.replay => task'.watcher.last = revision
  <2> DEFINE start == IF req.start_revision <= 0 THEN revision ELSE req.start_revision - 1
  <2>1. /\ task' = [at |-> "create", id |-> id, replay |-> req.start_revision > 0,
                    watcher |-> [range |-> req.range, kinds |-> req.kinds,
                                 start |-> start, last |-> start]]
        /\ sent' = [i \in DOMAIN sent \cup {id} |-> IF i = id THEN <<>> ELSE sent[i]]
        /\ id \notin DOMAIN sent /\ task = Select
        /\ UNCHANGED <<storeVars, cursor, watchers>>
    BY DEF create_watch
  <2>2. req.start_revision \in Nat
    BY RequestsAreTyped DEF Request
  <2>3. ~task'.replay => task'.watcher.last = revision
    <3>1. task'.replay <=> req.start_revision > 0
      BY <2>1, Zenon
    <3>2. task'.watcher.last = start
      BY <2>1
    <3> QED
      BY <2>2, <3>1, <3>2
  <2> HIDE DEF start
  <2> QED
    BY <2>1, <2>3 DEF Select, storeVars, logVars
<1>2. cursor <= revision /\ DOMAIN watchers \subseteq DOMAIN sent
  BY DEF TypeOK
<1>3. /\ Following = DOMAIN watchers /\ Following' = DOMAIN watchers
      /\ \A i : Position(i) = watchers[i] /\ Position(i)' = watchers[i]
  BY <1>1 DEF Following, Position
<1>4. Creating' /\ SendingAll' /\ Positioned'
  BY <1>1, <1>2 DEF Creating, SendingAll, Positioned, Ahead, CaughtUp, Reached, Todo
<1>5. \A i \in DOMAIN watchers : Delivered(i)' = Delivered(i)
  BY <1>1, <1>2 DEF Delivered
<1>6. Gapless' /\ Acknowledged'
  BY <1>1, <1>2, <1>3, <1>5 DEF Gapless, Acknowledged
<1>7. InOrder'
  BY <1>1 DEF InOrder
<1> QED
  BY <1>4, <1>6, <1>7

(* A watch that asked for no history joins at the revision it was created   *)
(* at; one whose start is compacted ends; one with a history starts to send *)
(* all of it.                                                               *)
LEMMA CreateReplayInv ==
    ASSUME IInv, TypeOK', create_replay
    PROVE  IInv'
<1> USE DEF IInv
<1>1. /\ task \in CreateTask
      /\ task.id \in DOMAIN sent /\ task.id \notin DOMAIN watchers
      /\ sent[task.id] = <<>>
      /\ task.watcher \in Watcher
      /\ task.watcher.last = task.watcher.start
      /\ UNCHANGED <<storeVars, logVars, cursor, sent>>
      /\ task.at = "create"
  BY TaskShapes DEF create_replay, Creating, CreateTask, storeVars
<1>2. InOrder' /\ Creating'
  BY <1>1 DEF InOrder, Creating, create_replay, Select, Sending
<1>3. Delivered(task.id) = {}
  BY <1>1 DEF Delivered
<1>4. {e \in hist : wants(task.watcher, e) /\ e.rev > task.watcher.start
                                           /\ e.rev <= task.watcher.last} = {}
  BY <1>1 DEF TypeOK, Event, Watcher
<1>5. CASE ~task.replay
  <2>1. /\ watchers' = [i \in DOMAIN watchers \cup {task.id} |->
                            IF i = task.id THEN task.watcher ELSE watchers[i]]
        /\ task'.at = "select"
    <3>1. task' = Select
      BY <1>1, <1>5 DEF create_replay
    <3> QED
      BY <1>1, <1>5, <3>1 DEF create_replay, Select
  <2>2. CaughtUp(task.watcher, cursor)
    BY <1>1, <1>5 DEF Creating, CaughtUp, Ahead, Watcher, TypeOK, Event
  <2>3. SendingAll' /\ Positioned'
    BY <1>1, <2>1, <2>2 DEF SendingAll, Positioned, Reached, CaughtUp, Ahead, Todo, storeVars, logVars
  <2>4. Gapless' /\ Acknowledged'
    BY <1>1, <1>3, <1>4, <2>1
       DEF Gapless, Acknowledged, Following, Position, Delivered, storeVars, logVars
  <2> QED
    BY <1>2, <2>3, <2>4
<1>6. CASE task.replay /\ UNCHANGED watchers /\ task' = Select
  BY <1>1, <1>2, <1>6 DEF Select, SendingAll, Positioned, Reached, CaughtUp, Ahead, Todo, storeVars,
     logVars, Gapless, Acknowledged, Following, Position, Delivered
<1>7. CASE /\ task.replay /\ UNCHANGED watchers
           /\ task.watcher.last >= compact_revision
           /\ task' = Sending(task.id, task.watcher, task.watcher.last, 0, {}, FALSE)
  <2>1. task'.pending = Ahead(task.watcher)
    BY <1>1, <1>7 DEF Sending, events_since, Ahead, TypeOK, Event, Watcher
  <2>2. /\ task'.at = "send" /\ task'.id = task.id /\ task'.upto = 0 /\ task'.todo = {}
        /\ task'.watcher = task.watcher
    BY <1>7 DEF Sending
  <2>3. UNCHANGED <<watchers, hist, revision, cursor, sent>>
    BY <1>1, <1>7 DEF storeVars, logVars
  <2>4. SendingAll'
    BY <1>1, <2>1, <2>2, <2>3 DEF TypeOK, SendingAll, Ahead
  <2>5. Positioned'
    BY <1>1, <2>2, <2>3 DEF Positioned, Reached, CaughtUp, Ahead, Todo
  <2>6. Following' = DOMAIN watchers \cup {task.id} /\ Following = DOMAIN watchers
    BY <1>1, <2>2, <2>3 DEF Following
  <2>7. /\ \A id : id = task.id => Position(id)' = task.watcher
        /\ \A id \in DOMAIN watchers : Position(id)' = watchers[id] /\ Position(id) = watchers[id]
    BY <1>1, <2>2, <2>3 DEF Position
  <2>8. \A id : Delivered(id)' = Delivered(id)
    BY <2>3 DEF Delivered
  <2>9. Gapless'
    <3>1. ASSUME NEW id \in DOMAIN watchers
          PROVE  Delivered(id)' = {e \in hist' : wants(Position(id)', e)
                    /\ e.rev > Position(id)'.start /\ e.rev <= Position(id)'.last}
      BY <2>3, <2>6, <2>7, <2>8 DEF Gapless
    <3>2. ASSUME NEW id, id = task.id
          PROVE  Delivered(id)' = {e \in hist' : wants(Position(id)', e)
                    /\ e.rev > Position(id)'.start /\ e.rev <= Position(id)'.last}
      BY <1>3, <1>4, <2>3, <2>7, <2>8, <3>2
    <3> QED
      BY <2>6, <3>1, <3>2 DEF Gapless
  <2>10. Acknowledged'
    BY <1>1, <2>3, <2>6, <2>7 DEF Acknowledged
  <2> QED
    BY <1>2, <2>4, <2>5, <2>9, <2>10
<1> QED
  BY <1>5, <1>6, <1>7 DEF create_replay

(* One revision of a replay: nothing in range lies between the position and *)
(* the oldest pending event, so the response completes its revision.        *)
LEMMA SendGroupInv ==
    ASSUME IInv, TypeOK', send_group
    PROVE  IInv'
<1> USE DEF IInv
<1> DEFINE r      == Oldest({e.rev : e \in task.pending})
           group  == {e \in task.pending : e.rev = r}
           wanted == {e \in group : wants(task.watcher, e)}
           upto(w, last) == {e \in hist : wants(w, e) /\ e.rev > w.start /\ e.rev <= last}
<1>1. PICK t : t = task.id
  OBVIOUS
<1>2. PICK w : w = task.watcher
  OBVIOUS
<1>3. /\ task \in SendTask /\ t \in DOMAIN sent /\ w \in Watcher
      /\ task.pending \subseteq Ahead(w) /\ task.pending \subseteq hist
      /\ task.at = "send"
  BY <1>1, <1>2, TaskShapes DEF send_group, SendTask, SendingAll, Ahead
<1>4. /\ r \in Nat /\ \E e \in task.pending : e.rev = r
      /\ \A e \in task.pending : r <= e.rev
  <2> DEFINE revs == {e.rev : e \in task.pending}
  <2>1. revs \in SUBSET Nat /\ revs # {}
    BY <1>3 DEF send_group, SendTask, Event
  <2>2. Oldest(revs) \in revs /\ \A s \in revs : Oldest(revs) <= s
    <3> HIDE DEF revs
    <3> QED BY <2>1, OldestIsLeast
  <2>3. r = Oldest(revs)
    OBVIOUS
  <2> HIDE DEF r
  <2> QED
    BY <2>1, <2>2, <2>3
<1>5. /\ task' = [task EXCEPT !.pending = @ \ group, !.watcher.last = Max2(@, r)]
      /\ IF wanted = {} THEN UNCHANGED sent ELSE Respond(t, r, wanted)
      /\ UNCHANGED <<hist, revision, cursor, watchers>>
  BY <1>1 DEF send_group, storeVars, logVars
<1>6. wanted = {e \in hist : e.rev = r /\ wants(w, e)} /\ wanted \in SUBSET Event
  <2>1. \A e \in hist : e.rev = r /\ wants(w, e) => e \in task.pending
    BY <1>2, <1>3, <1>4 DEF SendingAll, Ahead, wants, TypeOK, Event
  <2> QED
    BY <1>2, <1>3, <2>1 DEF TypeOK
<1> HIDE DEF r, wanted
<1>7. /\ r > w.last /\ w.last \in Nat /\ w.start \in Nat /\ r \in Nat /\ w.start <= w.last
      /\ r <= revision
  BY <1>2, <1>3, <1>4 DEF Ahead, TypeOK, Positioned, Reached, Watcher
<1>8. /\ task'.watcher = [w EXCEPT !.last = r] /\ task'.id = t /\ task'.upto = task.upto
      /\ task'.at = "send" /\ task'.pending = task.pending \ group /\ task'.todo = task.todo
  BY <1>1, <1>2, <1>3, <1>5, <1>7 DEF SendTask, Watcher, Max2
<1>9. \A e \in hist : e.key \in w.range /\ e.rev > w.last /\ e.rev < r => FALSE
  BY <1>2, <1>3, <1>4 DEF SendingAll, Ahead, TypeOK, Event
<1>10. Following' = Following /\ t \in Following
       /\ Position(t) = w /\ \A id : id # t => Position(id)' = Position(id)
       /\ Position(t)' = [w EXCEPT !.last = r]
  BY <1>1, <1>2, <1>3, <1>5, <1>8 DEF Following, Position
<1>11. Creating'
  BY <1>8 DEF Creating
<1>12. SendingAll'
  <2>1. Ahead([w EXCEPT !.last = r]) = Ahead(w) \ {e \in hist : e.rev <= r}
    BY <1>3, <1>7 DEF Ahead, TypeOK, Event, Watcher
  <2>2. task.pending \ group = task.pending \ {e \in hist : e.rev <= r}
    BY <1>3, <1>4, <1>7 DEF TypeOK, Event
  <2> HIDE DEF group
  <2> QED
    BY <1>1, <1>2, <1>3, <1>5, <1>8, <2>1, <2>2 DEF SendingAll, Ahead
<1>13. Positioned'
  BY <1>1, <1>2, <1>3, <1>5, <1>7, <1>8 DEF Positioned, Reached, CaughtUp, Ahead, Todo, Watcher
<1>14. Delivered(t)' = Delivered(t) \cup wanted /\ \A id \in DOMAIN sent \ {t} : Delivered(id)' = Delivered(id)
  <2>1. CASE wanted = {}
    BY <1>5, <2>1 DEF Delivered
  <2>2. CASE wanted # {}
    BY <1>3, <1>5, <1>6, <1>7, <2>2, RespondDelivers
  <2> QED
    BY <2>1, <2>2
<1>15. Gapless'
  <2>1. Delivered(t) = upto(w, w.last)
    BY <1>10 DEF Gapless
  <2>2. upto(w, w.last) \cup wanted = upto(w, r)
    BY SMTT(30), <1>3, <1>6, <1>7, <1>9 DEF wants, TypeOK, Event
  <2>3. Delivered(t)' = {e \in hist' : wants(Position(t)', e)
                            /\ e.rev > Position(t)'.start /\ e.rev <= Position(t)'.last}
    BY <1>3, <1>5, <1>10, <1>14, <2>1, <2>2 DEF wants, Watcher
  <2>4. ASSUME NEW id \in Following, id # t
        PROVE  Delivered(id)' = {e \in hist' : wants(Position(id)', e)
                            /\ e.rev > Position(id)'.start /\ e.rev <= Position(id)'.last}
    BY <1>5, <1>10, <1>14, <2>4, FollowingTypes DEF Gapless
  <2> QED
    BY <1>10, <2>3, <2>4 DEF Gapless
<1>16. Acknowledged' /\ InOrder'
  <2>1. \A i \in DOMAIN sent[t] : sent[t][i].rev <= w.last
    BY <1>10 DEF Acknowledged
  <2>2. \A i \in DOMAIN sent[t] : sent[t][i].rev \in Nat
    BY <1>3, ResponsesTyped DEF Response
  <2>3. CASE wanted = {}
    <3>1. UNCHANGED sent
      BY <1>5, <2>3
    <3>2. \A i \in DOMAIN sent[t] : sent[t][i].rev <= Position(t)'.last
      BY <1>3, <1>7, <1>10, <2>1, <2>2 DEF Watcher
    <3> QED
      BY <1>10, <3>1, <3>2 DEF Acknowledged, InOrder
  <2>4. CASE wanted # {}
    <3>1. Respond(t, r, wanted)
      BY <1>5, <2>4
    <3>2. \A i \in DOMAIN sent[t] : sent[t][i].rev < r
      BY <1>7, <2>1, <2>2
    <3>3. InOrder' /\ \A i \in DOMAIN sent'[t] : sent'[t][i].rev <= r
      BY <1>3, <1>6, <1>7, <3>1, <3>2, RespondInOrder
    <3>4. \A id \in DOMAIN sent \ {t} : sent'[id] = sent[id]
      BY <1>3, <1>6, <1>7, <3>1, RespondAppends
    <3>5. \A id \in Following \ {t} : sent'[id] = sent[id]
      BY <3>4, FollowingTypes
    <3>6. Position(t)'.last = r
      BY <1>3, <1>10 DEF Watcher
    <3> QED
      BY <1>10, <3>3, <3>5, <3>6 DEF Acknowledged
  <2> QED
    BY <2>3, <2>4
<1> QED
  BY <1>11, <1>12, <1>13, <1>15, <1>16

(* The end of a replay: nothing in range is left up to the revision it was  *)
(* read at, or up to what the subscription has received.                    *)
LEMMA SendDoneInv ==
    ASSUME IInv, TypeOK', send_done
    PROVE  IInv'
<1> USE DEF IInv
<1>1. PICK t : t = task.id
  OBVIOUS
<1>2. PICK v : v = [task.watcher EXCEPT !.last = Max2(@, task.upto)]
  OBVIOUS
<1>3. PICK w : w = task.watcher
  OBVIOUS
<1>4. /\ task \in SendTask /\ t \in DOMAIN sent /\ w \in Watcher /\ task.at = "send"
      /\ task.pending = {} /\ task.upto \in Nat /\ task.upto <= revision
      /\ revision \in Nat /\ cursor \in Nat
  BY <1>1, <1>3, TaskShapes DEF send_done, SendTask, SendingAll, TypeOK
<1>5. /\ v \in Watcher /\ v.range = w.range /\ v.kinds = w.kinds /\ v.start = w.start
      /\ v.last >= w.last
      /\ v.last = w.last \/ v.last = task.upto
      /\ w.last \in Nat /\ v.last \in Nat /\ w.start \in Nat /\ task.upto <= v.last
  BY <1>2, <1>3, <1>4 DEF Watcher, Max2
<1>6. /\ watchers' = [i \in DOMAIN watchers \cup {t} |-> IF i = t THEN v ELSE watchers[i]]
      /\ UNCHANGED <<hist, revision, cursor, sent>>
      /\ task' = IF task.upto = 0 THEN Select ELSE Resync(task.todo, task.progress)
  BY <1>1, <1>2 DEF send_done, storeVars, logVars
<1>7. /\ task'.at \in {"select", "resync"}
      /\ task.upto # 0 => task'.at = "resync" /\ task'.todo = task.todo
  BY <1>6 DEF Select, Resync
<1>8. /\ Following = DOMAIN watchers \cup {t} /\ Following' = DOMAIN watchers \cup {t}
      /\ Position(t) = w /\ Position(t)' = v
      /\ \A id \in DOMAIN watchers \ {t} : Position(id)' = watchers[id] /\ Position(id) = watchers[id]
  BY <1>1, <1>3, <1>4, <1>6, <1>7 DEF Following, Position
<1>9. \A e \in hist : e.rev \in Nat
  BY DEF TypeOK, Event
<1>10. \A e \in Ahead(w) : e.rev > task.upto /\ e.rev > cursor
  BY <1>3, <1>4, <1>9 DEF SendingAll, Ahead
<1>11. \A e \in Ahead(v) : e \in Ahead(w)
  BY <1>5, <1>9 DEF Ahead
<1>12. Reached(v)
  BY <1>3, <1>4, <1>5 DEF Positioned, Reached
<1>13. Creating' /\ SendingAll'
  BY <1>7 DEF Creating, SendingAll
<1>14. Positioned'
  <2>1. \A id \in DOMAIN watchers \ {t} : watchers'[id] = watchers[id]
    BY <1>6
  <2>2. \A id \in DOMAIN watchers \ {t} : id \notin Todo' =>  CaughtUp(watchers[id], cursor)
    BY <1>1, <1>4, <1>7 DEF Positioned, Todo, SendingAll
  <2>3. DOMAIN watchers' = DOMAIN watchers \cup {t} /\ watchers'[t] = v
    BY <1>6
  <2>4. CaughtUp(v, cursor)
    BY <1>10, <1>11 DEF CaughtUp
  <2> QED
    BY <1>4, <1>6, <1>7, <1>12, <2>1, <2>2, <2>3, <2>4 DEF Positioned, CaughtUp, Ahead, Reached
<1>15. Gapless'
  <2>1. {e \in hist : wants(v, e) /\ e.rev > v.start /\ e.rev <= v.last} =
        {e \in hist : wants(w, e) /\ e.rev > w.start /\ e.rev <= w.last}
    BY <1>5, <1>9, <1>10 DEF wants, Ahead
  <2>2. \A id : Delivered(id)' = Delivered(id)
    BY <1>6 DEF Delivered
  <2>3. Delivered(t)' = {e \in hist' : wants(Position(t)', e)
                            /\ e.rev > Position(t)'.start /\ e.rev <= Position(t)'.last}
    BY <1>6, <1>8, <2>1, <2>2 DEF Gapless
  <2> QED
    BY <1>6, <1>8, <2>2, <2>3 DEF Gapless
<1>16. Acknowledged' /\ InOrder'
  <2>1. \A i \in DOMAIN sent[t] : sent[t][i].rev <= v.last
    BY <1>4, <1>5, <1>8, ResponsesTyped DEF Acknowledged
  <2> QED
    BY <1>6, <1>8, <2>1 DEF Acknowledged, InOrder
<1> QED
  BY <1>13, <1>14, <1>15, <1>16

(* Steps that only move the task between its waiting points.                *)
LEMMA IdleInv ==
    ASSUME IInv, TypeOK', UNCHANGED <<hist, revision, cursor, watchers, sent>>,
           task.at \in {"select", "dispatch"}, Todo = {},
           \/ task' = Select
           \/ \E progress : task' = Resync(DOMAIN watchers, progress)
    PROVE  IInv'
<1>1. task'.at \in {"select", "resync"}
  BY DEF Select, Resync
<1>2. Following' = Following /\ \A id : Position(id)' = Position(id)
  BY <1>1 DEF Following, Position
<1>3. Creating' /\ SendingAll' /\ Positioned'
  BY <1>1 DEF IInv, Creating, SendingAll, Positioned, CaughtUp, Ahead, Reached, Todo, Select, Resync
<1>4. Gapless' /\ Acknowledged' /\ InOrder'
  BY <1>2 DEF IInv, Gapless, Acknowledged, InOrder, Delivered
<1> QED
  BY <1>3, <1>4 DEF IInv

(* A watcher that leaves, cancelled or compacted away, disturbs no other.   *)
LEMMA DropInv ==
    ASSUME IInv, TypeOK', NEW id \in DOMAIN watchers, UNCHANGED <<hist, revision, cursor, sent>>,
           watchers' = Restrict(watchers, DOMAIN watchers \ {id}),
           \/ task = Select /\ task' = Select
           \/ /\ task.at = "resync"
              /\ task' = Resync(task.todo \ {id}, task.progress)
    PROVE  IInv'
<1>1. /\ task.at \in {"select", "resync"} /\ task'.at = task.at
      /\ Todo' = Todo \ {id}
  BY DEF Select, Resync, Todo
<1>2. /\ DOMAIN watchers' = DOMAIN watchers \ {id}
      /\ \A i \in DOMAIN watchers' : watchers'[i] = watchers[i]
  BY DEF Restrict
<1>3. /\ Following = DOMAIN watchers /\ Following' = DOMAIN watchers'
      /\ \A i \in DOMAIN watchers' : Position(i) = watchers[i] /\ Position(i)' = watchers[i]
  BY <1>1, <1>2 DEF Following, Position
<1>4. Creating' /\ SendingAll' /\ Positioned'
  <2>1. Creating' /\ SendingAll'
    BY <1>1 DEF Creating, SendingAll
  <2>2. \A i \in DOMAIN watchers : /\ Reached(watchers[i])
                                   /\ i \notin Todo => CaughtUp(watchers[i], cursor)
    BY <1>1 DEF IInv, Positioned
  <2>3. ASSUME NEW i \in DOMAIN watchers'
        PROVE  /\ Reached(watchers[i])'
               /\ i \notin Todo' => CaughtUp(watchers[i], cursor)'
    <3>1. watchers'[i] = watchers[i] /\ i \in DOMAIN watchers /\ i # id
      BY <1>2, <2>3
    <3>2. Reached(watchers[i])'
      <4>1. Reached(watchers[i])
        BY <2>2, <3>1
      <4> QED BY <3>1, <4>1 DEF Reached
    <3>3. ASSUME i \notin Todo' PROVE CaughtUp(watchers[i], cursor)'
      BY <1>1, <2>2, <3>1, <3>3 DEF CaughtUp, Ahead
    <3> QED
      BY <3>2, <3>3
  <2>4. task'.at \in {"select", "resync"}
    BY <1>1
  <2> QED
    BY <2>1, <2>3, <2>4 DEF Positioned
<1>5. \A i : Delivered(i)' = Delivered(i)
  BY DEF Delivered
<1>6. Gapless'
  <2> SUFFICES ASSUME NEW i \in DOMAIN watchers'
               PROVE  Delivered(i)' = {e \in hist' : wants(Position(i)', e)
                            /\ e.rev > Position(i)'.start /\ e.rev <= Position(i)'.last}
    BY <1>3 DEF Gapless
  <2>1. i \in Following
    BY <1>2, <1>3
  <2> QED
    BY <1>3, <1>5, <2>1 DEF IInv, Gapless
<1>7. Acknowledged' /\ InOrder'
  BY <1>2, <1>3 DEF IInv, Acknowledged, InOrder
<1> QED
  BY <1>4, <1>6, <1>7 DEF IInv

(* The next batch is the one after the last received: the hub loses the     *)
(* oldest first, and a subscription it has overtaken is told it lags.       *)
LEMMA RecvInv ==
    ASSUME IInv, TypeOK', recv
    PROVE  IInv'
<1>1. /\ task.at = "select" /\ task'.at = "dispatch" /\ task'.rev = cursor'
      /\ Todo' = DOMAIN watchers
      /\ UNCHANGED <<hist, revision, watchers, sent>>
  BY DEF recv, Select, Todo, storeVars, logVars
<1>2. cursor' = cursor + 1 /\ cursor \in Nat
  <2>1. /\ cursor >= overwritten /\ cursor' \in hub /\ cursor' > cursor
        /\ \A s \in hub : s > cursor => cursor' <= s
    BY DEF recv
  <2>2. hub = overwritten + 1 .. revision /\ overwritten \in Nat /\ cursor \in Nat /\ revision \in Nat
    BY DEF IInv, TypeOK
  <2>3. cursor + 1 \in hub
    BY <2>1, <2>2
  <2> QED
    BY <2>1, <2>2, <2>3
<1>3. /\ Following = DOMAIN watchers /\ Following' = DOMAIN watchers
      /\ \A id : Position(id) = watchers[id] /\ Position(id)' = watchers[id]
  BY <1>1 DEF Following, Position
<1>4. Creating' /\ SendingAll'
  BY <1>1 DEF Creating, SendingAll
<1>5. Positioned'
  <2>1. \A id \in DOMAIN watchers : CaughtUp(watchers[id], cursor)
    BY <1>1 DEF IInv, Positioned, Todo
  <2>2. cursor' - 1 = cursor
    BY <1>2
  <2> QED
    BY <1>1, <2>1, <2>2 DEF IInv, Positioned, CaughtUp, Ahead, Reached
<1>6. Gapless' /\ Acknowledged' /\ InOrder'
  BY <1>1, <1>3 DEF IInv, Gapless, Acknowledged, InOrder, Delivered
<1> QED
  BY <1>4, <1>5, <1>6 DEF IInv

(* What was overwritten is replayed to every watcher before anything else.  *)
LEMMA RecvLaggedInv ==
    ASSUME IInv, TypeOK', recv_lagged
    PROVE  IInv'
<1>1. /\ task.at = "select" /\ task'.at = "resync" /\ Todo' = DOMAIN watchers
      /\ UNCHANGED <<hist, revision, watchers, sent>>
  BY DEF recv_lagged, Select, Resync, Todo, storeVars, logVars
<1>2. /\ Following = DOMAIN watchers /\ Following' = DOMAIN watchers
      /\ \A id : Position(id) = watchers[id] /\ Position(id)' = watchers[id]
  BY <1>1 DEF Following, Position
<1>3. Creating' /\ SendingAll' /\ Positioned'
  BY <1>1 DEF IInv, Creating, SendingAll, Positioned, Reached
<1>4. Gapless' /\ Acknowledged' /\ InOrder'
  BY <1>1, <1>2 DEF IInv, Gapless, Acknowledged, InOrder, Delivered
<1> QED
  BY <1>3, <1>4 DEF IInv

(* A live batch: a watcher past it has it already, and any other misses     *)
(* nothing else in its range.                                               *)
LEMMA DispatchInv ==
    ASSUME IInv, TypeOK', NEW id \in Ids, dispatch(id)
    PROVE  IInv'
<1> USE DEF IInv
<1> DEFINE events == {e \in hist : e.rev = task.rev /\ wants(watchers[id], e)}
           w == watchers[id]
           r == task.rev
<1>1. /\ task \in DispatchTask /\ id \in task.todo /\ id \in DOMAIN watchers /\ id \in DOMAIN sent
      /\ task.at = "dispatch" /\ w \in Watcher /\ r = cursor /\ r \in Nat /\ r <= revision
      /\ w.last \in Nat /\ w.start \in Nat /\ w.start <= w.last
  <2>1. task.at = "dispatch" /\ task \in DispatchTask /\ id \in task.todo
    BY TaskShapes DEF dispatch
  <2>2. id \in DOMAIN watchers /\ id \in DOMAIN sent /\ w \in Watcher /\ Reached(w)
    BY <2>1 DEF DispatchTask, TypeOK, Positioned
  <2>3. r = cursor /\ r \in Nat /\ r <= revision
    BY <2>1 DEF Positioned, TypeOK
  <2> HIDE DEF w, r
  <2>4. w.last \in Nat /\ w.start \in Nat /\ w.start <= w.last
    BY <2>2 DEF Watcher, Reached
  <2> QED
    BY <2>1, <2>2, <2>3, <2>4
<1>2. /\ task' = [task EXCEPT !.todo = @ \ {id}]
      /\ UNCHANGED <<hist, revision, cursor>>
      /\ IF r <= w.last THEN UNCHANGED <<watchers, sent>>
         ELSE /\ watchers' = [watchers EXCEPT ![id].last = r]
              /\ IF events = {} THEN UNCHANGED sent ELSE Respond(id, r, events)
  BY DEF dispatch, storeVars, logVars
<1>3. /\ task'.at = "dispatch" /\ task'.rev = r /\ Todo = task.todo /\ Todo' = Todo \ {id}
  BY <1>1, <1>2 DEF DispatchTask, Todo
<1>4. /\ Following = DOMAIN watchers /\ Following' = DOMAIN watchers'
      /\ \A i : Position(i) = watchers[i] /\ Position(i)' = watchers'[i]
  BY <1>1, <1>3 DEF Following, Position
<1>5. Creating' /\ SendingAll'
  BY <1>3 DEF Creating, SendingAll
<1>6. \A e \in hist : e.rev \in Nat
  BY DEF TypeOK, Event
<1>7. CASE r <= w.last
  <2>1. CaughtUp(w, cursor)
    BY <1>1, <1>6, <1>7 DEF CaughtUp, Ahead
  <2>2. Positioned'
    BY <1>1, <1>2, <1>3, <1>7, <2>1 DEF Positioned, CaughtUp, Ahead, Reached
  <2>3. Gapless' /\ Acknowledged' /\ InOrder'
    BY <1>2, <1>4, <1>7 DEF Gapless, Acknowledged, InOrder, Delivered
  <2> QED
    BY <1>5, <2>2, <2>3
<1>8. CASE r > w.last
  <2>1. /\ watchers' = [watchers EXCEPT ![id] = [w EXCEPT !.last = r]]
        /\ UNCHANGED sent \/ Respond(id, r, events)
        /\ events = {} => UNCHANGED sent
    BY <1>1, <1>2, <1>8
  <2>2. /\ DOMAIN watchers' = DOMAIN watchers
        /\ watchers'[id] = [w EXCEPT !.last = r]
        /\ \A i \in DOMAIN watchers \ {id} : watchers'[i] = watchers[i]
    BY <1>1, <2>1
  <2>3. \A e \in Ahead(w) : e.rev >= r
    BY <1>1, <1>6 DEF Positioned, CaughtUp, Ahead
  <2>4. Positioned'
    <3>1. [w EXCEPT !.last = r].range = w.range /\ [w EXCEPT !.last = r].last = r
          /\ [w EXCEPT !.last = r].start = w.start
      BY <1>1 DEF Watcher
    <3>2. CaughtUp([w EXCEPT !.last = r], cursor) /\ Reached([w EXCEPT !.last = r])
      BY <1>1, <1>6, <1>8, <3>1 DEF CaughtUp, Ahead, Reached, TypeOK
    <3>3. CaughtUp([w EXCEPT !.last = r], cursor - 1)
      BY <1>1, <1>6, <3>2 DEF CaughtUp, Ahead
    <3>4. \A i \in DOMAIN watchers : /\ Reached(watchers[i]) /\ CaughtUp(watchers[i], cursor - 1)
                                     /\ i \notin Todo => CaughtUp(watchers[i], cursor)
      BY <1>1 DEF Positioned
    <3>5. \A i \in DOMAIN watchers : /\ Reached(watchers'[i]) /\ CaughtUp(watchers'[i], cursor - 1)
                                     /\ i \notin Todo' => CaughtUp(watchers'[i], cursor)
      BY <1>3, <2>2, <3>2, <3>3, <3>4
    <3>6. ASSUME NEW i \in DOMAIN watchers'
          PROVE  /\ Reached(watchers[i])' /\ CaughtUp(watchers[i], cursor - 1)'
                 /\ i \notin Todo' => CaughtUp(watchers[i], cursor)'
      <4>1. i \in DOMAIN watchers /\ UNCHANGED <<hist, revision, cursor>>
        BY <1>2, <2>2
      <4>2. Reached(watchers[i])'
        <5>1. Reached(watchers'[i])
          BY <3>5, <4>1
        <5> QED BY <4>1, <5>1 DEF Reached
      <4>3. CaughtUp(watchers[i], cursor - 1)'
        BY <3>5, <4>1 DEF CaughtUp, Ahead
      <4>4. i \notin Todo' => CaughtUp(watchers[i], cursor)'
        BY <3>5, <4>1 DEF CaughtUp, Ahead
      <4> QED
        BY <4>2, <4>3, <4>4
    <3> QED
      BY <1>1, <1>2, <1>3, <3>6 DEF Positioned
  <2>5. events \in SUBSET Event
    BY DEF TypeOK
  <2>6. /\ Delivered(id)' = Delivered(id) \cup events
        /\ \A j \in DOMAIN sent \ {id} : Delivered(j)' = Delivered(j)
    <3>1. CASE events = {}
      BY <2>1, <3>1 DEF Delivered
    <3>2. CASE events # {}
      <4> HIDE DEF r, events
      <4> QED BY <1>1, <1>2, <1>8, <2>5, <3>2, RespondDelivers
    <3> QED
      BY <3>1, <3>2
  <2>7. Gapless'
    <3>1. Delivered(id) = {e \in hist : wants(w, e) /\ e.rev > w.start /\ e.rev <= w.last}
      BY <1>1, <1>4 DEF Gapless
    <3>2. Delivered(id)' = {e \in hist : wants(w, e) /\ e.rev > w.start /\ e.rev <= r}
      BY <1>1, <1>6, <1>8, <2>3, <2>6, <3>1 DEF wants, Ahead
    <3>3. [w EXCEPT !.last = r].range = w.range /\ [w EXCEPT !.last = r].last = r
          /\ [w EXCEPT !.last = r].start = w.start /\ [w EXCEPT !.last = r].kinds = w.kinds
      BY <1>1 DEF Watcher
    <3>4. Delivered(id)' = {e \in hist' : wants(Position(id)', e)
                            /\ e.rev > Position(id)'.start /\ e.rev <= Position(id)'.last}
      BY <1>2, <1>4, <2>2, <3>2, <3>3 DEF wants
    <3>5. ASSUME NEW i \in Following, i # id
          PROVE  Delivered(i)' = {e \in hist' : wants(Position(i)', e)
                            /\ e.rev > Position(i)'.start /\ e.rev <= Position(i)'.last}
      BY <1>2, <1>4, <2>2, <2>6, <3>5, FollowingTypes DEF Gapless
    <3> QED
      BY <1>4, <2>2, <3>4, <3>5 DEF Gapless
  <2>8. Acknowledged' /\ InOrder'
    <3>1. \A i \in DOMAIN sent[id] : sent[id][i].rev \in Nat /\ sent[id][i].rev < r
      BY <1>1, <1>4, <1>8, ResponsesTyped DEF Acknowledged
    <3>2. /\ InOrder' /\ \A i \in DOMAIN sent'[id] : sent'[id][i].rev <= r
          /\ \A j \in DOMAIN sent \ {id} : sent'[j] = sent[j]
      <4>1. CASE UNCHANGED sent
        BY <1>1, <3>1, <4>1 DEF InOrder
      <4>2. CASE Respond(id, r, events)
        <5> HIDE DEF r, events
        <5> QED BY <1>1, <2>5, <3>1, <4>2, RespondInOrder, RespondAppends
      <4> QED
        BY <2>1, <4>1, <4>2
    <3>3. Position(id)'.last = r
      BY <1>1, <1>4, <2>2 DEF Watcher
    <3>4. \A i \in Following \ {id} : sent'[i] = sent[i]
      BY <3>2, FollowingTypes
    <3> QED
      BY <1>4, <2>2, <3>2, <3>3, <3>4 DEF Acknowledged
  <2> QED
    BY <1>5, <2>4, <2>7, <2>8
<1> QED
  BY <1>1, <1>7, <1>8

(* A watcher whose position is compacted leaves; any other is sent what the *)
(* store holds above its position, which is all of it.                      *)
LEMMA ResyncInv ==
    ASSUME IInv, TypeOK', NEW id \in Ids, resync(id)
    PROVE  IInv'
<1> DEFINE w == watchers[id]
<1>1. /\ task.at = "resync" /\ task \in ResyncTask /\ id \in task.todo /\ id \in DOMAIN watchers
      /\ w \in Watcher /\ TypeOK
      /\ UNCHANGED <<hist, log, revision, compact_revision, cursor, sent>>
  BY TaskShapes DEF IInv, TypeOK, resync, ResyncTask, storeVars, logVars
<1>2. CASE w.last < compact_revision
  <2>1. /\ watchers' = Restrict(watchers, DOMAIN watchers \ {id})
        /\ task' = Resync(task.todo \ {id}, task.progress)
    BY <1>2 DEF resync
  <2> QED
    BY <1>1, <2>1, DropInv
<1>3. CASE ~(w.last < compact_revision)
  <2>1. /\ UNCHANGED watchers
        /\ task' = Sending(id, w, w.last, revision, task.todo \ {id}, task.progress)
    BY <1>3 DEF resync
  <2>2. /\ task'.at = "send" /\ task'.id = id /\ task'.upto = revision
        /\ task'.todo = task.todo \ {id} /\ task'.watcher = w
        /\ task'.pending = events_since(w.last, w)
    BY <2>1 DEF Sending
  <2>3. events_since(w.last, w) = Ahead(w)
    BY <1>1, <1>3 DEF events_since, Ahead, TypeOK, Event, Watcher
  <2>4. revision \in Nat /\ revision # 0 /\ cursor <= revision
    BY <1>1 DEF TypeOK
  <2>5. Reached(w)
    BY <1>1 DEF IInv, Positioned
  <2>6. SendingAll' /\ Creating'
    <3>1. Ahead(task.watcher)' = Ahead(w) /\ task'.pending = Ahead(w)
      BY <1>1, <2>2, <2>3 DEF Ahead
    <3>2. Creating'
      BY <2>2 DEF Creating
    <3>3. /\ task'.upto = revision /\ revision' = revision /\ cursor' = cursor
          /\ task'.id = id /\ id \notin task'.todo /\ id \in DOMAIN watchers'
      BY <1>1, <2>1, <2>2
    <3> HIDE DEF w
    <3>4. SendingAll'
      BY <2>4, <3>1, <3>3 DEF SendingAll
    <3> QED
      BY <3>2, <3>4
  <2>7. Positioned'
    BY <1>1, <2>1, <2>2, <2>5 DEF IInv, Positioned, CaughtUp, Ahead, Reached, Todo
  <2>8. /\ Following = DOMAIN watchers /\ Following' = DOMAIN watchers
        /\ \A i : Position(i) = watchers[i] /\ Position(i)' = watchers[i]
    BY <1>1, <2>1, <2>2 DEF Following, Position
  <2>9. Gapless' /\ Acknowledged' /\ InOrder'
    BY <1>1, <2>8 DEF IInv, Gapless, Acknowledged, InOrder, Delivered
  <2> QED
    BY <1>1, <2>6, <2>7, <2>9 DEF IInv
<1> QED
  BY <1>2, <1>3

(* A progress response carries no event and no revision a watcher of the    *)
(* stream has not reached.                                                  *)
LEMMA AcknowledgeKeeps ==
    ASSUME NEW s \in Seq(Response), NEW r \in Nat
    PROVE  /\ DOMAIN s \subseteq DOMAIN Acknowledge(s, r)
           /\ \A i \in DOMAIN s : Acknowledge(s, r)[i].events = s[i].events
           /\ \A i \in DOMAIN Acknowledge(s, r) :
                 i \notin DOMAIN s => Acknowledge(s, r)[i].events = {}
           /\ \A i \in DOMAIN Acknowledge(s, r) :
                 Acknowledge(s, r)[i].events # {}
                    => i \in DOMAIN s /\ \A j \in 1 .. i : Acknowledge(s, r)[j] = s[j]
           /\ \A i \in DOMAIN Acknowledge(s, r) :
                 \/ Acknowledge(s, r)[i].rev = r
                 \/ i \in DOMAIN s /\ Acknowledge(s, r)[i].rev = s[i].rev
<1> DEFINE n == Len(s)
<1>1. n \in Nat /\ DOMAIN s = 1 .. n /\ \A i \in 1 .. n : s[i] \in Response
  OBVIOUS
<1>2. CASE n > 0 /\ s[n].events = {}
  <2>1. Acknowledge(s, r) = [s EXCEPT ![n] = [s[n] EXCEPT !.rev = Max2(@, r)]]
    BY <1>2 DEF Acknowledge
  <2>2. /\ DOMAIN Acknowledge(s, r) = 1 .. n
        /\ \A i \in 1 .. n - 1 : Acknowledge(s, r)[i] = s[i]
        /\ Acknowledge(s, r)[n].rev = Max2(s[n].rev, r)
        /\ Acknowledge(s, r)[n].events = {}
    BY <1>1, <1>2, <2>1 DEF Response
  <2>3. Max2(s[n].rev, r) \in {s[n].rev, r}
    BY DEF Max2
  <2> HIDE DEF n
  <2>4. ASSUME NEW i \in 1 .. n PROVE Acknowledge(s, r)[i].events = s[i].events
    <3>1. CASE i = n
      BY <1>2, <2>2, <3>1
    <3>2. CASE i \in 1 .. n - 1
      BY <2>2, <3>2
    <3> QED
      BY <1>1, <3>1, <3>2
  <2>5. ASSUME NEW i \in 1 .. n, Acknowledge(s, r)[i].events # {}
        PROVE  \A j \in 1 .. i : Acknowledge(s, r)[j] = s[j]
    <3>1. i \in 1 .. n - 1
      BY <1>1, <1>2, <2>2, <2>5
    <3> QED
      BY <1>1, <2>2, <3>1
  <2>6. \A i \in 1 .. n : Acknowledge(s, r)[i].rev \in {r, s[i].rev}
    BY <1>1, <1>2, <2>2, <2>3
  <2> QED
    BY <1>1, <2>2, <2>4, <2>5, <2>6
<1>3. CASE ~(n > 0 /\ s[n].events = {})
  <2>1. Acknowledge(s, r) = Append(s, [rev |-> r, events |-> {}])
    BY <1>3 DEF Acknowledge
  <2>2. [rev |-> r, events |-> {}] \in Response
    BY DEF Response
  <2>3. /\ DOMAIN Acknowledge(s, r) = 1 .. n + 1
        /\ \A i \in 1 .. n : Acknowledge(s, r)[i] = s[i]
        /\ Acknowledge(s, r)[n + 1] = [rev |-> r, events |-> {}]
    BY <1>1, <2>1, <2>2
  <2> QED
    BY <1>1, <2>3
<1> QED
  BY <1>2, <1>3

LEMMA ResyncDoneInv ==
    ASSUME IInv, TypeOK', resync_done
    PROVE  IInv'
<1> DEFINE min == Oldest({watchers[i].last : i \in DOMAIN watchers})
<1>1. /\ task.at = "resync" /\ task'.at = "select" /\ Todo = {} /\ TypeOK
      /\ UNCHANGED <<hist, revision, cursor, watchers>>
  BY DEF IInv, resync_done, Select, Todo, storeVars, logVars
<1>2. /\ DOMAIN sent' = DOMAIN sent
      /\ \A id \in DOMAIN sent :
            \/ sent'[id] = sent[id]
            \/ id \in DOMAIN watchers /\ sent'[id] = Acknowledge(sent[id], min)
  <2>1. sent' = IF task.progress
                THEN [i \in DOMAIN sent |-> IF i \in DOMAIN watchers
                         THEN Acknowledge(sent[i], min) ELSE sent[i]]
                ELSE sent
    BY DEF resync_done
  <2> HIDE DEF min
  <2> QED
    BY <2>1
<1>3. /\ Following = DOMAIN watchers /\ Following' = DOMAIN watchers
      /\ \A id : Position(id) = watchers[id] /\ Position(id)' = watchers[id]
  BY <1>1 DEF Following, Position
<1>4. ASSUME NEW id \in DOMAIN watchers
      PROVE  min \in Nat /\ min <= watchers[id].last /\ id \in DOMAIN sent /\ sent[id] \in Seq(Response)
  BY <1>1, <1>4, MinPosition DEF TypeOK
<1> HIDE DEF min
<1>5. ASSUME NEW id \in DOMAIN watchers
      PROVE  \A i \in DOMAIN sent'[id] : sent'[id][i].rev <= watchers[id].last
  <2>1. \A i \in DOMAIN sent[id] : sent[id][i].rev <= watchers[id].last
    BY <1>3 DEF IInv, Acknowledged
  <2>2. CASE sent'[id] = Acknowledge(sent[id], min)
    BY <1>4, <2>1, <2>2, AcknowledgeKeeps
  <2> QED
    BY <1>2, <1>4, <2>1, <2>2
<1>6. ASSUME NEW id \in DOMAIN sent
      PROVE  Delivered(id)' = Delivered(id)
  <2>1. CASE sent'[id] = sent[id]
    BY <2>1 DEF Delivered
  <2>2. CASE id \in DOMAIN watchers /\ sent'[id] = Acknowledge(sent[id], min)
    <3>1. /\ DOMAIN sent[id] \subseteq DOMAIN sent'[id]
          /\ \A i \in DOMAIN sent[id] : sent'[id][i].events = sent[id][i].events
          /\ \A i \in DOMAIN sent'[id] : i \notin DOMAIN sent[id] => sent'[id][i].events = {}
      BY <1>4, <2>2, AcknowledgeKeeps
    <3>2. ASSUME NEW e PROVE e \in Delivered(id)' <=> e \in Delivered(id)
      <4>1. e \in Delivered(id)' <=> \E i \in DOMAIN sent'[id] : e \in sent'[id][i].events
        BY DEF Delivered
      <4>2. e \in Delivered(id) <=> \E i \in DOMAIN sent[id] : e \in sent[id][i].events
        BY DEF Delivered
      <4> QED
        BY <3>1, <4>1, <4>2
    <3> QED
      BY <3>2
  <2> QED
    BY <1>2, <2>1, <2>2
<1>7. ASSUME NEW id \in DOMAIN sent', NEW i \in DOMAIN sent'[id], NEW j \in DOMAIN sent'[id],
             i < j, sent'[id][j].events # {}
      PROVE  sent'[id][i].rev < sent'[id][j].rev
  <2>1. CASE sent'[id] = sent[id]
    BY <1>2, <1>7, <2>1 DEF IInv, InOrder
  <2>2. CASE id \in DOMAIN watchers /\ sent'[id] = Acknowledge(sent[id], min)
    <3>1. j \in DOMAIN sent[id] /\ \A k \in 1 .. j : sent'[id][k] = sent[id][k]
      BY <1>4, <1>7, <2>2, AcknowledgeKeeps
    <3>2. i \in 1 .. j /\ j \in 1 .. j /\ i \in DOMAIN sent[id]
      <4>1. sent'[id] \in Seq(Response) /\ sent[id] \in Seq(Response)
        BY <1>1, <1>2 DEF TypeOK
      <4> QED
        BY <1>7, <3>1, <4>1
    <3>3. sent'[id][i] = sent[id][i] /\ sent'[id][j] = sent[id][j]
      BY <3>1, <3>2
    <3> QED
      BY <1>2, <1>7, <3>1, <3>2, <3>3 DEF IInv, InOrder
  <2> QED
    BY <1>2, <2>1, <2>2
<1>8. Creating' /\ SendingAll' /\ Positioned'
  BY <1>1 DEF IInv, Creating, SendingAll, Positioned, CaughtUp, Ahead, Reached, Todo
<1>9. Gapless'
  BY <1>1, <1>3, <1>4, <1>6 DEF IInv, Gapless
<1>10. Acknowledged' /\ InOrder'
  BY <1>3, <1>5, <1>7 DEF Acknowledged, InOrder
<1> QED
  BY <1>8, <1>9, <1>10 DEF IInv

LEMMA InvNext == IInv /\ [Next]_watchVars => IInv'
<1> SUFFICES ASSUME IInv, [Next]_watchVars PROVE IInv'
  OBVIOUS
<1>1. TypeOK'
  BY TypeNext DEF IInv
<1>2. CASE StoreNext
  BY <1>1, <1>2, ApplyInv, CompactInv DEF StoreNext
<1>3. ASSUME NEW id \in Ids, cancel_watch(id) PROVE IInv'
  BY <1>1, <1>3, DropInv DEF cancel_watch, storeVars, logVars
<1>4. CASE progress_request
  BY <1>1, <1>4, IdleInv DEF progress_request, storeVars, logVars, Select, Todo
<1>5. CASE Client
  BY <1>1, <1>3, <1>4, <1>5, CreateWatchInv DEF Client
<1>6. CASE dispatch_done
  BY <1>1, <1>6, IdleInv DEF dispatch_done, storeVars, logVars, Todo
<1>7. CASE Task
  BY <1>1, <1>6, <1>7, CreateReplayInv, SendGroupInv, SendDoneInv, RecvInv, RecvLaggedInv,
     DispatchInv, ResyncInv, ResyncDoneInv DEF Task
<1>8. CASE UNCHANGED watchVars
  BY <1>1, <1>8 DEF watchVars, storeVars, logVars, streamVars, IInv, Creating, SendingAll,
     Positioned, Gapless, Acknowledged, InOrder, Following, Position, Delivered, Ahead, CaughtUp,
     Reached, Todo
<1> QED
  BY <1>2, <1>5, <1>7, <1>8 DEF Next

-----------------------------------------------------------------------------
(***************************************************************************)
(* The theorems.                                                           *)
(***************************************************************************)

(* The state of a stream, its hub and its store keep their shape.           *)
THEOREM TypeCorrect == Spec => []TypeOK
<1> QED
  BY TypeInit, TypeNext, PTL DEF Spec

LEMMA InvariantHolds == Spec => []IInv
<1> QED
  BY InitInv, InvNext, PTL DEF Spec

(* "A watcher must never silently miss an event" (watch.rs): at every       *)
(* moment each watcher has been sent exactly the events it wants between    *)
(* its start and its position.                                              *)
THEOREM WatchIsGapless == Spec => []Gapless
<1>1. IInv => Gapless
  BY DEF IInv
<1> QED
  BY <1>1, InvariantHolds, PTL

(* A response is an atomic revision: none repeats, splits or goes back.     *)
THEOREM WatchIsInOrder == Spec => []InOrder
<1>1. IInv => InOrder
  BY DEF IInv
<1> QED
  BY <1>1, InvariantHolds, PTL

(* Between events, nothing the subscription has received or lost to the     *)
(* hub's capacity is missing from what a watcher was sent.                  *)
THEOREM WatchSkipsNothing == Spec => []NothingSkipped
<1>1. IInv => NothingSkipped
  <2> SUFFICES ASSUME IInv, task = Select, NEW id \in DOMAIN watchers, NEW e \in hist,
                      wants(watchers[id], e), e.rev \in watchers[id].start + 1 .. cursor
               PROVE  e \in Delivered(id)
    BY DEF NothingSkipped
  <2>1. id \in Following /\ Position(id) = watchers[id] /\ Todo = {} /\ task.at = "select"
    BY DEF Following, Position, Select, Todo
  <2>2. CaughtUp(watchers[id], cursor)
    BY <2>1 DEF IInv, Positioned
  <2>3. watchers[id].last \in Nat /\ cursor \in Nat /\ e.rev \in Nat /\ watchers[id].start \in Nat
    BY DEF IInv, TypeOK, Watcher, Event
  <2>4. e.rev <= watchers[id].last
    BY <2>2, <2>3 DEF CaughtUp, Ahead, wants
  <2> QED
    BY <2>1, <2>3, <2>4 DEF IInv, Gapless
<1> QED
  BY <1>1, InvariantHolds, PTL
=============================================================================
