-------------------------------- MODULE Watch --------------------------------
(***************************************************************************)
(* One Watch stream of nodestore: the task of server/watch.rs, its one     *)
(* subscription to the WatchHub of watch.rs, and the watchers the client   *)
(* multiplexes on it, over a store that other tasks write and compact at   *)
(* any time.  Every `.await` of the task is a place where the store moves. *)
(*                                                                         *)
(* The store is the EventLog that module Store implements.  The response   *)
(* channel is what `sent` records; a client that does not drain it stops   *)
(* the task at its next send, which is the task taking no step.            *)
(***************************************************************************)
EXTENDS EventLog, FiniteSets, Functions, Sequences

CONSTANTS
    Ids,          \* watch ids a client uses, each once
    Requests,     \* the watches it may create: ranges, filters and starts
    Writes,       \* what one command may write: sequences of [key, delete]
    Capacity,     \* the hub's buffer, in batches
    MaxRevision   \* bound: the last revision written

VARIABLES
    hist,         \* history: every event ever written
    hub,          \* revisions whose batch the hub still holds
    overwritten,  \* the last revision the hub has overwritten
    cursor,       \* the last revision the stream's subscription has received
    watchers,     \* the live watchers, by id
    task,         \* where the stream's task is
    sent          \* what the client has been sent for each id, in order

storeVars  == <<logVars, hist, hub, overwritten>>
streamVars == <<cursor, watchers, task, sent>>
watchVars  == <<storeVars, streamVars>>

(* filter_put and filter_delete, as the kinds of event that get through.    *)
Request == [range : SUBSET Keys, kinds : SUBSET BOOLEAN, start_revision : Nat]

ASSUME RequestsAreTyped == Requests \subseteq Request
ASSUME CapacityIsPositive == Capacity \in Nat \ {0}
ASSUME MaxRevisionIsNat == MaxRevision \in Nat
ASSUME WritesAreTyped == Writes \subseteq Seq([key : Keys, delete : BOOLEAN]) \ {<<>>}

wants(w, e) == e.key \in w.range /\ e.delete \in w.kinds

Max2(a, b) == IF a > b THEN a ELSE b

(***************************************************************************)
(* The store: Node::apply_committed writes and publishes under one lock.   *)
(***************************************************************************)

BatchOf(write, r) ==
    {[rev |-> r, sub |-> i - 1, key |-> write[i].key, delete |-> write[i].delete] :
        i \in DOMAIN write}

Oldest(revs) == CHOOSE r \in revs : \A s \in revs : r <= s

publish_forgetting(r) ==      \* variant: an overwritten batch leaves no trace
    IF Cardinality(hub) < Capacity
    THEN hub' = hub \cup {r} /\ UNCHANGED overwritten
    ELSE hub' = (hub \ {Oldest(hub)}) \cup {r} /\ UNCHANGED overwritten

(* WatchHub::publish: never waits; a full buffer loses its oldest batch.    *)
publish(r) ==
    IF Cardinality(hub) < Capacity
    THEN hub' = hub \cup {r} /\ UNCHANGED overwritten
    ELSE /\ hub' = (hub \ {Oldest(hub)}) \cup {r}
         /\ overwritten' = Oldest(hub)

Apply(write) ==
    /\ revision < MaxRevision
    /\ WriteBatch(BatchOf(write, revision + 1))
    /\ hist' = hist \cup BatchOf(write, revision + 1)
    /\ publish(revision + 1)
    /\ UNCHANGED streamVars

CompactStore(r) ==
    /\ Compact(r)
    /\ UNCHANGED <<hist, hub, overwritten, streamVars>>

(* Store::events_since, which answers only when `since` is not compacted.   *)
events_since(since, w) == {e \in log : e.rev > since /\ e.key \in w.range}

(***************************************************************************)
(* The stream's task.                                                      *)
(***************************************************************************)

Select == [at |-> "select"]

Respond(id, r, events) ==
    sent' = [sent EXCEPT ![id] = Append(@, [rev |-> r, events |-> events])]

(* create_watch up to the created response: the position is taken from a    *)
(* first read of the store, before the await.                               *)
create_watch(id, req) ==
    /\ task = Select
    /\ id \in Ids \ DOMAIN sent
    /\ LET start == IF req.start_revision <= 0 THEN revision ELSE req.start_revision - 1
       IN  task' = [at |-> "create", id |-> id, replay |-> req.start_revision > 0,
                    watcher |-> [range |-> req.range, kinds |-> req.kinds,
                                 start |-> start, last |-> start]]
    /\ sent' = [i \in DOMAIN sent \cup {id} |-> IF i = id THEN <<>> ELSE sent[i]]
    /\ UNCHANGED <<storeVars, cursor, watchers>>

(* create_watch from the second read on: no replay asked for, a start that  *)
(* has been compacted, or a history to send.                                *)
Sending(id, w, from, upto, todo, progress) ==
    [at |-> "send", id |-> id, watcher |-> w, pending |-> events_since(from, w),
     upto |-> upto, todo |-> todo, progress |-> progress]

create_at_join ==      \* variant: a watch from now starts where it joins
    /\ task.at = "create"
    /\ ~task.replay
    /\ watchers' = [i \in DOMAIN watchers \cup {task.id} |->
                      IF i = task.id THEN [task.watcher EXCEPT !.last = revision] ELSE watchers[i]]
    /\ task' = Select
    /\ UNCHANGED <<storeVars, cursor, sent>>

create_replay ==
    /\ task.at = "create"
    /\ LET id == task.id
           w  == task.watcher
       IN  \/ /\ ~task.replay
              /\ watchers' = [i \in DOMAIN watchers \cup {id} |->
                                IF i = id THEN w ELSE watchers[i]]
              /\ task' = Select
           \/ /\ task.replay
              /\ w.last < compact_revision
              /\ task' = Select
              /\ UNCHANGED watchers
           \/ /\ task.replay
              /\ w.last >= compact_revision
              /\ task' = Sending(id, w, w.last, 0, {}, FALSE)
              /\ UNCHANGED watchers
    /\ UNCHANGED <<storeVars, cursor, sent>>

(* send_events, one revision at a time: one response holds a revision's     *)
(* wanted events, and the position moves past unwanted ones too.            *)
send_group ==
    /\ task.at = "send"
    /\ task.pending # {}
    /\ LET r      == Oldest({e.rev : e \in task.pending})
           group  == {e \in task.pending : e.rev = r}
           wanted == {e \in group : wants(task.watcher, e)}
       IN  /\ task' = [task EXCEPT !.pending = @ \ group,
                                   !.watcher.last = Max2(@, r)]
           /\ IF wanted = {} THEN UNCHANGED sent ELSE Respond(task.id, r, wanted)
    /\ UNCHANGED <<storeVars, cursor, watchers>>

Resync(todo, progress) == [at |-> "resync", todo |-> todo, progress |-> progress]

(* The end of a replay: a created watcher joins, a resynced one is caught   *)
(* up to the revision its history was read at.                              *)
send_done ==
    /\ task.at = "send"
    /\ task.pending = {}
    /\ LET w == [task.watcher EXCEPT !.last = Max2(@, task.upto)]
       IN  watchers' = [i \in DOMAIN watchers \cup {task.id} |->
                            IF i = task.id THEN w ELSE watchers[i]]
    /\ task' = IF task.upto = 0 THEN Select ELSE Resync(task.todo, task.progress)
    /\ UNCHANGED <<storeVars, cursor, sent>>

cancel_watch(id) ==
    /\ task = Select
    /\ id \in DOMAIN watchers
    /\ watchers' = Restrict(watchers, DOMAIN watchers \ {id})
    /\ UNCHANGED <<storeVars, cursor, task, sent>>

(* events.recv(): the oldest batch not yet received. *)
recv ==
    /\ task = Select
    /\ cursor >= overwritten
    /\ \E r \in hub :
        /\ r > cursor
        /\ \A s \in hub : s > cursor => r <= s
        /\ cursor' = r
        /\ task' = [at |-> "dispatch", rev |-> r, todo |-> DOMAIN watchers]
    /\ UNCHANGED <<storeVars, watchers, sent>>

recv_lagged_ignored ==      \* variant: lag is skipped over
    /\ task = Select
    /\ cursor < overwritten
    /\ cursor' = overwritten
    /\ UNCHANGED <<storeVars, watchers, task, sent>>

(* RecvError::Lagged: the subscription skips to the oldest batch held.      *)
recv_lagged ==
    /\ task = Select
    /\ cursor < overwritten
    /\ cursor' = overwritten
    /\ task' = Resync(DOMAIN watchers, FALSE)
    /\ UNCHANGED <<storeVars, watchers, sent>>

dispatch(id) ==
    /\ task.at = "dispatch"
    /\ id \in task.todo
    /\ task' = [task EXCEPT !.todo = @ \ {id}]
    /\ LET w      == watchers[id]
           events == {e \in hist : e.rev = task.rev /\ wants(w, e)}
       IN  IF task.rev <= w.last
           THEN UNCHANGED <<watchers, sent>>
           ELSE /\ watchers' = [watchers EXCEPT ![id].last = task.rev]
                /\ IF events = {} THEN UNCHANGED sent ELSE Respond(id, task.rev, events)
    /\ UNCHANGED <<storeVars, cursor>>

dispatch_done ==
    /\ task.at = "dispatch"
    /\ task.todo = {}
    /\ task' = Select
    /\ UNCHANGED <<storeVars, cursor, watchers, sent>>

progress_request ==
    /\ task = Select
    /\ task' = Resync(DOMAIN watchers, TRUE)
    /\ UNCHANGED <<storeVars, cursor, watchers, sent>>

(* One watcher of resync: history and revision come from one locked read.   *)
resync(id) ==
    /\ task.at = "resync"
    /\ id \in task.todo
    /\ LET w    == watchers[id]
           rest == task.todo \ {id}
       IN  IF w.last < compact_revision
           THEN /\ watchers' = Restrict(watchers, DOMAIN watchers \ {id})
                /\ task' = Resync(rest, task.progress)
           ELSE /\ task' = Sending(id, w, w.last, revision, rest, task.progress)
                /\ UNCHANGED watchers
    /\ UNCHANGED <<storeVars, cursor, sent>>

(* A progress response, kept as one with the progress response before it.   *)
Acknowledge(responses, r) ==
    LET n == Len(responses)
    IN  IF n > 0 /\ responses[n].events = {}
        THEN [responses EXCEPT ![n].rev = Max2(@, r)]
        ELSE Append(responses, [rev |-> r, events |-> {}])

resync_done_at_revision ==      \* variant: progress is the store's, not the watchers'
    /\ task.at = "resync"
    /\ task.todo = {}
    /\ sent' = IF task.progress
               THEN [i \in DOMAIN sent |-> IF i \in DOMAIN watchers
                        THEN Acknowledge(sent[i], revision) ELSE sent[i]]
               ELSE sent
    /\ task' = Select
    /\ UNCHANGED <<storeVars, cursor, watchers>>

(* It goes to the whole stream, at the lowest position any of its watchers  *)
(* has reached.                                                             *)
resync_done ==
    /\ task.at = "resync"
    /\ task.todo = {}
    /\ LET min == Oldest({watchers[i].last : i \in DOMAIN watchers})
       IN  sent' = IF task.progress
                   THEN [i \in DOMAIN sent |-> IF i \in DOMAIN watchers
                            THEN Acknowledge(sent[i], min) ELSE sent[i]]
                   ELSE sent
    /\ task' = Select
    /\ UNCHANGED <<storeVars, cursor, watchers>>

Init ==
    /\ LogInit
    /\ hist = {}
    /\ hub = {}
    /\ overwritten = 1
    /\ cursor = 1
    /\ watchers = <<>>
    /\ task = Select
    /\ sent = <<>>

StoreNext ==
    \/ \E write \in Writes : Apply(write)
    \/ \E r \in compact_revision + 1 .. revision : CompactStore(r)

Client ==
    \/ \E id \in Ids, req \in Requests : create_watch(id, req)
    \/ \E id \in Ids : cancel_watch(id)
    \/ progress_request

(* What the task does without being asked. *)
Task ==
    \/ create_replay
    \/ send_group
    \/ send_done
    \/ recv
    \/ recv_lagged
    \/ \E id \in Ids : dispatch(id)
    \/ dispatch_done
    \/ \E id \in Ids : resync(id)
    \/ resync_done

Next == StoreNext \/ Client \/ Task

Spec == Init /\ [][Next]_watchVars

(* tokio runs a task that can run; writers and clients owe nothing.         *)
FairSpec == Spec /\ WF_watchVars(Task)

-----------------------------------------------------------------------------
(***************************************************************************)
(* Properties.                                                             *)
(***************************************************************************)

Watcher == [range : SUBSET Keys, kinds : SUBSET BOOLEAN, start : Nat, last : Nat]

Response == [rev : Nat, events : SUBSET Event]

CreateTask == [at : {"create"}, id : DOMAIN sent, replay : BOOLEAN, watcher : Watcher]

SendTask == [at : {"send"}, id : DOMAIN sent, watcher : Watcher, pending : SUBSET Event,
             upto : Nat, todo : SUBSET DOMAIN watchers, progress : BOOLEAN]

DispatchTask == [at : {"dispatch"}, rev : Nat, todo : SUBSET DOMAIN watchers]

ResyncTask == [at : {"resync"}, todo : SUBSET DOMAIN watchers, progress : BOOLEAN]

(* The shape of the state; the hub holds one batch for each of the latest   *)
(* revisions, and the store the events above its compaction point.          *)
TypeOK ==
    /\ hist \subseteq Event
    /\ \A e \in hist : e.rev <= revision
    /\ log = {e \in hist : e.rev > compact_revision}
    /\ revision \in 1 .. MaxRevision + 1
    /\ compact_revision \in 0 .. revision
    /\ overwritten \in 1 .. revision
    /\ hub = overwritten + 1 .. revision
    /\ cursor \in 1 .. revision
    /\ watchers \in [DOMAIN watchers -> Watcher]
    /\ sent \in [DOMAIN sent -> Seq(Response)]
    /\ DOMAIN watchers \subseteq DOMAIN sent /\ DOMAIN sent \subseteq Ids
    /\ task \in {Select} \cup CreateTask \cup SendTask \cup DispatchTask \cup ResyncTask

(* The watcher of id as the task sees it: while its history is being sent,  *)
(* the task holds the moving position.                                      *)
Position(id) == IF task.at = "send" /\ task.id = id THEN task.watcher ELSE watchers[id]

Following == DOMAIN watchers \cup (IF task.at = "send" THEN {task.id} ELSE {})

Delivered(id) == UNION {sent[id][i].events : i \in DOMAIN sent[id]}

(* watch.rs, "A watcher must never silently miss an event": up to its       *)
(* position a watcher has been sent exactly the events it wants since its   *)
(* start - whatever was written between the two reads of create_watch,      *)
(* while a replay was being sent, or while the stream was lagging.          *)
Gapless ==
    \A id \in Following :
        Delivered(id) = {e \in hist : /\ wants(Position(id), e)
                                      /\ e.rev > Position(id).start
                                      /\ e.rev <= Position(id).last}

(* "etcd delivers one response per revision and a client is entitled to     *)
(* treat a response as an atomic set of changes": no response repeats,      *)
(* splits or reorders a revision, and none follows a progress response that *)
(* had acknowledged its revision.                                           *)
InOrder ==
    \A id \in DOMAIN sent : \A i, j \in DOMAIN sent[id] :
        i < j /\ sent[id][j].events # {} => sent[id][i].rev < sent[id][j].rev

(* What is still missing is what the hub will hand over: between events, a  *)
(* watcher has all it wants up to the last batch the subscription received, *)
(* the batches that were overwritten before it received them included.      *)
NothingSkipped ==
    task = Select =>
        \A id \in DOMAIN watchers : \A e \in hist :
            wants(watchers[id], e) /\ e.rev \in watchers[id].start + 1 .. cursor
                => e \in Delivered(id)

(* Every event a live watcher wants is delivered in the end, unless its     *)
(* watch is cancelled: by the client, or because it was compacted away.     *)
Wanted(id, r) ==
    /\ id \in DOMAIN watchers
    /\ \E e \in hist : e.rev = r /\ wants(watchers[id], e) /\ r > watchers[id].start

EventuallyDelivered ==
    \A id \in Ids, r \in 2 .. MaxRevision :
        Wanted(id, r) ~> (id \notin Following
                          \/ \E i \in DOMAIN sent[id] : sent[id][i].rev = r)
=============================================================================
