----------------------------- MODULE Scheduler -----------------------------
(***************************************************************************)
(* node-scheduler: the scheduling queue, the cache with its assumed pods,  *)
(* the scheduling loop, the binding cycles and the pod and node watches,   *)
(* against the API server they all talk to.                                *)
(*                                                                         *)
(* The tasks run in parallel (a multi-threaded tokio runtime) and share    *)
(* the queue, the cache and the assume set behind three mutexes.  Each     *)
(* action below is one region under one mutex; todo[t] holds the regions   *)
(* task t has still to run in the handler it is in, so that every other    *)
(* task may come between two of them.                                      *)
(***************************************************************************)
EXTENDS Integers, Sequences, FiniteSets, SequencesExt

CONSTANTS
    Pods, Nodes,
    Capacity,        \* pods a node has room for (the Fit plugin's sum)
    Binders,         \* slots for the binding cycles, one task each
    Starts,          \* the clusters to start from: the pods, the faults (each
                     \* once) the environment may commit there, and how many
                     \* status patches write
    None

States == {"none", "pending", "bound", "terminating", "gone"}
Faults == {"error", "lost", "reject", "relist", "edit", "flap", "finalizer"}
Pod    == [state : States, gated : BOOLEAN, node : Nodes \cup {None}]

PodInfo == [uid : Pods, gated : BOOLEAN]
Plugins == {"NodeResourcesFit", "VolumeBinding"}
Entry   == [pod : PodInfo, plugins : SUBSET Plugins]
Version == [gated : BOOLEAN, node : Nodes \cup {None}]   \* what the mirror keeps

ASSUME CapacityAssumption == Capacity \in [Nodes -> Nat]
ASSUME FiniteAssumption == IsFiniteSet(Pods) /\ IsFiniteSet(Nodes)
ASSUME NamesAssumption ==
    /\ None \notin Pods \cup Nodes /\ None \notin Entry \cup Version
    /\ Binders \cap {"watch", "loop", "net"} = {}
ASSUME StartsAssumption == \A s \in Starts :
    /\ s.api \in [Pods -> Pod] /\ s.faults \subseteq Faults /\ s.patches \in Nat
    /\ \A p \in Pods : (s.api[p].state = "bound") <=> (s.api[p].node # None)

VARIABLES
    api,             \* the pods in the API server
    api_nodes,       \* the nodes in the API server
    pod_stream,      \* watch events on their way to the scheduler
    node_stream,
    mirror,          \* Mirror::pods: the version of each pod last seen
    relisting,       \* RelistSweep::relisting
    seen,            \* RelistSweep::seen: the pods listed since its start
    active,          \* Inner::active
    unschedulable,   \* Inner::unschedulable: who rejected the pod
    backoff,         \* BackoffQueue: how often each pod is in it, for push
                     \* does not look for the pod
    in_flight,       \* Inner::in_flight: the marker and the events after it
    nodes,           \* Cache::nodes
    pod_locations,   \* Cache::pod_locations, and the totals it stands for
    assumed,         \* AssumedPods::by_uid
    todo,            \* the regions each task has still to run
    reports,         \* the reports of failed cycles under way for each pod,
                     \* each a task of its own
    patches,         \* how many more of them may write
    luck,            \* faults that may still come
    mishaps          \* ... that came; "dropped": the cache dropped a pod;
                     \* "requeued": an update found its pod in no queue, and
                     \* added it; "unlisted": a node was chosen before the
                     \* cache was told of a pod bound at the start

apiVars   == <<api, api_nodes, pod_stream, node_stream>>
watchVars == <<mirror, relisting, seen>>
queueVars == <<active, unschedulable, backoff, in_flight>>
cacheVars == <<nodes, pod_locations, assumed>>
reportVars == <<reports, patches>>
faultVars == <<reportVars, luck, mishaps>>
vars == <<apiVars, watchVars, queueVars, cacheVars, todo, faultVars>>

Tasks == {"watch", "loop", "net"} \cup Binders

-----------------------------------------------------------------------------
(* Data *)

Held       == {}          \* held_by_pre_enqueue: parked without a plugin

Of(p)      == [uid |-> p, gated |-> api[p].gated]
Uids(S)    == {pod.uid : pod \in S}
Without(S, p) == {pod \in S : pod.uid # p}

\* the backoff queue: its entries, its pods, what is left without p, how often
\* p is in it
Entries  == UNION {{pod} \X (1 .. backoff[pod]) : pod \in PodInfo}
Waiting  == Uids({pod \in PodInfo : backoff[pod] > 0})
Kept(p)  == [pod \in PodInfo |-> IF pod.uid = p THEN 0 ELSE backoff[pod]]
Times(p) == Cardinality({e \in Entries : e[1].uid = p})

\* the events each plugin registers for; PodBound and GateRemoved wake
\* neither of these two
Hints == [NodeResourcesFit |-> {"PodDeleted", "NodeAdded"},
          VolumeBinding    |-> {"VolumeChanged"}]

decide(plugins, event) == \E x \in plugins : event \in Hints[x]

pre_enqueue(pod) == ~pod.gated

Full_by_one_too_many(n) ==       \* variant: the last place is given twice
    Cardinality({p \in Pods : pod_locations[p] = n}) > Capacity[n]
Full(n)  == Cardinality({p \in Pods : pod_locations[p] = n}) >= Capacity[n]
Feasible == {n \in nodes : ~Full(n)}

\* the regions of a handler, in the order the handler runs them; a removal
\* goes on with the regions in `then'
add(pod)      == << [op |-> "add", pod |-> pod] >>
update(pod)   == << [op |-> "update", pod |-> pod] >>
dequeue(p, ops) == << [op |-> "remove", uid |-> p, then |-> ops] >>
remove(p)     == dequeue(p, << >>)
push(pod)     == << [op |-> "push_active", pod |-> pod] >>
retry(pod)    == << [op |-> "push_backoff", pod |-> pod] >>
return(pod)   == IF pre_enqueue(pod) THEN retry(pod) ELSE add(pod)
park(pod, ps) == << [op |-> "replay", pod |-> pod, plugins |-> ps] >>
move_all(ev)  == << [op |-> "record", event |-> ev],
                    [op |-> "sweep", event |-> ev] >>
forget(p)     == << [op |-> "forget", uid |-> p] >>
\* nobody reads the assume set, so its change is told with the region of
\* the cache that comes next to it
assume(p, n)  == << [op |-> "add_pod", uid |-> p, node |-> n, assumed |-> n] >>
confirm(p, n) == << [op |-> "add_pod", uid |-> p, node |-> n, assumed |-> None] >>
release_half(p) == forget(p)     \* variant: the node's totals keep the pod
\* forget and remove_pod
release(p)    == << [op |-> "remove_pod", uid |-> p] >>
done          == << [op |-> "done"] >>

\* what a handler of one region does to each member of S, one after another
InTurn(S, handler(_)) ==
    [i \in 1 .. Cardinality(S) |-> Head(handler(SetToSeq(S)[i]))]

-----------------------------------------------------------------------------
(* Steps of a task: todo[t] loses its first region, which may leave more    *)

At(t, op) == todo[t] # << >> /\ Head(todo[t]).op = op
Arg(t)    == Head(todo[t])
Goto(t, ops) == todo' = [todo EXCEPT ![t] = ops \o Tail(@)]
Begin(t, ops) == /\ todo[t] = << >>
                 /\ todo' = [todo EXCEPT ![t] = ops]

Mishap(kind) == /\ kind \in luck
                /\ luck' = luck \ {kind}
                /\ mishaps' = mishaps \cup {kind}

-----------------------------------------------------------------------------
(* SchedulingQueue *)

\* the lock region push_active, and the one add takes for a pod that
\* PreEnqueue holds
PushActive(pod) ==
    /\ active' = IF pod.uid \in Uids(active) THEN active
                                             ELSE active \cup {pod}
    /\ UNCHANGED <<unschedulable, backoff, in_flight>>

Park(pod, plugins) ==
    /\ unschedulable' = [unschedulable EXCEPT ![pod.uid] =
                            [pod |-> pod, plugins |-> plugins]]
    /\ UNCHANGED <<active, backoff, in_flight>>

Add(t) ==
    /\ At(t, "add")
    /\ LET pod == Arg(t).pod IN
         IF pre_enqueue(pod) THEN PushActive(pod) ELSE Park(pod, Held)
    /\ Goto(t, << >>)
    /\ UNCHANGED <<apiVars, watchVars, cacheVars, faultVars>>

Push(t) ==
    /\ At(t, "push_active")
    /\ PushActive(Arg(t).pod)
    /\ Goto(t, << >>)
    /\ UNCHANGED <<apiVars, watchVars, cacheVars, faultVars>>

\* replace the stored pod where it is; a pod that PreEnqueue held, and holds
\* no longer, leaves for the active queue in the next region
Update(t) ==
    /\ At(t, "update")
    /\ LET pod  == Arg(t).pod
           held == unschedulable[pod.uid] # None
                   /\ unschedulable[pod.uid].plugins = Held
       IN \/ /\ held /\ pre_enqueue(pod)
             /\ unschedulable' = [unschedulable EXCEPT ![pod.uid] = None]
             /\ Goto(t, push(pod))
             /\ UNCHANGED active
          \/ /\ unschedulable[pod.uid] # None
             /\ ~(held /\ pre_enqueue(pod))
             /\ unschedulable' = [unschedulable EXCEPT ![pod.uid].pod = pod]
             /\ Goto(t, << >>)
             /\ UNCHANGED active
          \/ /\ unschedulable[pod.uid] = None
             /\ pod.uid \in Uids(active)
             /\ active' = Without(active, pod.uid) \cup {pod}
             /\ Goto(t, << >>)
             /\ UNCHANGED unschedulable
          \/ /\ unschedulable[pod.uid] = None
             /\ pod.uid \notin Uids(active)
             /\ Goto(t, << [op |-> "update_backoff", pod |-> pod] >>)
             /\ UNCHANGED <<active, unschedulable>>
    /\ UNCHANGED <<backoff, in_flight, apiVars, watchVars, cacheVars, faultVars>>

UpdateBackoff(t) ==
    /\ At(t, "update_backoff")
    /\ LET pod == Arg(t).pod IN
         IF pod.uid \in Waiting
         THEN /\ backoff' = [Kept(pod.uid) EXCEPT ![pod] = Times(pod.uid)]
              /\ Goto(t, << >>)
              /\ UNCHANGED mishaps
         ELSE /\ Goto(t, add(pod))
              /\ mishaps' = mishaps \cup {"requeued"}
              /\ UNCHANGED backoff
    /\ UNCHANGED <<active, unschedulable, in_flight,
                   apiVars, watchVars, cacheVars, reportVars, luck>>

PushBackoff(t) ==
    /\ At(t, "push_backoff")
    /\ backoff' = [backoff EXCEPT ![Arg(t).pod] = @ + 1]
    /\ Goto(t, << >>)
    /\ UNCHANGED <<active, unschedulable, in_flight,
                   apiVars, watchVars, cacheVars, faultVars>>

\* pop: the loop first moves what has served its backoff ...
DrainExpiredBackoff ==
    /\ \E ready \in SUBSET Entries \ {{}} :
         /\ backoff' = [pod \in PodInfo |->
                 backoff[pod] - Cardinality({e \in ready : e[1] = pod})]
         /\ Begin("loop", InTurn(ready, LAMBDA e : push(e[1])))
    /\ UNCHANGED <<active, unschedulable, in_flight,
                   apiVars, watchVars, cacheVars, faultVars>>

\* ... and takes the first pod; QueueSort's order is left open
Pop(p) ==
    /\ \E pod \in active :
         /\ pod.uid = p
         /\ active' = active \ {pod}
         /\ Begin("loop", << [op |-> "cycle", pod |-> pod] >>)
    /\ in_flight' = [uid |-> p, events |-> {}]
    /\ UNCHANGED <<unschedulable, backoff, apiVars, watchVars, cacheVars, faultVars>>

Done ==
    /\ At("loop", "done")
    /\ in_flight' = None
    /\ Goto("loop", << >>)
    /\ UNCHANGED <<active, unschedulable, backoff,
                   apiVars, watchVars, cacheVars, faultVars>>

\* add_unschedulable, first region: what happened since the pod's marker
Replay(t) ==
    /\ At(t, "replay")
    /\ LET pod    == Arg(t).pod
           plugs  == Arg(t).plugins
           events == IF in_flight # None /\ in_flight.uid = pod.uid
                     THEN in_flight.events ELSE {}
       IN Goto(t, IF \E ev \in events : decide(plugs, ev)
                  THEN retry(pod)
                  ELSE << [op |-> "park", pod |-> pod, plugins |-> plugs] >>)
    /\ UNCHANGED <<queueVars, apiVars, watchVars, cacheVars, faultVars>>

\* ... second region
ParkRejected(t) ==
    /\ At(t, "park")
    /\ Park(Arg(t).pod, Arg(t).plugins)
    /\ Goto(t, << >>)
    /\ UNCHANGED <<apiVars, watchVars, cacheVars, faultVars>>

\* move_all_to_active_or_backoff, first region: note the event for the cycle
\* that is running
Record(t) ==
    /\ At(t, "record")
    /\ in_flight' = IF in_flight = None THEN None
                    ELSE [in_flight EXCEPT !.events = @ \cup {Arg(t).event}]
    /\ Goto(t, << >>)
    /\ UNCHANGED <<active, unschedulable, backoff,
                   apiVars, watchVars, cacheVars, faultVars>>

\* ... second region: take out every parked pod the event may help
Woken(event) == {p \in Pods : /\ unschedulable[p] # None
                              /\ decide(unschedulable[p].plugins, event)}

Sweep(t) ==
    /\ At(t, "sweep")
    /\ LET woken == Woken(Arg(t).event) IN
         /\ unschedulable' = [p \in Pods |-> IF p \in woken THEN None
                                                       ELSE unschedulable[p]]
         /\ Goto(t, InTurn(woken, LAMBDA p : return(unschedulable[p].pod)))
    /\ UNCHANGED <<active, backoff, in_flight,
                   apiVars, watchVars, cacheVars, faultVars>>

Dequeue(t) ==
    /\ At(t, "remove")
    /\ active' = Without(active, Arg(t).uid)
    /\ unschedulable' = [unschedulable EXCEPT ![Arg(t).uid] = None]
    /\ Goto(t, << [op |-> "remove_backoff", uid |-> Arg(t).uid] >> \o Arg(t).then)
    /\ UNCHANGED <<backoff, in_flight, apiVars, watchVars, cacheVars, faultVars>>

DequeueBackoff(t) ==
    /\ At(t, "remove_backoff")
    /\ backoff' = Kept(Arg(t).uid)
    /\ Goto(t, << >>)
    /\ UNCHANGED <<active, unschedulable, in_flight,
                   apiVars, watchVars, cacheVars, faultVars>>

\* the safety net: the pods that have been parked for five minutes
FlushTimedOut ==
    /\ \E expired \in SUBSET {p \in Pods : unschedulable[p] # None} \ {{}} :
         /\ unschedulable' = [p \in Pods |-> IF p \in expired THEN None
                                                         ELSE unschedulable[p]]
         /\ Begin("net", InTurn(expired, LAMBDA p : retry(unschedulable[p].pod)))
    /\ UNCHANGED <<active, backoff, in_flight,
                   apiVars, watchVars, cacheVars, faultVars>>

-----------------------------------------------------------------------------
(* Cache and AssumedPods *)

\* the reservation of a pod that was deleted before it was bound
Forget(t) ==
    /\ At(t, "forget")
    /\ assumed' = [assumed EXCEPT ![Arg(t).uid] = None]
    /\ Goto(t, << >>)
    /\ UNCHANGED <<nodes, pod_locations, queueVars, apiVars, watchVars, faultVars>>

\* a pod is released from the node it was on; on a node the cache has never
\* seen it is dropped, its old location left in the index
AddPod(t) ==
    /\ At(t, "add_pod")
    /\ LET p == Arg(t).uid
           n == Arg(t).node
       IN IF n \in nodes
          THEN /\ pod_locations' = [pod_locations EXCEPT ![p] = n]
               /\ UNCHANGED mishaps
          ELSE /\ pod_locations' = [pod_locations EXCEPT ![p] = None]
               /\ mishaps' = mishaps \cup {"dropped"}
    /\ assumed' = [assumed EXCEPT ![Arg(t).uid] = Arg(t).assumed]
    /\ Goto(t, << >>)
    /\ UNCHANGED <<nodes, queueVars, apiVars, watchVars, reportVars, luck>>

RemovePod(t) ==
    /\ At(t, "remove_pod")
    /\ pod_locations' = [pod_locations EXCEPT ![Arg(t).uid] = None]
    /\ assumed' = [assumed EXCEPT ![Arg(t).uid] = None]
    /\ Goto(t, << >>)
    /\ UNCHANGED <<nodes, queueVars, apiVars, watchVars, faultVars>>

UpsertNode ==
    /\ At("watch", "upsert_node")
    /\ nodes' = nodes \cup {Arg("watch").node}
    /\ Goto("watch", << >>)
    /\ UNCHANGED <<pod_locations, assumed, queueVars, apiVars, watchVars, faultVars>>

RemoveNode_keeping_pods ==       \* variant: its pods stay in the index
    /\ At("watch", "remove_node")
    /\ nodes' = nodes \ {Arg("watch").node}
    /\ Goto("watch", << >>)
    /\ UNCHANGED <<pod_locations, assumed, queueVars, apiVars, watchVars, faultVars>>

\* its pods go with it
RemoveNode ==
    /\ At("watch", "remove_node")
    /\ LET n == Arg("watch").node IN
         /\ nodes' = nodes \ {n}
         /\ pod_locations' = [p \in Pods |-> IF pod_locations[p] = n THEN None
                                             ELSE pod_locations[p]]
    /\ Goto("watch", << >>)
    /\ UNCHANGED <<assumed, queueVars, apiVars, watchVars, faultVars>>

-----------------------------------------------------------------------------
(* The scheduling loop: one pod at a time, from a snapshot of the cache.     *)

\* the loop does not wait for the first list (lib.rs 187, 210): the cache may not
\* have been told of pods that are bound
Unlisted(p) ==
    /\ api[p].state = "bound" /\ pod_locations[p] = None
    /\ \/ mirror[p] = None
       \/ \E i \in DOMAIN todo["watch"] : /\ todo["watch"][i].op = "add_pod"
                                         /\ todo["watch"][i].uid = p

\* the pod fits: reserve it a node, assume it there, and let a binding cycle
\* of its own do the rest
Schedule ==
    /\ At("loop", "cycle")
    /\ \E n \in Feasible :
         LET pod == Arg("loop").pod IN
         Goto("loop", assume(pod.uid, n) \o done
                      \o << [op |-> "spawn", pod |-> pod, node |-> n] >>)
    /\ mishaps' = mishaps \cup {kind \in {"unlisted"} : \E p \in Pods : Unlisted(p)}
    /\ UNCHANGED <<queueVars, apiVars, watchVars, cacheVars, reportVars, luck>>

\* report_unschedulable, spawned off the loop: best effort, so one that will not
\* write leaves no trace
reported(p) ==
    \/ /\ patches > 0
       /\ patches' = patches - 1
       /\ reports' = [reports EXCEPT ![p] = @ + 1]
    \/ UNCHANGED reportVars

\* nothing fits
Reject ==
    /\ At("loop", "cycle")
    /\ Feasible = {}
    /\ reported(Arg("loop").pod.uid)
    /\ Goto("loop", park(Arg("loop").pod, {"NodeResourcesFit"}) \o done)
    /\ UNCHANGED <<queueVars, apiVars, watchVars, cacheVars, luck, mishaps>>

\* a node was found, and Reserve turned it down
ReserveRejects ==
    /\ At("loop", "cycle")
    /\ Feasible # {}
    /\ Mishap("reject")
    /\ reported(Arg("loop").pod.uid)
    /\ Goto("loop", park(Arg("loop").pod, {"VolumeBinding"}) \o done)
    /\ UNCHANGED <<queueVars, apiVars, watchVars, cacheVars>>

\* a plugin broke
FailCycle ==
    /\ At("loop", "cycle")
    /\ Mishap("error")
    /\ reported(Arg("loop").pod.uid)
    /\ Goto("loop", retry(Arg("loop").pod) \o done)
    /\ UNCHANGED <<queueVars, apiVars, watchVars, cacheVars>>

Spawn ==
    /\ At("loop", "spawn")
    /\ \E b \in Binders : todo[b] = << >>
    /\ LET b == CHOOSE c \in Binders : todo[c] = << >> IN
         todo' = [todo EXCEPT
              !["loop"] = Tail(@),
              ![b] = << [op |-> "bind", pod  |-> Arg("loop").pod,
                                        node |-> Arg("loop").node] >>]
    /\ UNCHANGED <<queueVars, apiVars, watchVars, cacheVars, faultVars>>

-----------------------------------------------------------------------------
(* A binding cycle: bind_one and handle_outcome.                             *)

Event(kind, p) == [type |-> kind, uid |-> p, gated |-> api'[p].gated,
                   node |-> api'[p].node, state |-> api'[p].state]

\* what handle_outcome runs for each outcome
Cancelled(pod) == release(pod.uid) \o remove(pod.uid) \o move_all("PodDeleted")
Rejected(pod)  == release(pod.uid) \o park(pod, {"VolumeBinding"})
                                   \o move_all("PodDeleted")
Failed_dropping(pod) ==          \* variant: the pod is not queued again
    release(pod.uid) \o move_all("PodDeleted")
Failed(pod)    == release(pod.uid) \o retry(pod) \o move_all("PodDeleted")

\* the API server takes a binding for a pod that is pending and not gated
Bindable(p) == api[p].state = "pending" /\ ~api[p].gated

ServerBinds(b) ==
    /\ At(b, "bind")
    /\ Bindable(Arg(b).pod.uid)
    /\ LET p == Arg(b).pod.uid IN
         /\ api' = [api EXCEPT ![p].state = "bound", ![p].node = Arg(b).node]
         /\ pod_stream' = Append(pod_stream, Event("Apply", p))
    /\ UNCHANGED <<api_nodes, node_stream>>

Bind(b) ==
    /\ ServerBinds(b)
    /\ Goto(b, << >>)
    /\ UNCHANGED <<queueVars, watchVars, cacheVars, faultVars>>

\* the server binds the pod, the answer does not come within BIND_TIMEOUT
BindUnanswered(b) ==
    /\ ServerBinds(b)
    /\ Mishap("lost")
    /\ Goto(b, Failed(Arg(b).pod))
    /\ UNCHANGED <<queueVars, watchVars, cacheVars, reportVars>>

\* the server refuses: 409 for a bound pod (which counts as success), 409 or
\* 404 for one that is going or gone, 422 for one that is gated
BindRefused(b) ==
    /\ At(b, "bind")
    /\ LET pod == Arg(b).pod IN
         \/ /\ api[pod.uid].state = "bound"
            /\ Goto(b, << >>)
         \/ /\ api[pod.uid].state \in {"terminating", "gone"}
            /\ Goto(b, Cancelled(pod))
         \/ /\ api[pod.uid].state = "pending" /\ api[pod.uid].gated
            /\ Goto(b, Failed(pod))
    /\ UNCHANGED <<apiVars, queueVars, watchVars, cacheVars, faultVars>>

\* the request never reached the server
BindFails(b) ==
    /\ At(b, "bind")
    /\ Mishap("error")
    /\ Goto(b, Failed(Arg(b).pod))
    /\ UNCHANGED <<apiVars, queueVars, watchVars, cacheVars, reportVars>>

\* PreBind gives up, waiting for a volume
PreBindRejects(b) ==
    /\ At(b, "bind")
    /\ Mishap("reject")
    /\ Goto(b, Rejected(Arg(b).pod))
    /\ UNCHANGED <<apiVars, queueVars, watchVars, cacheVars, reportVars>>

-----------------------------------------------------------------------------
(* The watches: one task, one event at a time.                               *)

remove_deleted_uncounted(p, node) ==   \* variant: the cache is not told
    dequeue(p, forget(p))
remove_deleted(p, node) ==
    dequeue(p, IF node # None THEN release(p) \o move_all("PodDeleted")
                              ELSE forget(p))

\* route_pod
applied(ev) ==
    LET p    == ev.uid
        pod  == [uid |-> p, gated |-> ev.gated]
        old  == mirror[p]
    IN IF ev.node # None
       THEN remove(p) \o confirm(p, ev.node)
              \o IF old # None /\ old.node = None
                 THEN move_all("PodBound") ELSE << >>
       ELSE IF ev.state = "terminating" THEN remove(p)
       ELSE IF old = None THEN add(pod)
       ELSE update(pod) \o IF old.gated /\ ~ev.gated
                           THEN move_all("GateRemoved") ELSE << >>

HandleApply ==
    /\ pod_stream # << >>
    /\ LET ev == Head(pod_stream) IN
         /\ ev.type = "Apply"
         /\ mirror' = [mirror EXCEPT ![ev.uid] =
                          [gated |-> ev.gated, node |-> ev.node]]
         /\ seen' = IF relisting THEN seen \cup {ev.uid} ELSE seen
         /\ Begin("watch", applied(ev))
    /\ pod_stream' = Tail(pod_stream)
    /\ UNCHANGED <<api, api_nodes, node_stream, relisting, queueVars, cacheVars,
                   faultVars>>

HandleDelete ==
    /\ pod_stream # << >>
    /\ LET ev == Head(pod_stream) IN
         /\ ev.type = "Delete"
         /\ mirror' = [mirror EXCEPT ![ev.uid] = None]
         /\ seen' = seen \ {ev.uid}
         /\ Begin("watch", remove_deleted(ev.uid, ev.node))
    /\ pod_stream' = Tail(pod_stream)
    /\ UNCHANGED <<api, api_nodes, node_stream, relisting, queueVars, cacheVars,
                   faultVars>>

HandleInit ==
    /\ pod_stream # << >>
    /\ Head(pod_stream).type = "Init"
    /\ todo["watch"] = << >>
    /\ relisting' = TRUE
    /\ seen' = {}
    /\ pod_stream' = Tail(pod_stream)
    /\ UNCHANGED <<api, api_nodes, node_stream, mirror, queueVars, cacheVars,
                   todo, faultVars>>

\* the pods that did not come back, as the mirror last saw them
HandleInitDone ==
    /\ pod_stream # << >>
    /\ Head(pod_stream).type = "InitDone"
    /\ LET gone == {p \in Pods : mirror[p] # None} \ seen IN
         /\ mirror' = [p \in Pods |-> IF p \in gone THEN None ELSE mirror[p]]
         /\ Begin("watch", InTurn(gone, LAMBDA p : remove_deleted(p, mirror[p].node)))
    /\ relisting' = FALSE
    /\ seen' = {}
    /\ pod_stream' = Tail(pod_stream)
    /\ UNCHANGED <<api, api_nodes, node_stream, queueVars, cacheVars, faultVars>>

HandleNode ==
    /\ node_stream # << >>
    /\ LET ev == Head(node_stream)
           op == IF ev.type = "Apply" THEN "upsert_node" ELSE "remove_node"
       IN Begin("watch", << [op |-> op, node |-> ev.node] >>
                         \o IF ev.type = "Apply" THEN move_all("NodeAdded")
                                                 ELSE << >>)
    /\ node_stream' = Tail(node_stream)
    /\ UNCHANGED <<api, api_nodes, pod_stream, watchVars, queueVars, cacheVars,
                   faultVars>>

\* a PVC, PV or StorageClass event
HandleVolume ==
    /\ \E p \in Pods : /\ unschedulable[p] # None
                       /\ "VolumeBinding" \in unschedulable[p].plugins
    /\ Begin("watch", move_all("VolumeChanged"))
    /\ UNCHANGED <<apiVars, watchVars, queueVars, cacheVars, faultVars>>

-----------------------------------------------------------------------------
(* The API server, everybody else who writes to it, and its watch streams.   *)

Write(p, pod, kind) ==
    /\ api' = [api EXCEPT ![p] = pod]
    /\ pod_stream' = Append(pod_stream, Event(kind, p))
    /\ UNCHANGED <<api_nodes, node_stream, watchVars, queueVars, cacheVars, todo>>

CreatePod(p) ==
    /\ api[p].state = "none"
    /\ Write(p, [api[p] EXCEPT !.state = "pending"], "Apply")
    /\ UNCHANGED faultVars

RemoveGate(p) ==
    /\ api[p].state = "pending" /\ api[p].gated
    /\ Write(p, [api[p] EXCEPT !.gated = FALSE], "Apply")
    /\ UNCHANGED faultVars

Living == {"pending", "bound", "terminating"}

\* somebody's write of no consequence to scheduling
EditPod(p) ==
    /\ api[p].state \in Living
    /\ Mishap("edit")
    /\ Write(p, api[p], "Apply")
    /\ UNCHANGED reportVars

\* write_condition's status patch, whenever it comes: a write like any other, or
\* refused when the pod is gone
Report(p) ==
    /\ reports[p] > 0
    /\ reports' = [reports EXCEPT ![p] = @ - 1]
    /\ \/ api[p].state \in Living /\ Write(p, api[p], "Apply")
       \/ api[p].state \notin Living /\ UNCHANGED <<apiVars, watchVars, queueVars, cacheVars, todo>>
    /\ UNCHANGED <<patches, luck, mishaps>>

\* a pending pod with finalizers stays a while, terminating
TerminatePod(p) ==
    /\ api[p].state = "pending"
    /\ Mishap("finalizer")
    /\ Write(p, [api[p] EXCEPT !.state = "terminating"], "Apply")
    /\ UNCHANGED reportVars

DeletePod(p) ==
    /\ api[p].state \in Living
    /\ Write(p, [api[p] EXCEPT !.state = "gone"], "Delete")
    /\ UNCHANGED faultVars

NodeEvent(kind, n) == [type |-> kind, node |-> n]

NodeLeaves(n) ==
    /\ n \in api_nodes
    /\ Mishap("flap")
    /\ api_nodes' = api_nodes \ {n}
    /\ node_stream' = Append(node_stream, NodeEvent("Delete", n))
    /\ UNCHANGED <<api, pod_stream, watchVars, queueVars, cacheVars, todo,
                   reportVars>>

NodeJoins(n) ==
    /\ n \notin api_nodes
    /\ api_nodes' = api_nodes \cup {n}
    /\ node_stream' = Append(node_stream, NodeEvent("Apply", n))
    /\ UNCHANGED <<api, pod_stream, watchVars, queueVars, cacheVars, todo, faultVars>>

Live == {p \in Pods : api[p].state \in Living}

Listed(pods) == << [type |-> "Init"] >>
                \o InTurn(pods, LAMBDA p :
                      << [type |-> "Apply", uid |-> p, gated |-> api[p].gated,
                          node |-> api[p].node, state |-> api[p].state] >>)
                \o << [type |-> "InitDone"] >>

\* the pod watch breaks, what it had not delivered is compacted away, and the
\* watcher lists again
Disconnect ==
    /\ pod_stream # << >>
    /\ Mishap("relist")
    /\ pod_stream' = Listed(Live)
    /\ UNCHANGED <<api, api_nodes, node_stream, watchVars, queueVars, cacheVars,
                   todo, reportVars>>

-----------------------------------------------------------------------------
Init ==
    /\ \E s \in Starts : api = s.api /\ luck = s.faults /\ patches = s.patches
    /\ reports = [p \in Pods |-> 0]
    /\ api_nodes = Nodes
    /\ pod_stream = Listed(Live)
    /\ node_stream = InTurn(Nodes, LAMBDA n : << NodeEvent("Apply", n) >>)
    /\ mirror = [p \in Pods |-> None]
    /\ relisting = FALSE
    /\ seen = {}
    /\ active = {}
    /\ unschedulable = [p \in Pods |-> None]
    /\ backoff = [pod \in PodInfo |-> 0]
    /\ in_flight = None
    /\ nodes = {}
    /\ pod_locations = [p \in Pods |-> None]
    /\ assumed = [p \in Pods |-> None]
    /\ todo = [t \in Tasks |-> << >>]
    /\ mishaps = {}

Step(t) ==
    \/ Add(t) \/ Push(t) \/ Update(t) \/ UpdateBackoff(t) \/ PushBackoff(t)
    \/ Replay(t) \/ ParkRejected(t) \/ Record(t) \/ Sweep(t)
    \/ Dequeue(t) \/ DequeueBackoff(t) \/ Forget(t) \/ AddPod(t) \/ RemovePod(t)

Watch == \/ HandleApply \/ HandleDelete \/ HandleInit \/ HandleInitDone
         \/ HandleNode \/ UpsertNode \/ RemoveNode

Loop == Done \/ Schedule \/ Reject \/ Spawn

Answer(b) == Bind(b) \/ BindRefused(b)

Environment ==
    \/ \E p \in Pods : \/ CreatePod(p) \/ RemoveGate(p) \/ EditPod(p) \/ Report(p)
                       \/ TerminatePod(p) \/ DeletePod(p)
    \/ \E n \in Nodes : NodeLeaves(n) \/ NodeJoins(n)
    \/ Disconnect \/ HandleVolume \/ FailCycle \/ ReserveRejects
    \/ \E b \in Binders : BindUnanswered(b) \/ BindFails(b) \/ PreBindRejects(b)

Next ==
    \/ \E t \in Tasks : Step(t)
    \/ Watch \/ Loop
    \/ \E b \in Binders : Answer(b)
    \/ DrainExpiredBackoff \/ FlushTimedOut
    \/ \E p \in Pods : Pop(p)
    \/ Environment

\* Every task runs (tokio), a bind is answered or times out, a backoff and the
\* five minutes of the safety net pass.  A pod in the active queue is popped
\* sooner or later: QueueSort orders by priority and then by age, and a pod
\* that failed stays away for at least a second each time.
Fairness ==
    /\ \A t \in Tasks : WF_vars(Step(t))
    /\ WF_vars(Watch) /\ WF_vars(Loop)
    /\ \A b \in Binders : WF_vars(Answer(b))
    /\ \A p \in Pods : SF_vars(Pop(p))
    /\ SF_vars(DrainExpiredBackoff) /\ WF_vars(FlushTimedOut)

Spec     == Init /\ [][Next]_vars
LiveSpec == Spec /\ Fairness

-----------------------------------------------------------------------------
(* Properties *)

\* Every variable keeps its shape; a pod is in the active queue once at
\* most, and counted on a node only while the cache has that node.
TypeOK ==
    /\ api \in [Pods -> [state : States, gated : BOOLEAN, node : Nodes \cup {None}]]
    /\ \A p \in Pods : api[p].state = "bound" => api[p].node # None
    /\ api_nodes \subseteq Nodes /\ nodes \subseteq Nodes
    /\ mirror \in [Pods -> Version \cup {None}]
    /\ relisting \in BOOLEAN /\ seen \subseteq Pods
    /\ active \subseteq PodInfo
    /\ backoff \in [PodInfo -> Nat]
    /\ \A p, q \in active  : p.uid = q.uid => p = q
    /\ unschedulable \in [Pods -> Entry \cup {None}]
    /\ in_flight = None \/ in_flight.uid \in Pods
    /\ pod_locations \in [Pods -> Nodes \cup {None}]
    /\ assumed \in [Pods -> Nodes \cup {None}]
    /\ \A p \in Pods : pod_locations[p] # None => pod_locations[p] \in nodes
    /\ reports \in [Pods -> Nat] /\ patches \in Nat

\* pods a task has in its hands: about to be queued, in a cycle or binding
Carried(t) == {pod \in PodInfo :
                 \E i \in DOMAIN todo[t] :
                    /\ todo[t][i].op \in {"add", "update", "update_backoff",
                         "push_active", "push_backoff", "replay", "park",
                         "cycle", "spawn", "bind"}
                    /\ todo[t][i].pod = pod}

Hands == UNION {Carried(t) : t \in Tasks}

Queued(p) == p \in Uids(active) \cup Waiting \/ unschedulable[p] # None

\* A pod the scheduler knows of and the cluster still waits for is never lost:
\* it is in a queue, in the hands of a task, or bound with the news under way.
\* Between the regions of update, of the drain, of a sweep and of a failed
\* binding cycle it is in none of the queues (queue/mod.rs 188, 283, 429, 519).
NobodyLost ==
    \A p \in Pods :
      api[p].state = "pending" /\ mirror[p] # None
        => Queued(p) \/ p \in Uids(Hands)

\* Nothing is under way in the scheduler, or towards it
Quiet == /\ pod_stream = << >> /\ node_stream = << >>
         /\ \A t \in Tasks : todo[t] = << >>
         /\ in_flight = None /\ active = {} /\ Waiting = {}

On(n) == {p \in Pods : api[p].state = "bound" /\ api[p].node = n}

\* No node is over its capacity at the start.
StartsFit == \A s \in Starts : \A n \in Nodes :
    Cardinality({p \in Pods : s.api[p].node = n}) <= Capacity[n]

\* What parts the cache from the cluster.  A binding cycle that times out after
\* the server has bound the pod is taken for one that did not bind it; an update,
\* of a reported rejection or any other, that comes while its pod is between two
\* queues or in a cycle queues it a second time, as a relist then does; a node
\* that left, or that the cache had not seen yet, takes its pods out of the count.
Parted == {"lost", "requeued", "relist", "flap", "dropped"}

\* Where none of that happened, and no node was chosen before the watch had told
\* of the pods bound at the start, a node is never given more pods than fit:
\* cache/assume.rs, cache/snapshot.rs 371.
NotOvercommitted ==
    mishaps \cap (Parted \cup {"unlisted"}) = {}
      => \A n \in Nodes : Cardinality(On(n)) <= Capacity[n]

\* ... and at rest the cache counts what the cluster runs: nothing that was
\* assumed and never bound stays on a node, and nothing bound is missing from it
\* (binder.rs, release; watch.rs 1177).
CacheSettles ==
    Quiet /\ mishaps \cap Parted = {}
      => /\ \A p \in Pods : pod_locations[p] = IF api[p].state = "bound"
                                               THEN api[p].node ELSE None
         /\ \A p \in Pods : assumed[p] = None

\* A pod that could be placed, and goes on being placeable, is placed: neither
\* a wake-up that falls between two regions nor a failed bind strands it for
\* ever, because the safety net runs.  A cache that has lost its way with a
\* relist may still believe the node full.
Placeable(p) == /\ api[p].state = "pending" /\ ~api[p].gated
                /\ \E n \in api_nodes : Cardinality(On(n)) < Capacity[n]

EventuallyPlaced ==
    \A p \in Pods : []<>(~Placeable(p) \/ "relist" \in mishaps)

-----------------------------------------------------------------------------
(* What the code says of itself                                              *)

\* "a pod whose gate is still set must not reach the active queue just because
\* something else changed" (queue/mod.rs 498-500).
GateHolds == \A pod \in active : pre_enqueue(pod)

\* "Without this the pod waits for the next matching event, which on a quiet
\* cluster may never come" (queue/mod.rs 343, of the replay).
NothingStranded ==
    Quiet /\ Feasible # {}
      => \A p \in Pods : \/ unschedulable[p] = None
                         \/ "NodeResourcesFit" \notin unschedulable[p].plugins
                         \/ api[p].state # "pending"

\* "The reservation stays until the informer delivers the real pod - that is what
\* makes this safe against a bind that succeeded server-side but whose response
\* we never saw" (cache/assume.rs 97)
NeverOvercommitted == \A n \in Nodes : Cardinality(On(n)) <= Capacity[n]
=============================================================================
