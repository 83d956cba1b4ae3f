---------------------------- MODULE NodeLifecycle ----------------------------
(***************************************************************************)
(* The node-lifecycle controller of nodecontroller                         *)
(* (controllers/node_lifecycle.rs) and the timing wheel it schedules its   *)
(* checks on (wheel.rs), for one node: its map and the wheel are keyed by  *)
(* node, and no operation relates two keys.                                *)
(*                                                                         *)
(* The unit of time is a tick of the wheel.  A time is kept as an age or   *)
(* as a distance from the last tick swept, so that a behaviour may last    *)
(* for ever; an age stops at Old, past which the code does not tell ages   *)
(* apart.  Taints of other owners are left out.                            *)
(***************************************************************************)
EXTENDS Integers, Sequences

CONSTANTS
    Grace, Jitter,   \* node_monitor_grace_period; the most that jitter adds to it
    Period,          \* how often the node renews its Lease
    MaxLag,          \* timing: no Lease event waits longer for the idle controller
    MaxBehind,       \* timing: ticks that may pass in one turn of the select loop
    QueueBound,      \* bound: events the API server may have in flight
    MaxEdits,        \* bound: registrations, deletions, deaths, status changes
    MaxFaults,       \* bound: calls refused, replies lost, relists, restarts
    None

ASSUME TimingAssumption ==
    /\ {Grace, Jitter, Period, MaxLag, MaxBehind} \subseteq Nat
    /\ Period > 0 /\ Period + MaxLag < Grace - Jitter

Horizon == Grace + Jitter + 2      \* slot_count
Old     == Grace + Jitter + MaxBehind
Taints  == {"none", "not_ready", "unreachable"}

VARIABLES
    node,        \* the Node object: its lifecycle taint and whether it is Ready
    lease,       \* the age of the Lease's renewTime
    alive,       \* whether the kubelet runs
    nodes,       \* events in flight on the Node watch: an object, or None for Delete
    leases,      \* events in flight on the Lease watch: an age
    cache,       \* the entry of NodeLiveness
    due,         \* the wheel: ticks from the last one swept to this node's entry
    behind,      \* ticks that have passed since the last one swept
    call,        \* the patch awaited: the taint asked for and who asked
    unwatched,   \* history: the last check was used up, or refused by the wheel
    misled,      \* history: the cached taint was never the node's
    edits, faults

world      == <<node, lease, alive, nodes, leases>>
controller == <<cache, due, behind, call>>
vars       == <<world, controller, unwatched, misled, edits, faults>>

-----------------------------------------------------------------------------
(* Staleness and the patch *)

\* variant: the threshold of a check that is always late by the whole jitter
renewal_is_stale_after_jitter(age) == age # None /\ age > Grace + Jitter

renewal_is_stale(age) == age # None /\ age >= Grace - Jitter

desired_taint(ready, stale) ==
    CASE stale  -> "unreachable"
      [] ~stale /\ ~ready -> "not_ready"
      [] OTHER  -> "none"

\* reconcile() up to the request: nothing to do, or a patch to wait for
reconcile(entry, stale, source) ==
    LET desired == desired_taint(entry.ready, stale)
    IN call' = IF entry.taint = desired THEN None ELSE [taint |-> desired, source |-> source]

\* the taints of the event are dropped for the cached ones
merge_cached(event) == [taint |-> IF cache = None THEN event.taint ELSE cache.taint,
                        ready |-> event.ready,
                        renewed |-> IF cache = None THEN None ELSE cache.renewed]

-----------------------------------------------------------------------------
(* The node and its objects *)

Edit == edits < MaxEdits /\ edits' = edits + 1

\* a kubelet starts: admission gives a new Node the not-ready taint, then its Lease
\* is renewed
Register ==
    /\ Edit /\ node = None /\ Len(nodes) < QueueBound
    /\ node' = [taint |-> "not_ready", ready |-> TRUE]
    /\ alive' = TRUE
    /\ nodes' = Append(nodes, node')
    /\ lease' = 0 /\ leases' = Append(leases, 0)
    /\ UNCHANGED <<controller, unwatched, misled, faults>>

\* the Lease stays, and a kubelet that runs goes on renewing it
Deregister ==
    /\ Edit /\ node # None /\ Len(nodes) < QueueBound
    /\ node' = None
    /\ nodes' = Append(nodes, None)
    /\ UNCHANGED <<lease, alive, leases, controller, unwatched, misled, faults>>

Heartbeat ==
    /\ alive /\ lease > 0 /\ Len(leases) < QueueBound
    /\ lease' = 0 /\ leases' = Append(leases, 0)
    /\ UNCHANGED <<node, alive, nodes, controller, unwatched, misled, edits, faults>>

StatusPush ==
    /\ Edit /\ alive /\ node # None /\ Len(nodes) < QueueBound
    /\ node' = [node EXCEPT !.ready = ~@]
    /\ nodes' = Append(nodes, node')
    /\ UNCHANGED <<lease, alive, leases, controller, unwatched, misled, faults>>

DieOrRevive ==
    /\ Edit /\ lease # None
    /\ alive' = ~alive
    /\ UNCHANGED <<node, lease, nodes, leases, controller, unwatched, misled, faults>>

-----------------------------------------------------------------------------
(* The select loop of run() *)

Idle == call = None

NodeEvent ==
    /\ Idle /\ nodes # << >>
    /\ nodes' = Tail(nodes)
    /\ IF Head(nodes) = None
       THEN /\ cache' = None /\ due' = None
            /\ UNCHANGED call
       ELSE /\ cache' = merge_cached(Head(nodes))
            /\ reconcile(cache', renewal_is_stale(cache'.renewed), "node")
            /\ UNCHANGED due
    /\ UNCHANGED <<node, lease, alive, leases, behind, unwatched, misled, edits, faults>>

\* insert_jittered(): from now to the deadline; negative when it has passed.  The
\* caller swaps the sample and the fraction, which leaves only delays: a negative
\* sample, as a fraction, is clamped to 0
Deadline(age, jitter) == Grace + jitter - age

\* tick_index_for(): clamped to the next tick; `rounding` is 1 unless the deadline
\* falls on a tick
Distance(age, jitter, rounding) ==
    LET ticks == behind + Deadline(age, jitter) + rounding
    IN IF ticks < 1 THEN 1 ELSE ticks

\* BeyondHorizon: a loop that is behind counts the distance from where it is
insert(age) ==
    \E jitter \in 0 .. Jitter, rounding \in 0 .. 1 :
        LET ticks == Distance(age, jitter, rounding)
        IN /\ due' = IF ticks > Horizon THEN due ELSE ticks
           /\ unwatched' = (ticks > Horizon)

\* variant: a renewal reschedules the check and leaves the taint to the Node watch
LeaseEvent_rescheduling ==
    /\ Idle /\ leases # << >>
    /\ leases' = Tail(leases)
    /\ insert(Head(leases))
    /\ cache' = IF cache = None THEN None ELSE [cache EXCEPT !.renewed = Head(leases)]
    /\ UNCHANGED <<node, lease, alive, nodes, behind, call, misled, edits, faults>>

LeaseEvent ==
    /\ Idle /\ leases # << >>
    /\ leases' = Tail(leases)
    /\ insert(Head(leases))
    /\ IF cache = None
       THEN UNCHANGED <<cache, call>>
       ELSE /\ cache' = [cache EXCEPT !.renewed = Head(leases)]
            /\ reconcile(cache', renewal_is_stale(cache'.renewed), "lease")
    /\ UNCHANGED <<node, lease, alive, nodes, behind, misled, edits, faults>>

\* advance() sweeps every slot that has passed; an entry that is due leaves the wheel
Due == due # None /\ due <= behind

Advance ==
    /\ Idle /\ behind > 0
    /\ behind' = 0
    /\ due' = IF due = None \/ Due THEN None ELSE due - behind
    /\ IF Due /\ cache # None /\ renewal_is_stale(cache.renewed)
       THEN reconcile(cache, TRUE, "wheel")
       ELSE UNCHANGED call
    /\ UNCHANGED <<world, cache, unwatched, misled, edits, faults>>

\* the patch is applied, and its answer updates the cached taints
Patched ==
    /\ ~Idle /\ node # None
    /\ node' = [node EXCEPT !.taint = call.taint]
    /\ nodes' = IF node' = node THEN nodes ELSE Append(nodes, node')
    /\ cache' = [cache EXCEPT !.taint = call.taint]
    /\ call' = None
    /\ UNCHANGED <<lease, alive, leases, due, behind, unwatched, misled, edits, faults>>

\* "will retry on the next event"
Unpatched ==
    /\ call' = None
    /\ unwatched' = (unwatched \/ call.source = "wheel")

NotFound ==
    /\ ~Idle /\ node = None
    /\ Unpatched
    /\ UNCHANGED <<world, cache, due, behind, misled, edits, faults>>

-----------------------------------------------------------------------------
(* Faults *)

Fault == faults < MaxFaults /\ faults' = faults + 1

Refuse ==
    /\ Fault /\ ~Idle
    /\ Unpatched
    /\ UNCHANGED <<world, cache, due, behind, misled, edits>>

LoseReply ==
    /\ Fault /\ ~Idle /\ node # None /\ node.taint # call.taint
    /\ node' = [node EXCEPT !.taint = call.taint]
    /\ nodes' = Append(nodes, node')
    /\ Unpatched
    /\ misled' = TRUE
    /\ UNCHANGED <<lease, alive, leases, cache, due, behind, edits>>

\* Init and InitDone are ignored, so a Delete that the relist stands for is never seen
RelistNodes ==
    /\ Fault
    /\ nodes' = IF node = None THEN << >> ELSE <<node>>
    /\ misled' = (misled \/ \E i \in DOMAIN nodes : nodes[i] = None)
    /\ UNCHANGED <<node, lease, alive, leases, controller, unwatched, edits>>

RelistLeases ==
    /\ Fault
    /\ leases' = IF lease = None THEN << >> ELSE <<lease>>
    /\ UNCHANGED <<node, lease, alive, nodes, controller, unwatched, misled, edits>>

Restart ==
    /\ Fault
    /\ cache' = None /\ due' = None /\ behind' = 0 /\ call' = None
    /\ nodes' = IF node = None THEN << >> ELSE <<node>>
    /\ leases' = IF lease = None THEN << >> ELSE <<lease>>
    /\ unwatched' = FALSE /\ misled' = FALSE
    /\ UNCHANGED <<node, lease, alive, edits>>

-----------------------------------------------------------------------------
(* Time *)

older(age) == IF age = None \/ age = Old THEN age ELSE age + 1

\* time waits for a renewal that is due, and for a loop that is too far behind
Tick ==
    /\ behind < MaxBehind
    /\ alive => lease < Period
    /\ Idle => \A i \in DOMAIN leases : leases[i] < MaxLag \/ leases[i] = Old
    /\ behind' = behind + 1
    /\ lease' = older(lease)
    /\ leases' = [i \in DOMAIN leases |-> older(leases[i])]
    /\ cache' = IF cache = None THEN None ELSE [cache EXCEPT !.renewed = older(@)]
    /\ UNCHANGED <<node, alive, nodes, due, call, unwatched, misled, edits, faults>>

-----------------------------------------------------------------------------
Init ==
    /\ node = None /\ lease = None /\ alive = FALSE
    /\ nodes = << >> /\ leases = << >>
    /\ cache = None /\ due = None /\ behind = 0 /\ call = None
    /\ unwatched = FALSE /\ misled = FALSE
    /\ edits = 0 /\ faults = 0

Next ==
    \/ Register \/ Deregister \/ Heartbeat \/ StatusPush \/ DieOrRevive
    \/ NodeEvent \/ LeaseEvent \/ Advance \/ Patched \/ NotFound
    \/ Refuse \/ LoseReply \/ RelistNodes \/ RelistLeases \/ Restart
    \/ Tick

Spec == Init /\ [][Next]_vars

\* the runtime polls every ready branch of the select loop, requests are answered,
\* the kubelet keeps its period and time passes
LiveSpec ==
    /\ Spec
    /\ SF_vars(NodeEvent) /\ SF_vars(LeaseEvent) /\ SF_vars(Advance)
    /\ WF_vars(Patched \/ NotFound)
    /\ WF_vars(Heartbeat) /\ WF_vars(Tick)

-----------------------------------------------------------------------------
Healthy == alive /\ node # None /\ node.ready
Heard == cache # None /\ cache.renewed # None

\* A node that stops renewing is tainted unreachable, once the controller has
\* recorded a renewal: its check is in the wheel, and stands until it is made.
\* Exempt are the ways the code has of losing the check: the wheel refuses it,
\* or the patch it asks for fails.
SilentNodesAreTainted ==
    [](~misled) => (Heard /\ ~alive /\ ~unwatched
                      ~> \/ node = None \/ alive \/ ~Heard \/ unwatched
                         \/ node.taint = "unreachable")

\* A node that is Ready and renews its Lease loses whatever taint it was given, the
\* refused patches, relists and restarts notwithstanding.
LiveNodesRecover ==
    [](~misled) /\ <>[]Healthy => <>[](node # None => node.taint = "none")

\* taint_nodes_by_condition.rs: "The node controller removes the taint after the
\* node reports Ready."
ReadyNodesAreUntainted == <>[]Healthy => <>[](node # None => node.taint = "none")
=============================================================================
