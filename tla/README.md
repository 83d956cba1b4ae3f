# not-k8s: a verification project

not-k8s is a Kubernetes-compatible control plane and node agent in Rust. This
directory holds TLA+ models of the parts of it whose correctness depends on
order, concurrency and recovery, TLC configurations that check them on small
instances, and TLAPS proofs of the properties that matter most for any
instance. All paths below are relative to the repository.

    tlc -config store.cfg MCStore.tla        # a run; PROJECT.json lists them all
    tlapm WatchProofs.tla                     # a proof module

## 1. Inventory

The system is a chain: clients talk to **nodeapiserver**, which keeps every
object in **nodestore** (an etcd-compatible store over sqlite) through gRPC
transactions and learns of changes from its Watch streams; **nodescheduler**,
**nodecontroller** and **nodelet** are clients of the apiserver that react to
watches and write back. **node-leaderelection** keeps one scheduler and one
controller manager active.

| component | state it keeps | operations | what is hard | what makes it correct |
|---|---|---|---|---|
| nodestore store (`crates/nodestore/src/store.rs`, `command.rs`) | rows (revision, sub, key, ...), leases, members, `revision`, `compact_revision`, `applied_index` | `apply_at` of put, delete, txn, compact, lease grant/keepalive/revoke, expiry, membership; `range`, `events_since` | several writes at one revision, compaction boundaries, partial failure, crash between writes | history is immutable above the compaction point; replay tells what live watchers were told; leases take their keys with them; compare-and-swap loses nothing |
| snapshots (`store.rs`) | a whole store as a message | `export_snapshot`, `restore_snapshot` | history is dropped, revisions jump | every member answers alike at one applied index |
| RBAC list cache (`store.rs`) | one list per RBAC prefix | fill and serve in `range`, drop in `apply_at` | stale entries | a list misses no change since it was read |
| apply path (`consensus.rs`) | index counter, store mutex, hub | `propose`, `submit`, `apply_committed` | proposers race between counter and mutex | watchers see the order the store applied |
| watch hub and service (`watch.rs`, `server/watch.rs`) | a bounded broadcast buffer; per stream: watchers with positions | create, cancel, progress, receive, dispatch, resync | every `.await` lets the store move; lag; compaction under a lagging watcher | no event is lost, repeated or reordered; every wanted event arrives |
| replication (`replication/`) | raft log, hard state, snapshots, pending proposals | the Ready loop, proposals, configuration changes, restart | crash between any two writes, lost leadership, timeouts | one committed log, applied once, in order; a caller is told the truth |
| etcd API (`server/mod.rs`) | none of its own | forwarding to the leader, membership, compaction and expiry loops | loops race with clients | loops only ever remove what may go |
| leader election (`node-leaderelection/src/lib.rs`, and the scheduler's own copy `nodescheduler/src/election.rs`) | a Lease object; per replica whether its work runs and when it last renewed | acquire, renew, give up | clocks, slow and late requests, conflicts | at most one replica works at a time, and one does in the end |
| scheduling queue (`nodescheduler/src/queue`) | active, backoff, unschedulable queues, in-flight events | add, update, remove, pop, done, move, sweep | several lock regions per operation, events during a cycle | no pod is lost or stuck when its reason is gone |
| scheduler cache and binding (`cache/`, `lib.rs`, `binder.rs`, `watch.rs`) | nodes with their pods, assumed pods | assume, forget, confirm, bind, the informer's events | the watch races with the answer of the bind | capacity is never double-booked nor leaked |
| apiserver watch cache (`nodeapiserver/src/cacher`) | objects, event window, revision | list, watch, bookmark, relist | list and watch must meet, buffers overflow | a list is a snapshot; clients see a gapless history |
| RBAC snapshot, CRD registrations (`authz/resolve.rs`, `server/listener/base.rs`) | what was loaded and the revisions it was loaded for; the caches that run | check the signature and load; follow the CRDs | they lag behind the cache they follow, and are read from another | never older than they claim |
| node lifecycle (`nodecontroller/src/controllers/node_lifecycle.rs`, `wheel.rs`) | nodes with their taints and last renewal; a timing wheel of checks | Node and Lease events, ticks, patches | timers race with renewals, cached taints go stale, lost answers | silent nodes are tainted, healthy ones are not |
| flow control (`nodeapiserver/src/flowcontrol`) | seats, queues | acquire, queue, time out, release | cancellation while queued | seats are never leaked |
| other controllers (`nodecontroller`) | keyed work queue, shared watches | enqueue, pop, requeue | coalescing and wake-ups | every change is reconciled |
| nodelet, nodeproxy, tools | containers, kernel rules, files | mostly I/O | restarts | not modelled |

How they interact in the models: nodestore's store is shown to be an `EventLog`
and its watch service is written over one; the apiserver's cache is written over
a nodestore that hands its history over in order or cancels, which is what
`Watch` shows; the scheduler and the controller are written over an apiserver
watch that delivers in order or lists again, which is what `Cacher` shows of its
clients.

The properties are chosen from the list of hazards in `PROJECT.json`, each at
the line where it bites.

## 2. Modules

| module | models | state |
|---|---|---|
| `EventLog` | what the store promises a watcher: groups of events, one per revision, retained in full above the compaction point | `log`, `revision`, `compact_revision` |
| `Store` | `store.rs`: one sqlite transaction per command at the grain of the code's loops | `db` the committed database, `tx` the open transaction; history variables `live` (events given to the hub) and `past` (contents by revision) |
| `RbacCache` | the cache in `Store::range` | adds `cache`, and `answer` (the last list served); `filled` in both is history |
| `Replicas` | a leader's and a follower's store under one log, and snapshots between them | adds the follower's store, `cmds` the log, `states` what the leader showed at each index |
| `Raft` | the raft library (external): what a RawNode holds and how it answers | operators only |
| `Replication` | `replication/driver.rs`, `log.rs`, `proposals.rs`: a cluster of members | per member `disk` (raft.db), `store` (state.db, as the commands applied), `raw`, `cached`, `status`, `next_id`; `calls`, every write asked for and what its caller was told; `net` |
| `Node` | `consensus.rs` on one member | the index counter, the mutex, per-task program counters, `published` |
| `Watch` | one Watch stream and its task over an `EventLog` | the hub, `cursor` of the subscription, `watchers`, `task` (the task's program counter and locals), `sent`; history `hist` |
| `LeaderElection` | both copies of the election, as one of two values of `copy` | `lease`, `attempt` (a call of `try_acquire` in progress), `left`, `leading`, `last`, `late` |
| `Scheduler` | the scheduler over an API server: informer, queue, cache, scheduling loop, binding cycles | `api`; events in flight; the informer's `mirror`, `relisting`, `seen`; `active`, `backoff`, `unschedulable`, `in_flight`; `nodes`, `pod_locations`, `assumed`; `todo`, the lock regions each task has still to run; `reports`, the status patches of failed cycles under way |
| `Cacher` | one resource's watch cache and three kinds of readers | `hist`, `compacted` and `listed` (its RBAC list) of nodestore; `reflector`; `cache`; `rx`; `client`, `authorizer`, `registered` |
| `NodeLifecycle` | the node-lifecycle controller and its wheel, for one node | `node`, `lease`, `alive`; events in flight; `cache`, `due`, `behind`, `call`; history `unwatched`, `misled` |
| `MC*` | instances: command alphabets, requests | `MCStore` adds `clients`, `MCReplication` adds `story` |
| `WatchProofs`, `NodeProofs`, `LeaderElectionProofs`, `CacherProofs`, `ReplicationProofs`, `StoreProofs`, `ReplicasProofs`, `SchedulerProofs` | theorems, section 5 | |

`Store` refines `EventLog` (`ImplementsEventLog`, checked in run `store` and
proved in `StoreProofs`), and `Watch` is written over `EventLog`: what it relies
on is what the store was shown to give.

How state and actions correspond to the code:

- **Store.** `Begin` is the head of `apply_at` (it reads the revision, opens
  the transaction, and picks a transaction's branch); `apply_put`,
  `apply_delete`, `revoke_lease` and the others are the helpers of the same
  name, one row per step; `Commit` writes `revision` (only if a row was
  written) and `applied_index` and commits; `Rollback` is a `?` anywhere, and
  `Crash` a process that dies with the transaction open. A reader sees `db`
  only. Values, leases and times are integers; keys are integers because sqlite
  orders them; a range is a set of keys. A transaction's `Range` is a step that
  changes nothing.
- **Watch.** The task of one stream runs in `Select` between requests and
  batches. `create_watch` and `create_replay` are the two halves of the
  function around its first `.await`; `send_group` is one iteration of
  `send_events` with its `flush`, `send_done` the code after it returns;
  `recv` and `recv_lagged` are the two results of `events.recv()`; `dispatch`
  and `resync` are one watcher's turn of those loops, `resync_done` the code
  of a progress request after the loop. The store may write or compact
  between any two of them. tokio's broadcast channel is modelled by what it
  does: the last `Capacity` batches are kept, and a receiver behind them is
  told `Lagged` and continues at the oldest kept. The channel to the client is
  `sent`: a client that does not read stops the task at a send, which is the
  task taking no step.
- **Replication.** One action is one pass of `Driver::run`: a tick, a request
  or a message, and `on_ready` to its end. The driver is one task and touches
  nothing shared between two of a pass's writes, so a pass is atomic - except
  for the death of the process, which `on_ready` lets happen after each write
  (`Die`: the store restored, the log installed, each entry applied, entries
  appended, hard state written, messages sent, and again for the entries
  `advance` commits). `propose` and `handle_propose` are separate because the
  channel between them is where leadership can be lost. Messages are never
  forgotten: one may be read late, again, or never. A leader's appends go out
  before its own log is written (`messages()`); votes and acknowledgements, and
  what a leader counts for itself, only when persisted (`persisted_messages()`).
  `deaths` bounds the deaths still to come. A log keeps its compacted entries,
  below `snap`, as a ghost.
- **LeaderElection.** `Begin`, `Read`, `Write`/`Conflict` are `try_acquire`
  around its two awaits; what it returns is acted on in `Acquired`, `TryAgain`
  and `StopLeading`, the bodies of `acquire` and `renew_until_lost`. The copies
  differ in when they read the clock and in what a conflict means. A request
  whose caller gave up may still be applied (`late`). Time passes in `Tick`, for
  all at once: ages are kept rather than times, and no sleep is overslept, no
  renewal outlasts its timeout and no attempt to acquire outlasts `AnswerTime`.
- **Scheduler.** Every lock region of the queue and of the cache is a step, so
  that the informer, the scheduling loop and the binding cycles meet between any
  two of them; the code between two regions is `todo`, the regions the task still runs. A
  change of the assumed set is a step together with the cache region next to it.
  Which pod of the active queue comes first is left open; the backoff queue
  counts how often it holds a pod, and when it lets one go is open. A cycle that
  failed, by a rejection or an error, spawns `report_unschedulable`: its status
  patch (`Report`) writes the pod at any later time and comes back through the
  watch as an update, as somebody's edit does. A patch that fails leaves no trace,
  so a cycle may have none, and `patches` bounds those that write. `mishaps` records
  what the properties except: `requeued` is an update that found its pod in no queue
  and added it, `unlisted` a node chosen before the cache was told of a pod that
  was bound at the start.
- **Cacher.** Each response the reflector applies is a step, because
  `apply_batch` holds the lock; the broadcast channel keeps its last
  `EventBuffer` events and tells a receiver behind it `Lagged`. A behaviour has
  one kind of reader, since they share nothing but the cache. The authorizer's
  refresh is three steps, one per await: the signature, the revision, the list at
  that revision - which nodestore answers from its own list cache (`listed`, as in
  `RbacCache`), and which anybody else may have filled at any revision. Of the four
  RBAC resources one is modelled; the other three change the signature at will.
- **NodeLifecycle.** A turn of the `select!` is one step up to the patch it
  awaits, and one for the answer. The wheel is kept as the distance to the
  node's entry, with `tick_index_for`'s clamp and `insert`'s horizon. The
  arguments that `run` hands to `insert_jittered` are swapped, so jitter only
  ever delays a check; the model does what the code does.
- **Node.** `submit`, `apply_at` and `publish` are the three moments at which
  another task may run; a command may write, write nothing or fail.

## 3. Runs

| run | question | bounds |
|---|---|---|
| `store` | does one member keep its promises under every kind of client? | two keys; five kinds of clients, each with its own alphabet of commands (`MCCommands`), up to six commands; compactions at revisions 2 to 4; RBAC lists of the current revision and of two past ones |
| `replicas` | does a follower that lags, crashes or is restored answer as the leader did? | three keys (so that a transaction's keys need not be neighbours), four commands, a snapshot at any moment |
| `watch` | is a stream exact across every interleaving, do two watchers on it disturb each other, does every event arrive? | two writes of one or two events, a hub of one batch; a watch from a revision past, compacted or to come, and one of deletions from now on |
| `replication` | do stores agree, is what was acknowledged on disk, does a member with its log start again? | three members, two terms, up to three writes, one death; five stories (below) |
| `node` | are batches published in the store's order? | three tasks, five indexes |
| `election` | is there one leader, who holds the lease, and one again and again? | two replicas of either copy, durations 9, 4, 2 with requests of up to 2, one retry of a conflict, two failures |
| `scheduler` | is no pod lost, no capacity leaked or given twice, and every pod placed that fits? | two pods, a node with room for one, two binding cycles, each kind of fault once, up to one status patch of a rejected pod that writes, ten initial clusters |
| `cacher` | do lists and watches from the cache meet, for clients, authorizer and CRD task? | two objects, four revisions (three for the authorizer), a channel of one event, a window of two, one fault |
| `lifecycle` | do silent nodes get their taint and healthy ones lose it? | a grace of 5 ticks with a jitter of 1, three changes of the node, two faults |
| `v_*` | divergences, see section 6 | |

Why these bounds are enough. In `store`, six commands suffice for a key to be
written, rewritten, compacted, deleted, re-created and compacted again, and
two keys for one transaction to touch a neighbour. In the watch runs the hub
must overflow, which takes one batch more than its capacity, and again after
the resync, and a compaction must overtake the watcher's position; the run
reaches all of these (each mutant in `PROJECT.json` is a plausible bug at one of
those points, and is found). The proofs of section 5 remove the bounds for
what they cover. In `election` the margin of section 5 holds with
one tick to spare in the lease, so that a lapse, a takeover and a late write all
happen; one more tick of anything breaks it. In `scheduler` two pods that want
one place make every refusal, wake-up and race for capacity happen; a cluster in
which a new pod competes with a bound one has the patch of its rejection as well,
early, late or never, and so has each cluster with one pod and a fault that
rejects it, keeps it or edits it. In `cacher`
a window of two and a channel of one overflow within four revisions, and one
fault is a broken stream at any point of the reflector or of the client. In
`lifecycle` two faults are a lost answer followed by a relist or a restart.

`clients` in `MCStore` fixes one kind of client for a behaviour; the kinds
share `Store` and differ in alphabet only, so that each is explored deeper than
their union could be.

`story` in `MCReplication` does the same: writes in flight across a change of
leader (`writes`); appends overtaken by later ones and delivered all the same,
and callers that give up (`delays`); one death anywhere in a pass, with contested
elections (`deaths`); snapshots for a member that fell behind (`snapshots`); an
entry that every store refuses (`refusals`). Deaths and snapshots are kept apart
because together they lead to the divergences of section 6. Split votes are left
to the story of deaths, the only one in which the driver can influence them, and
only `delays` delivers an append that a later one of its term overtook. All
three members have heard of the first election when its winner starts to lead;
a member that first hears of a leader by its append is one the second election
passed by.

**Fairness.** `EventuallyDelivered` needs weak fairness of `Task`, the steps the
stream's task takes without being asked. That is what the tokio scheduler gives
a task that can run and a client that reads its stream. Nothing is assumed of
writers, of compaction, or of the client's requests; progress requests may
arrive for ever, and a `select!` that always prefers them is harmless because
each of them resyncs every watcher. `SomebodyLeads`: clocks run and each
replica's task goes on; nothing is assumed of failing requests but that they are
bounded. `EventuallyPlaced`: each task takes its next step, the API server
answers, and a pod that is again and again the queue's to pop is popped in the
end (strong fairness of `Pop`, since QueueSort is total and a pod's turn comes).
`ClientConverges`: the reflector and the client's task go on; none of progress
requests. `lifecycle`: `tokio::select!` polls ready branches in random order, so
each branch is taken if it is ready again and again; requests are answered.

**Timing.** `election` and `lifecycle` assume what their headers name: a bound
on a request (`AnswerTime`), the kubelet's period, how long an event waits for
an idle controller and how many ticks a turn of the loop may take. No code
bounds these; where it goes wrong beyond them is in section 6.

Deadlock is checked in `election`. In the others the bounds on commands, events
and revisions stop the model, and an idle system is a legitimate end.

## 4. Properties

- `HistoryStable`: a read at any revision not compacted returns what a reader
  saw when that revision was current, and a current read survives compaction.
- `ReplayMatchesLive`, `ReplayServesPrev`: a replay from any accepted revision
  tells what live subscribers were told, once each, with the previous value
  they were given (the latter where no transaction wrote the key twice).
- `VersionsOrderALife`, `NoLostUpdate`: the fields optimistic writers compare
  against number the writes of one life of a key, and a key written only under
  such comparisons never loses one.
- `LeaseRevocationComplete`, `ImplementsEventLog`. `ListIsTruthful`: an RBAC list
  served at any revision is one of the past, and misses no change but those that
  the reading which filled the cache passed over by asking for a revision with a
  change behind it. Those it does miss (section 6).
- `StateMachineSafety`, `ReplicasPublishAlike`, `FollowerNeverRefuses`: the
  three things a replica owes the cluster.
- `StoresAgree`, `OkResultIsDurable`, `OneLeaderPerTerm`, `StartsFromItsLog`,
  `SnapshotHonest`: no two stores have applied different commands, nor one
  twice; the command whose result a caller is given is on a quorum of disks (its own
  or, as ids collide, another's: section 6); votes survive
  a death; a member whose log covers its store starts again, wherever a pass was
  cut short (that every member does, `EveryoneCanStart`, is refuted: section 6); and a
  snapshot carries the state of the index it claims.
- `Gapless`, `InOrder`, `NothingSkipped`, `EventuallyDelivered`: a stream
  delivers to each watcher exactly the events it wants up to its position, one
  response per revision and in order, never behind a progress response, with
  nothing missing up to what its subscription has consumed, and all of it in
  the end.
- `OneLeader`, `LeaderHoldsLease`: nobody's work runs but that of the replica the
  lease names, and the lease has not lapsed. `StopsOnlyWhenTaken`: the
  scheduler's copy takes no late write of its own for another's.
  `SomebodyLeads`: failures and crashes leave a leader in the end.
- `NobodyLost`: a pod the informer has told of, and not yet placed, is always in
  a queue, in a task's hands or announced by an event to come.
  `NotOvercommitted`: no node is given more pods than fit, and `CacheSettles`:
  when nothing is in flight, the pods and assumptions in the cache are those of
  the API server. Both hold through rejections and the status patches these
  send, and in every run without the mishaps of `Parted`: an unanswered bind; an
  update, of such a patch or any other, that found its pod in no queue because it
  was in a cycle or between two queues; a relist; a node that left, or one the
  cache had not seen yet. `NotOvercommitted` also excepts a node chosen before
  the cache was told of the pods bound at the start. In each of these the code
  fails (section 6). `EventuallyPlaced`: a pod that
  keeps fitting is bound, whatever woke or parked it.
- `CacheIsASnapshot`: a list from the cache is the store at the revision it
  carries. `CaughtUp`, `ClientConverges`: a client that has drained its stream
  has what the cache has, and in the end what the store has.
  `AuthorizerUpToDate`: permissions include every change the caches have, but for
  those the reading of their list passed over, as in `ListIsTruthful`.
  `RegistrationsFollow`: the caches that run are those of the CRDs heard of.
- `SilentNodesAreTainted`, `LiveNodesRecover`: a recorded node that stops renewing
  becomes unreachable, and a healthy one loses its taint, through renewals,
  refusals, relists and restarts. Both exempt a controller whose cached taint was
  never the node's (`misled`: a lost answer, a relist over a deletion), and the
  first a node whose last check was used up by a refused patch or refused by the
  wheel (`unwatched`): there the code fails (section 6).
- `PublishedInOrder`: whoever can take the mutex finds every revision broadcast.

## 5. Proofs

`WatchProofs` proves, for any keys, watch ids, requests, commands, hub capacity
and revision bound, `Spec => []TypeOK`, `[]Gapless`, `[]InOrder` and
`[]NothingSkipped`, from the assumptions of `Watch` only (typed requests and
writes, a positive capacity).

`Gapless` is not inductive: it says nothing of the history the task holds in
its hands, nor of how far the subscription has gone. The inductive invariant
`IInv` adds

- `Creating`: a watch about to join has been sent nothing and, if it asked for
  no replay, stands at or after the subscription's position;
- `SendingAll`: the pending history is complete up to whatever the position
  will be moved to, and up to the subscription's position;
- `Positioned`: every watcher the task is not about to serve has nothing
  undelivered at or below the subscription's position, and in a dispatch the
  others lack just that batch;
- `Acknowledged`: no response is ahead of its watcher's position.

There is one lemma per action (`...Inv`), each with one step per conjunct the
action can disturb; `Respond*` lemmas say what appending a response does to
what was delivered and in which order.

`NodeProofs` proves `Spec => []PublishedInOrder` for any set of tasks: the
holder of the mutex is the one task with a batch still to publish, and it is
the batch of the store's own revision.

`LeaderElectionProofs` proves, for any replicas and durations with the margin

    Margin == Slowest + RenewDeadline + 2 * RetryPeriod <= LeaseDuration + 1

`Spec => []TypeOK`, `[]OneLeader`, `[]LeaderHoldsLease` and
`[]StopsOnlyWhenTaken`. `ElectionConfig::validate` asks for `RetryPeriod <
RenewDeadline < LeaseDuration` only; the margin is what the code really uses up:
the renewTime written is older than the answer by as much as a request takes
(`Slowest`), and the deadline is looked at a sleep and an attempt late. The
invariant is not inductive: a leader's lease is safe only because nobody else
can be about to write it. `IInv` adds that the writer of the lease is the one
whose read is still fresh, that a leader's `last` bounds the age of the lease in
each phase of an attempt, that a standby's fresh read of another's lease was
made after it lapsed, and that a late write left over is its own process's or
will be refused. One lemma per action, and for time one lemma that a tick takes
no leader past its lease (`LeaseLasts`).

`StoreProofs` proves every invariant of `Store` and `RbacCache` that run `store`
checks, and the refinement, for any keys, commands, transactions of any length
and bound of revisions:
`[]TypeOK`, `[]HistoryStable`, `[]ReplayMatchesLive`, `[]ReplayServesPrev`,
`[]VersionsOrderALife`, `[]NoLostUpdate`, `LeaseRevocationComplete`, `ImplementsEventLog` and
`ListIsTruthful`. None of these is inductive, because a transaction writes row by
row and a compaction takes rows away. The invariant is stated of a *view*: what
is committed is one (`DbInv`), what the open transaction sees is another
(`TxInv`), and each row written turns a view into a view. A view has rows
numbered by (revision, sub) with no number twice (`Numbered`) and none left out
in the open revision (`Dense`), one live row per key below the compaction point
(`Compacted`), the same answer to every read above it as when that revision was
current (`History`), and an event for every row above it with the value the row
superseded (`Announced`). One theorem has a hypothesis that names where the
code falls short (section 6): `VersionsNumberALife` asks that no transaction
puts, deletes and puts one key (`OneLifePerTxn`). For the cached list the
invariant is that the RBAC objects of every revision since it was filled are
those of the revision it was filled at (`CacheIsCurrent`), whichever it is of.

`ReplicasProofs` proves the three properties of `Replicas`, for any commands and
any number of them: `[]StateMachineSafety`, `[]ReplicasPublishAlike` and
`FollowerNeverRefuses`. The two members' rows differ once the follower has
started from a snapshot (it has no history, and its rows are numbered anew), so
no equality of databases is invariant. An `Outline` is what an operation really
depends on: the current contents, leases, members, counters, what is left to
run and what was written so far. `RanActs` shows, operation by operation, that
two transactions of one outline refuse together or go on to one outline
(`Refuses`, `Goes`); nothing else about rows matters. The invariant `RInv` is
then about executions of outlines (`Reaches`): for every entry of the log there
is one from the state before it to the state after it whose events the leader's
watchers were told (`Recorded`); the leader's open transaction is on an
execution that its commit will record, the follower's on the one recorded
for its entry. Since an execution never passes through a refusal, the follower
meets none. `RestoredIsGood` shows that a store restored from a snapshot, where
restoring succeeds, is observed as the one it was taken of. It rests on the
invariant of `StoreProofs` for the leader.

`CacherProofs` proves, for any objects, windows, channels, faults and
compactions, `[]CacheIsASnapshot`, `[]CaughtUp` (for clients without a selector,
`Labels = {TRUE}`: with one it is refuted, section 6), `[]AuthorizerUpToDate` and
`[]RegistrationsFollow`. What makes them inductive is `Stream(p, s)`: the ring,
the replay a client holds and the queue of a receiver each go through the
history from their position on, in order, and nothing of this resource was
written between two of their events. What a reader has plus what is still to
come to it is then always what the cache has. For the authorizer it is that
nothing was written to its resource since nodestore read the list it keeps
(`ListInv`), and that every write up to the signature is in the snapshot or was
passed over by its list (`AuthorizerInv`).

`ReplicationProofs` proves the five invariants run `replication` checks, for any
finite set of members, any number of terms and writes, deaths between any two
writes of a pass, restarts, and messages delayed, lost or repeated.

- `[]OneLeaderPerTerm`: a vote is on its voter's disk before anybody can read it
  (`VoteIsOnDisk`, `VotesKept`), so that a member that died cannot vote twice, and
  a leader had the votes of a quorum (`LeadersWereElected`); two quorums meet.
- `[]StartsFromItsLog`, whatever snapshots are sent and whatever entries they
  leave behind. The invariant (`SizesInv`) is that no commit index runs beyond
  its log - on disk, in memory, in a message, and between any two writes of a
  pass, where the log may be new and the hard state old.
- `[]OkResultIsDurable`. The invariant (`DurableInv`) is stated over the disks and over
  what was sent (`LogInv(D, N)`), so that each write and each message of a pass is
  a step of its own (`WritesDisk`, `SendsAppend`, `SaysMore`): what a member
  acknowledged of an append is on its disk, or can never reach a quorum
  (`AckedIsOnDisk`, `Blocked`); a later leader has what a quorum may still hold
  (`LaterLeaders`); what is applied, and told, a quorum holds (`CommitsOK`,
  `OkIsChosen`). That a leader's appends overtake its own write is why a leader
  counts itself only once it has written (`persisted_messages`).
- `[]StoresAgree` and `[]SnapshotHonest`: a store holds exactly the commands of
  its log up to an index (`StoreFull`), no log has a command twice (`CmdsOnce`),
  and logs share what is committed (`CommittedAgree`).

The last three theorems have hypotheses, each where the code falls short without
it (section 6). `LogsReach`: no member is sent a snapshot. Installing one keeps
whatever entries stand above it (`log.rs:321`), and a death before it is
installed leaves the store ahead of its log, so after it a disk no longer holds a
log that anybody sent. `TailIsReplayable`, for the stores: what the log has
compacted away is in the store. A power cut can undo that
(`driver.rs:853`); `OnlyPowerCutsLoseCompacted` shows that nothing else does.

`SchedulerProofs` proves, for any finite sets of pods and nodes, any number of
binding cycles, any clusters to start from and any faults, `[]TypeOK` and
`[]NobodyLost`. `NobodyLost` is not inductive: a removal takes a pod from the
queues, and is right only because the news behind it is of a pod that was bound
or is going, and will not be pending again. `IInv` therefore adds that what the
streams and the mirror tell was true of the API server in a way that still
shows (`Timely`), that every removal still to run is of such a pod
(`Removals`), and for a relist, which removes what did not come back, that every
pending pod the mirror has is in the list before its end (`Relist`). One lemma
per action; three of them carry the weight: `TaskKeeps` (a task that takes up
regions, and hands on the pods it had, keeps the invariant), `Written` (a write
at the API server and its news) and `ConsumedKeeps` (an event taken from the
stream). `StartsAssumption` asks what an API server guarantees of the pods it
starts with: a pod is bound exactly when it names a node.

Its last part proves the two properties of the cache, `[]CacheSettles` and, of
clusters with room at the start (`StartsFit`), `[]NotOvercommitted`. Both speak of
runs without the mishaps of `Parted`, and neither is inductive:

- `Settled` accounts for every region of every task. A pod is in one place of the
  scheduler at most (`Alone`: told by one event, in one queue, or in the hands of
  one task once), so one task at a time speaks for it; each task runs one of a few
  sequences of regions (`LoopForm`, `BinderForm`, `WatchForm`); the stream tells of
  a pod in order (`Ordered`); and whatever the cache and the API server disagree
  about is still under way, as news or as a region (`Account`). At rest nothing is,
  and `Account` is then `CacheSettles`. One lemma per action shows that the action
  keeps `Settled`, whatever else is under way.
- `Room` counts for each node its claimants: the pods the cache has there, the one
  the loop is about to put there, and the bound ones the watch has still to tell
  of. Every lemma also shows that its action adds no claimant (`Settles`), except
  the loop's choice of a node: that one has counted the pods in the cache, so there
  may be no bound pod it has not been told of. `Listing` says that such a pod has
  not been told of since the start - whatever is bound later was assumed before -
  which is what the mishap `unlisted` records: the loop starts without waiting for
  the first list (`nodescheduler/src/lib.rs:187`), and gives a pod listed first
  the place of a bound one listed after it (section 6).

Only model-checked:

- the liveness properties (`EventuallyDelivered`, `SomebodyLeads`,
  `EventuallyPlaced`, `ClientConverges`) and, with them, `SilentNodesAreTainted`
  and `LiveNodesRecover`: liveness under fairness is out of the prover's reach;
- what snapshots sent do to `StoresAgree`, `OkResultIsDurable` and `SnapshotHonest`
  (story `snapshots`): the theorems exclude them;
- nothing is proved of `NotOvercommitted` and `CacheSettles` in runs with a mishap
  of `Parted`, each of which parts the cache from the cluster, or of
  `NotOvercommitted` where a node is over its capacity at the start.

## 6. Divergences

Runs that TLC must find violated, with the text they contradict in
`PROJECT.json`:

- `v_two_leaders`: with the default durations and requests of three seconds a
  leader works on while another takes the lapsed lease.
- `v_gated`: a gated pod reaches the active queue through the sweep of pods
  parked too long.
- `v_poison`: a command the store refuses - a `Compact` that another compaction
  has overtaken - stops the driver of every member, and again after a restart.

Known not to hold. These are stated in the modules and TLC refutes each with the
change of configuration given; they are no runs of the project:

| property | how to see it | what happens |
|---|---|---|
| `Truthful` | `Replication`, `v_poison.cfg` with `Refuses = {}`, two terms, two calls | proposal ids count up from 1 in every process and an entry does not say whose it is (`proposals.rs:63`): a new leader answers its caller with the result of its predecessor's command |
| `LostDidNotHappen` | the same | a write whose caller was told "it did not happen" (`driver.rs:876`) is committed by the next leader that has it |
| `TailIsReplayable` | the same, with `MaxDeaths = 1`, `PowerLoss = TRUE` | the log is compacted over store transactions that were never synced (`driver.rs:853`) |
| `SnapshotRestorable` | `replicas.cfg` | a snapshot cannot be restored when keys of one transaction are not neighbours (`store.rs:593`) |
| `NothingStranded` | `scheduler.cfg` | an event between the replay and the parking of a pod is lost to it until the five-minute sweep (`queue/mod.rs:343`) |
| `NeverOvercommitted` | `scheduler.cfg` | a pod updated while in a cycle - by the late patch of its own rejection, an edit or a lifted gate - is queued and bound twice over, and a bind that went unanswered is taken back (`assume.rs:97`); and the loop does not wait for the first list (`nodescheduler/src/lib.rs:187`): a pod listed first is given the place of a bound one |
| `ListIsCurrent` | `store.cfg` | a list of RBAC objects at a past revision takes the place of the one cached, and is served as the current one until the next RBAC write (`store.rs:348`) |
| `AuthorizerHasAll` | `cacher.cfg` | such a list, asked for by another request that had read its revision before a write (`authz/resolve.rs:81`), is kept under the signature that has the write: permissions lack it until the next RBAC write. A relist of the RBAC caches can be given it too (`cacher/driver.rs:35`) |
| `NeverBackwards` | `cacher.cfg` | a watch resumed from a list ahead of the cache shows its client older events |
| `CaughtUp` | `cacher.cfg` with `Labels = {TRUE, FALSE}` | an object that stops matching a selector leaves no DELETED event (`watch_stream.rs:99` says "a narrowing, never a hiding, mechanism") |
| `CrdCachesConverge` | `cacher.cfg` | after a relist of the CRD cache its task has ended (`base.rs:208`), and CRDs come and go without their caches |
| `ReadyNodesAreUntainted` | `lifecycle.cfg` | a lost answer, or a relist that hides a deletion, leaves a cached taint the node never had: a Ready node keeps not-ready for ever (`node_lifecycle.rs:203`) |

Read off the code, without a property:

- a stream on a member that restores a snapshot moves past events it never sent,
  since the restore tells the hub nothing (`consensus.rs:255`);
- a snapshot taken when the last applied entry is a new leader's empty one
  (`driver.rs:853`) has an index that the store's `applied_index` does not
  reach; on the next start the raft library refuses the pair (`EveryoneCanStart`
  fails on `Replication` once one death and a snapshot may meet);
- a death between restoring the store and installing the snapshot in the log
  (`driver.rs:820`) leaves a log that ends below `applied_index`, or a
  discarded suffix that `reconcile_commit_with_applied` then commits;
- a replayed `prev_kv` can be another write of the same transaction, or missing
  (`store.rs:420`);
- two racing proposals on a single member can leave `applied_index` at the
  lower index (`consensus.rs:121`);
- a restored member accepts reads and replays below its snapshot over rows it
  does not have (`store.rs:552` carries the leader's `compact_revision`);
- a `Range` inside a transaction skips the compaction and future checks
  (`store.rs:919`), and a range outside one does not ask the quorum
  (`server/mod.rs:299`);
- a key created, deleted and created again within one transaction has two lives
  with one `create_revision`; a put may name a lease already revoked
  (`store.rs:817`);
- a relist of the scheduler's informer forgets a pod bound to a node that the
  new list has not (`nodescheduler/src/watch.rs:1177`), and pods listed before
  their node are not counted (`cache/snapshot.rs:371`);
- a patch refused at a tick of the wheel is not asked for again, although the
  code says it "will retry on the next event": a dead node has none; a check is
  lost when the wheel refuses it as beyond its horizon, which happens when the
  loop is two ticks behind; and a Lease event that precedes its Node event is
  dropped, so a restarted controller may not know of a dead node at all;
- the patch replaces the whole list of taints, and so undoes a concurrent change
  of others, which `node_lifecycle.rs:94` says "passes through untouched".

## 7. Not modelled, and abstractions

sqlite, encodings, sorting and limits of a range, values as bytes. In `Watch`:
each id is used once (the code lets an automatic id collide with a chosen one),
sqlite errors in mid-stream and the end of the stream are left out, the
subscription starts over an empty store, and the hub's capacity is what tokio
rounds it to. In `Replication`: membership
changes, the conversion of a single member, leadership transfer and pre-vote are
left out, an append carries all that its receiver lacks, and when a snapshot is
taken is left open. In `Scheduler`: preemption and nominated pods, plugins that
ask to wait, Permit, volumes but for the events they raise, pods of other
schedulers, and a pod replaced by one of its name. In `Cacher`: namespaces,
conversion, transactions of several keys, decoding failures. In `LeaderElection`:
clocks that disagree, and a Lease deleted under its holder. In `NodeLifecycle`:
other owners' taints, and more than one node. The components of section 1 that have no module
are listed in `PROJECT.json` with the reason.

## 8. Plan

What is left, in order of importance:

1. Proofs: `OkResultIsDurable` of `Replication` over snapshots that leave no
   discarded suffix; that a recorded live node
   always has a check in the wheel (`NodeLifecycle`).
2. `Replication`, continued: membership changes with their address book, reads
   that do not ask the quorum, the compaction and expiry loops.
3. The work queue and shared watches of nodecontroller, flow control, and
   preemption.
