-------------------------- MODULE SchedulerProofs --------------------------
(***************************************************************************)
(* Theorems about Scheduler: its type invariant, that no pod the cluster   *)
(* still waits for is lost between the queues, that the cache counts at    *)
(* rest what the cluster runs, and that no node is overcommitted.          *)
(*                                                                         *)
(* NobodyLost is not inductive.  A pod leaves the queues by a removal, and *)
(* a removal is right only because the news it follows is of a pod that is *)
(* past being pending and never will be again: so what the streams and the *)
(* regions still to run say must agree with the API server (Timely,        *)
(* Removals).  A relist removes what did not come back, which is right     *)
(* only because every pending pod the watch knew is in the list, from the  *)
(* start of the list to its end (Relist).                                  *)
(*                                                                         *)
(* The cache is in step, where nothing parted it from the cluster, because *)
(* the scheduler has a pod in one place only (Alone), so that one task     *)
(* speaks for it, and because whatever the cache and the API server        *)
(* disagree about is still under way: news, or a region to run (Account).  *)
(* A node has room because every pod that counts on it is one of its       *)
(* Claimants from the loop's choice on, and because the loop has chosen    *)
(* nothing while a bound pod has still to be told since the start          *)
(* (Listing).                                                              *)
(***************************************************************************)
EXTENDS Scheduler, FiniteSetTheorems, FunctionTheorems, SequenceTheorems, TLAPS

-----------------------------------------------------------------------------
(* The inductive invariant *)

Signals == {"PodDeleted", "NodeAdded", "VolumeChanged", "PodBound", "GateRemoved"}

\* regions that hold a pod
PodOps  == {"add", "update", "update_backoff", "push_active", "push_backoff",
            "cycle"}
Carrying == PodOps \cup {"replay", "park", "spawn", "bind"}

Endings == [op : {"remove_pod", "forget"}, uid : Pods]
           \cup [op : {"record", "sweep"}, event : Signals]

Regions ==
    [op : PodOps, pod : PodInfo]
    \cup [op : {"replay", "park"}, pod : PodInfo, plugins : SUBSET Plugins]
    \cup [op : {"spawn", "bind"}, pod : PodInfo, node : Nodes]
    \cup [op : {"remove"}, uid : Pods, then : Seq(Endings)]
    \cup [op : {"remove_backoff"}, uid : Pods]
    \cup Endings
    \cup [op : {"add_pod"}, uid : Pods, node : Nodes, assumed : Nodes \cup {None}]
    \cup [op : {"upsert_node", "remove_node"}, node : Nodes]
    \cup [op : {"done"}]

News == [type : {"Apply", "Delete"}, uid : Pods, gated : BOOLEAN,
         node : Nodes \cup {None}, state : States]
PodEvents  == News \cup [type : {"Init", "InitDone"}]
NodeEvents == [type : {"Apply", "Delete"}, node : Nodes]

\* the pod was scheduled, or is going: it will not be pending again
Past(p) == api[p].state \in {"bound", "terminating", "gone"}

Api ==
    /\ api \in [Pods -> Pod]
    /\ \A p \in Pods : api[p].state = "bound" => api[p].node # None
    /\ \A p \in Pods : api[p].node # None => Past(p)
    /\ api_nodes \subseteq Nodes
    /\ node_stream \in Seq(NodeEvents)
    /\ pod_stream \in Seq(PodEvents)

Watching ==
    /\ mirror \in [Pods -> [gated : BOOLEAN, node : Nodes \cup {None}] \cup {None}]
    /\ relisting \in BOOLEAN
    /\ seen \subseteq Pods

Queues ==
    /\ active \subseteq PodInfo
    /\ \A p, q \in active : p.uid = q.uid => p = q
    /\ unschedulable \in [Pods -> Entry \cup {None}]
    /\ \A p \in Pods : unschedulable[p] # None => unschedulable[p].pod.uid = p
    /\ backoff \in [PodInfo -> Nat]
    /\ in_flight \in [uid : Pods, events : SUBSET Signals] \cup {None}

Cached ==
    /\ nodes \subseteq Nodes
    /\ pod_locations \in [Pods -> Nodes \cup {None}]
    /\ assumed \in [Pods -> Nodes \cup {None}]
    /\ \A p \in Pods : pod_locations[p] # None => pod_locations[p] \in nodes

Tasked == todo \in [Tasks -> Seq(Regions)]

\* what the watch was told, and is being told, is true of the API server, or
\* was, in a way that still shows
Timely ==
    /\ \A p \in Pods : mirror[p] # None => api[p].state # "none"
    /\ \A k \in DOMAIN pod_stream :
         LET ev == pod_stream[k] IN
         /\ ev.type \in {"Apply", "Delete"} => api[ev.uid].state # "none"
         /\ ev.type = "Delete" => Past(ev.uid)
         /\ ev.type = "Apply" /\ (ev.node # None \/ ev.state = "terminating")
              => Past(ev.uid)

\* nothing takes a pending pod from the queues for good
Removals ==
    \A t \in Tasks : \A i \in DOMAIN todo[t] :
        todo[t][i].op \in {"remove", "remove_backoff"} => Past(todo[t][i].uid)

IsAt(k, kind) == k \in DOMAIN pod_stream /\ pod_stream[k].type = kind
Coming(p, k)  == \E i \in 1 .. (k - 1) : IsAt(i, "Apply") /\ pod_stream[i].uid = p

\* a list starts the stream and ends once, and a pending pod that the watch knew
\* has been listed before it ends
Relist ==
    /\ \A k \in DOMAIN pod_stream : IsAt(k, "Init") => k = 1
    /\ \A k, l \in DOMAIN pod_stream :
         IsAt(k, "InitDone") /\ IsAt(l, "InitDone") => k = l
    /\ \A k \in DOMAIN pod_stream : IsAt(k, "InitDone") =>
         /\ IsAt(1, "Init") \/ relisting
         /\ \A p \in Pods : api[p].state = "pending" /\ mirror[p] # None
              => Coming(p, k) \/ (p \in seen /\ ~IsAt(1, "Init"))

Shape == Api /\ Watching /\ Queues /\ Cached /\ Tasked
IInv  == Shape /\ Timely /\ Removals /\ Relist /\ NobodyLost

-----------------------------------------------------------------------------
(* Vocabulary of the proof *)

\* region r is still to run
Under(r) == \E t \in Tasks : \E i \in DOMAIN todo[t] : todo[t][i] = r

Removal(r)    == r.op \in {"remove", "remove_backoff"}
Holds(r, p)   == r.op \in Carrying /\ r.pod.uid = p
InHands(p)    == \E r \in Regions : Under(r) /\ Holds(r, p)
InFront(t, p) == todo[t] # << >> /\ Holds(Arg(t), p)

\* regions that may be put before a task, and whether one of them holds p
Safe(ops) == /\ ops \in Seq(Regions)
             /\ \A i \in DOMAIN ops : Removal(ops[i]) => Past(ops[i].uid)
Carries(ops, p) == \E i \in DOMAIN ops : Holds(ops[i], p)

\* a task takes up ops, in the middle of a handler or at the start of one
Runs(t, ops) == \/ todo[t] # << >> /\ Goto(t, ops)
                \/ Begin(t, ops)

\* what is in a queue or in front of the task is so after it
Handed(t, ops) ==
    \A p \in Pods : api[p].state = "pending" /\ (Queued(p) \/ InFront(t, p))
                      => Queued(p)' \/ Carries(ops, p)

-----------------------------------------------------------------------------
(* Sequences and regions *)

\* SetToSeq lists a finite set, all of it.
LEMMA SetToSeqLists ==
    ASSUME NEW S, IsFiniteSet(S)
    PROVE  /\ Cardinality(S) \in Nat
           /\ SetToSeq(S) \in [1 .. Cardinality(S) -> S]
           /\ \A x \in S : \E i \in 1 .. Cardinality(S) : SetToSeq(S)[i] = x
<1>1. Cardinality(S) \in Nat /\ ExistsBijection(1 .. Cardinality(S), S)
  BY FS_CardinalityType
<1> DEFINE n == Cardinality(S)
           s == SetToSeq(S)
<1>2. \E f \in [1 .. n -> S] : IsInjective(f)
  BY <1>1 DEF ExistsBijection, Bijection, Injection, IsInjective
<1>3. s \in [1 .. n -> S] /\ IsInjective(s)
  BY <1>2 DEF SetToSeq
<1>4. s \in Injection(1 .. n, S)
  BY <1>3 DEF Injection, IsInjective
<1>5. IsFiniteSet(1 .. n) /\ Cardinality(1 .. n) = n
  BY <1>1, FS_Interval
<1>6. s \in Surjection(1 .. n, S)
  BY <1>4, <1>5, FS_Injection
<1> QED  BY <1>1, <1>3, <1>6 DEF Surjection

LEMMA ListedOnce ==
    ASSUME NEW S, IsFiniteSet(S)
    PROVE  \A i, j \in 1 .. Cardinality(S) : SetToSeq(S)[i] = SetToSeq(S)[j] => i = j
<1>1. Cardinality(S) \in Nat /\ ExistsBijection(1 .. Cardinality(S), S)
  BY FS_CardinalityType
<1> DEFINE n == Cardinality(S)
           s == SetToSeq(S)
<1>2. \E f \in [1 .. n -> S] : IsInjective(f)
  BY <1>1 DEF ExistsBijection, Bijection, Injection, IsInjective
<1>3. s \in [1 .. n -> S] /\ IsInjective(s)
  BY <1>2 DEF SetToSeq
<1> QED  BY <1>3 DEF IsInjective

\* The fields a region has.
LEMMA RegionFields ==
    ASSUME NEW r \in Regions
    PROVE  /\ r.op \in Carrying => r.pod \in PodInfo /\ r.pod.uid \in Pods
           /\ r.op \in {"replay", "park"} => r.plugins \in SUBSET Plugins
           /\ r.op \in {"spawn", "bind"} => r.node \in Nodes
           /\ r.op = "remove" => r.then \in Seq(Endings)
           /\ r.op \in {"remove", "remove_backoff", "remove_pod", "forget",
                        "add_pod"} => r.uid \in Pods
           /\ r.op \in {"record", "sweep"} => r.event \in Signals
           /\ r.op = "add_pod" => r.node \in Nodes /\ r.assumed \in Nodes \cup {None}
           /\ r.op \in {"upsert_node", "remove_node"} => r.node \in Nodes
  BY DEF Regions, Endings, Carrying, PodOps, PodInfo

LEMMA EndingsAreRegions == Seq(Endings) \subseteq Seq(Regions)
  BY DEF Regions

LEMMA EndingsAreSafe ==
    ASSUME NEW ops \in Seq(Endings)
    PROVE  Safe(ops) /\ \A p \in Pods : ~Carries(ops, p)
<1>1. ops \in Seq(Regions)
  BY EndingsAreRegions
<1>2. \A i \in DOMAIN ops : ops[i] \in Endings
  OBVIOUS
<1>3. \A r \in Endings : ~Removal(r) /\ r.op \notin Carrying
  BY DEF Endings, Removal, Carrying, PodOps
<1> QED  BY <1>1, <1>2, <1>3 DEF Safe, Carries, Holds

LEMMA SafeConcat ==
    ASSUME NEW a, NEW b, Safe(a), Safe(b)
    PROVE  /\ Safe(a \o b)
           /\ \A p : Carries(a \o b, p) <=> Carries(a, p) \/ Carries(b, p)
<1>1. a \in Seq(Regions) /\ b \in Seq(Regions)
  BY DEF Safe
<1>2. /\ a \o b \in Seq(Regions) /\ Len(a \o b) = Len(a) + Len(b)
      /\ Len(a) \in Nat /\ Len(b) \in Nat
      /\ DOMAIN a = 1 .. Len(a) /\ DOMAIN b = 1 .. Len(b)
      /\ DOMAIN (a \o b) = 1 .. Len(a) + Len(b)
  BY <1>1
<1>3. \A i \in DOMAIN a : i \in DOMAIN (a \o b) /\ (a \o b)[i] = a[i]
  BY <1>1, <1>2
<1>4. \A i \in DOMAIN b : Len(a) + i \in DOMAIN (a \o b) /\ (a \o b)[Len(a) + i] = b[i]
  BY <1>1, <1>2
<1>5. \A i \in DOMAIN (a \o b) :
        \/ i \in DOMAIN a /\ (a \o b)[i] = a[i]
        \/ \E j \in DOMAIN b : (a \o b)[i] = b[j]
  <2> TAKE i \in DOMAIN (a \o b)
  <2>1. CASE i <= Len(a)
    BY <2>1, <1>2, <1>3
  <2>2. CASE i > Len(a)
    <3>1. i - Len(a) \in DOMAIN b /\ i = Len(a) + (i - Len(a))
      BY <2>2, <1>2
    <3> QED  BY <3>1, <1>4
  <2> QED  BY <2>1, <2>2, <1>2
<1>6. Safe(a \o b)
  BY <1>2, <1>5 DEF Safe
<1>7. ASSUME NEW p PROVE Carries(a \o b, p) <=> Carries(a, p) \/ Carries(b, p)
  BY <1>3, <1>4, <1>5 DEF Carries
<1> QED  BY <1>6, <1>7

LEMMA SafeEmpty == Safe(<< >>) /\ \A p : ~Carries(<< >>, p)
  BY DEF Safe, Carries

LEMMA SafeOne ==
    ASSUME NEW r \in Regions, Removal(r) => Past(r.uid)
    PROVE  Safe(<< r >>) /\ \A p : Carries(<< r >>, p) <=> Holds(r, p)
<1>1. << r >> \in Seq(Regions) /\ DOMAIN << r >> = {1} /\ << r >>[1] = r
  OBVIOUS
<1> QED  BY <1>1 DEF Safe, Carries

\* The handlers that hold a pod.
LEMMA HoldingHandlers ==
    ASSUME NEW pod \in PodInfo, NEW op \in PodOps
    PROVE  /\ Safe(<< [op |-> op, pod |-> pod] >>)
           /\ Carries(<< [op |-> op, pod |-> pod] >>, pod.uid)
<1>1. [op |-> op, pod |-> pod] \in Regions
  BY DEF Regions
<1>2. ~Removal([op |-> op, pod |-> pod]) /\ Holds([op |-> op, pod |-> pod], pod.uid)
  BY DEF Removal, Holds, PodOps, Carrying
<1> QED  BY <1>1, <1>2, SafeOne

LEMMA QueueingHandlers ==
    ASSUME NEW pod \in PodInfo
    PROVE  /\ Safe(add(pod)) /\ Carries(add(pod), pod.uid)
           /\ Safe(update(pod)) /\ Carries(update(pod), pod.uid)
           /\ Safe(push(pod)) /\ Carries(push(pod), pod.uid)
           /\ Safe(retry(pod)) /\ Carries(retry(pod), pod.uid)
           /\ Safe(return(pod)) /\ Carries(return(pod), pod.uid)
<1>1. {"add", "update", "push_active", "push_backoff"} \subseteq PodOps
  BY DEF PodOps
<1> QED  BY <1>1, HoldingHandlers DEF add, update, push, retry, return

LEMMA Parking ==
    ASSUME NEW pod \in PodInfo, NEW plugins \in SUBSET Plugins, NEW op \in {"replay", "park"}
    PROVE  /\ Safe(<< [op |-> op, pod |-> pod, plugins |-> plugins] >>)
           /\ Carries(<< [op |-> op, pod |-> pod, plugins |-> plugins] >>, pod.uid)
<1> DEFINE r == [op |-> op, pod |-> pod, plugins |-> plugins]
<1>1. r \in Regions
  BY DEF Regions
<1>2. ~Removal(r) /\ Holds(r, pod.uid)
  BY DEF Removal, Holds, Carrying
<1> QED  BY <1>1, <1>2, SafeOne

LEMMA Binding ==
    ASSUME NEW pod \in PodInfo, NEW n \in Nodes, NEW op \in {"spawn", "bind"}
    PROVE  /\ Safe(<< [op |-> op, pod |-> pod, node |-> n] >>)
           /\ Carries(<< [op |-> op, pod |-> pod, node |-> n] >>, pod.uid)
<1> DEFINE r == [op |-> op, pod |-> pod, node |-> n]
<1>1. r \in Regions
  BY DEF Regions
<1>2. ~Removal(r) /\ Holds(r, pod.uid)
  BY DEF Removal, Holds, Carrying
<1> QED  BY <1>1, <1>2, SafeOne

\* The handlers that hold none.
LEMMA OtherHandlers ==
    /\ \A ev \in Signals : move_all(ev) \in Seq(Endings)
    /\ \A p \in Pods : forget(p) \in Seq(Endings) /\ release(p) \in Seq(Endings)
    /\ \A p \in Pods, n \in Nodes : Safe(assume(p, n)) /\ Safe(confirm(p, n))
    /\ Safe(done)
<1>1. \A ev \in Signals : move_all(ev) \in Seq(Endings)
  BY DEF move_all, Endings
<1>2. \A p \in Pods : forget(p) \in Seq(Endings) /\ release(p) \in Seq(Endings)
  BY DEF forget, release, Endings
<1>3. ASSUME NEW p \in Pods, NEW n \in Nodes, NEW m \in Nodes \cup {None}
      PROVE  Safe(<< [op |-> "add_pod", uid |-> p, node |-> n, assumed |-> m] >>)
  <2>1. [op |-> "add_pod", uid |-> p, node |-> n, assumed |-> m] \in Regions
    BY DEF Regions
  <2> QED  BY <2>1, SafeOne DEF Removal
<1>4. Safe(done)
  <2>1. [op |-> "done"] \in Regions
    BY DEF Regions
  <2> QED  BY <2>1, SafeOne DEF Removal, done
<1> QED  BY <1>1, <1>2, <1>3, <1>4 DEF assume, confirm

\* A removal is safe when the pod is past being pending.
LEMMA Dequeuing ==
    ASSUME NEW p \in Pods, Past(p), NEW ops \in Seq(Endings)
    PROVE  Safe(dequeue(p, ops))
<1>1. [op |-> "remove", uid |-> p, then |-> ops] \in Regions
  BY DEF Regions
<1> QED  BY <1>1, SafeOne DEF dequeue

LEMMA Removing ==
    ASSUME NEW p \in Pods, Past(p)
    PROVE  /\ Safe(remove(p))
           /\ \A n : Safe(remove_deleted(p, n))
<1>1. << >> \in Seq(Endings)
  OBVIOUS
<1>2. release(p) \o move_all("PodDeleted") \in Seq(Endings) /\ forget(p) \in Seq(Endings)
  BY OtherHandlers DEF Signals
<1> QED  BY <1>1, <1>2, Dequeuing DEF remove, remove_deleted

-----------------------------------------------------------------------------
(* A task takes up regions *)

\* What is under way after a task took up ops: all that was, but the region the
\* task was at, and ops.
LEMMA RunsRegions ==
    ASSUME Tasked, NEW t \in Tasks, NEW ops, Safe(ops), Runs(t, ops)
    PROVE  /\ Tasked'
           /\ \A r : Under(r)' => Under(r) \/ \E j \in DOMAIN ops : ops[j] = r
           /\ \A r : Under(r) => Under(r)' \/ (todo[t] # << >> /\ r = Arg(t))
           /\ \A j \in DOMAIN ops : Under(ops[j])'
<1> DEFINE rest == IF todo[t] # << >> THEN Tail(todo[t]) ELSE << >>
           q    == todo[t]
<1>1. /\ q \in Seq(Regions) /\ rest \in Seq(Regions) /\ ops \in Seq(Regions)
      /\ todo' = [todo EXCEPT ![t] = ops \o rest]
  BY DEF Tasked, Runs, Goto, Begin, Safe
<1>2. /\ ops \o rest \in Seq(Regions) /\ Len(ops \o rest) = Len(ops) + Len(rest)
      /\ Len(ops) \in Nat /\ Len(rest) \in Nat /\ Len(q) \in Nat
      /\ DOMAIN ops = 1 .. Len(ops) /\ DOMAIN q = 1 .. Len(q)
      /\ DOMAIN rest = 1 .. Len(rest)
      /\ DOMAIN (ops \o rest) = 1 .. Len(ops) + Len(rest)
  BY <1>1
<1>3. /\ \A i \in DOMAIN rest : i + 1 \in DOMAIN q /\ rest[i] = q[i + 1]
      /\ \A i \in DOMAIN q : i = 1 \/ (i - 1 \in DOMAIN rest /\ rest[i - 1] = q[i])
      /\ q # << >> => q[1] = Arg(t)
  <2>1. CASE q = << >>
    BY <2>1, <1>2
  <2>2. CASE q # << >>
    <3>1. Len(rest) = Len(q) - 1 /\ \A i \in 1 .. Len(rest) : rest[i] = q[i + 1]
      BY <2>2, <1>1, <1>2
    <3> QED  BY <3>1, <2>2, <1>2, <1>1 DEF Arg
  <2> QED  BY <2>1, <2>2
<1> DEFINE new == ops \o rest
<1>4. /\ \A i \in DOMAIN ops : i \in DOMAIN new /\ new[i] = ops[i]
      /\ \A i \in DOMAIN rest : Len(ops) + i \in DOMAIN new /\ new[Len(ops) + i] = rest[i]
  BY <1>1, <1>2
<1>5. \A i \in DOMAIN new : \/ i \in DOMAIN ops /\ new[i] = ops[i]
                            \/ i - Len(ops) \in DOMAIN rest /\ new[i] = rest[i - Len(ops)]
  BY <1>1, <1>2, <1>4
<1>6. todo' = [todo EXCEPT ![t] = new] /\ new \in Seq(Regions)
  BY <1>1, <1>2
<1>7. /\ Tasked'
      /\ todo'[t] = new
      /\ \A u \in Tasks : u # t => todo'[u] = todo[u]
  BY <1>6 DEF Tasked
<1> HIDE DEF rest, new
<1>8. ASSUME NEW r, Under(r)' PROVE Under(r) \/ \E j \in DOMAIN ops : ops[j] = r
  <2>0. PICK u \in Tasks : \E i \in DOMAIN todo'[u] : todo'[u][i] = r
    BY <1>8 DEF Under
  <2>1. PICK i \in DOMAIN todo'[u] : todo'[u][i] = r
    BY <2>0
  <2>2. CASE u # t
    BY <2>1, <2>2, <1>7 DEF Under
  <2>3. CASE u = t
    <3>1. \/ i \in DOMAIN ops /\ ops[i] = r
          \/ i - Len(ops) \in DOMAIN rest /\ rest[i - Len(ops)] = r
      BY <2>1, <2>3, <1>5, <1>7
    <3> QED  BY <3>1, <1>3 DEF Under
  <2> QED  BY <2>2, <2>3
<1>9. ASSUME NEW r, Under(r) PROVE Under(r)' \/ (q # << >> /\ r = Arg(t))
  <2>0. PICK u \in Tasks : \E i \in DOMAIN todo[u] : todo[u][i] = r
    BY <1>9 DEF Under
  <2>1. PICK i \in DOMAIN todo[u] : todo[u][i] = r
    BY <2>0
  <2>2. CASE u # t
    BY <2>1, <2>2, <1>7 DEF Under
  <2>3. CASE u = t
    <3>0. q # << >>
      BY <2>1, <2>3, <1>2
    <3>1. CASE i = 1
      BY <3>0, <3>1, <2>1, <2>3, <1>3
    <3>2. CASE i # 1
      <4>1. i - 1 \in DOMAIN rest /\ rest[i - 1] = r
        BY <3>2, <2>1, <2>3, <1>3
      <4>2. Len(ops) + (i - 1) \in DOMAIN new /\ new[Len(ops) + (i - 1)] = r
        BY <4>1, <1>4
      <4> QED  BY <4>2, <1>7 DEF Under
    <3> QED  BY <3>1, <3>2
  <2> QED  BY <2>2, <2>3
<1>10. \A j \in DOMAIN ops : Under(ops[j])'
  BY <1>4, <1>7 DEF Under
<1> QED  BY <1>7, <1>8, <1>9, <1>10

\* The regions under way are regions; Hands and Removals, told by them.
LEMMA UnderIsRegion ==
    ASSUME Tasked, NEW r, Under(r)
    PROVE  r \in Regions
<1>0. PICK t \in Tasks : \E i \in DOMAIN todo[t] : todo[t][i] = r
  BY DEF Under
<1>1. PICK i \in DOMAIN todo[t] : todo[t][i] = r
  BY <1>0
<1>2. todo[t] \in Seq(Regions)
  BY DEF Tasked
<1> QED  BY <1>1, <1>2

LEMMA HandsAreHeld == Tasked => \A p : p \in Uids(Hands) <=> InHands(p)
<1> SUFFICES ASSUME Tasked, NEW p PROVE p \in Uids(Hands) <=> InHands(p)
  OBVIOUS
<1>0. Carrying = {"add", "update", "update_backoff", "push_active", "push_backoff",
                  "replay", "park", "cycle", "spawn", "bind"}
  BY DEF Carrying, PodOps
<1>1. ASSUME p \in Uids(Hands) PROVE InHands(p)
  <2>0. PICK t \in Tasks : \E pod \in Carried(t) : pod.uid = p
    BY <1>1 DEF Uids, Hands
  <2>1. PICK pod \in Carried(t) : pod.uid = p
    BY <2>0
  <2>2. PICK i \in DOMAIN todo[t] : todo[t][i].op \in Carrying /\ todo[t][i].pod = pod
    BY <2>1, <1>0 DEF Carried
  <2>3. Under(todo[t][i])
    BY <2>2 DEF Under
  <2> QED  BY <2>1, <2>2, <2>3, UnderIsRegion DEF InHands, Holds
<1>2. ASSUME InHands(p) PROVE p \in Uids(Hands)
  <2>1. PICK r \in Regions : Under(r) /\ Holds(r, p)
    BY <1>2 DEF InHands
  <2>6. PICK t \in Tasks : \E i \in DOMAIN todo[t] : todo[t][i] = r
    BY <2>1 DEF Under
  <2>2. PICK i \in DOMAIN todo[t] : todo[t][i] = r
    BY <2>6
  <2>3. r.op \in Carrying /\ r.pod \in PodInfo /\ r.pod.uid = p
    BY <2>1, RegionFields DEF Holds
  <2>4. r.pod \in Carried(t)
    BY <2>2, <2>3, <1>0 DEF Carried
  <2>5. r.pod \in Hands
    BY <2>4 DEF Hands
  <2> QED  BY <2>3, <2>5 DEF Uids
<1> QED  BY <1>1, <1>2

LEMMA RemovalsUnder ==
    Tasked => (Removals <=> \A r \in Regions : Under(r) /\ Removal(r) => Past(r.uid))
<1> SUFFICES ASSUME Tasked
             PROVE  Removals <=> \A r \in Regions : Under(r) /\ Removal(r) => Past(r.uid)
  OBVIOUS
<1>1. ASSUME Removals, NEW r \in Regions, Under(r), Removal(r) PROVE Past(r.uid)
  BY <1>1 DEF Removals, Under, Removal
<1>2. ASSUME \A r \in Regions : Under(r) /\ Removal(r) => Past(r.uid) PROVE Removals
  <2> SUFFICES ASSUME NEW t \in Tasks, NEW i \in DOMAIN todo[t],
                      todo[t][i].op \in {"remove", "remove_backoff"}
               PROVE  Past(todo[t][i].uid)
    BY DEF Removals
  <2>1. Under(todo[t][i])
    BY DEF Under
  <2> QED  BY <2>1, <1>2, UnderIsRegion DEF Removal
<1> QED  BY <1>1, <1>2

\* A step that takes up safe regions, and hands on the pods it had, keeps the
\* part of the invariant that is about the tasks.
LEMMA MoveKeeps ==
    ASSUME Tasked, Tasked', Removals, NobodyLost,
           NEW t \in Tasks, NEW ops, Safe(ops), Handed(t, ops),
           \A r : Under(r)' => Under(r) \/ \E j \in DOMAIN ops : ops[j] = r,
           \A r : Under(r) => Under(r)' \/ (todo[t] # << >> /\ r = Arg(t)),
           \A j \in DOMAIN ops : Under(ops[j])',
           \A p \in Pods : Past(p) => Past(p)',
           \A p \in Pods : api'[p].state = "pending" /\ mirror'[p] # None
               => api[p].state = "pending" /\ (mirror[p] # None \/ Carries(ops, p))
    PROVE  Removals' /\ NobodyLost'
<1>1. Removals'
  <2>1. \A r \in Regions : Under(r) /\ Removal(r) => Past(r.uid)
    BY RemovalsUnder
  <2>2. \A r \in Regions : Removal(r) => r.uid \in Pods
    BY RegionFields DEF Removal
  <2>3. \A r \in Regions : Under(r)' /\ Removal(r) => Past(r.uid)'
    BY <2>1, <2>2 DEF Safe
  <2>4. (Removals <=> \A r \in Regions : Under(r) /\ Removal(r) => Past(r.uid))'
    BY RemovalsUnder, PTL
  <2> QED  BY <2>3, <2>4
<1>2. (\A p : p \in Uids(Hands) <=> InHands(p))'
  BY HandsAreHeld, PTL
<1>3. ASSUME NEW p \in Pods, (api[p].state = "pending" /\ mirror[p] # None)'
      PROVE  (Queued(p) \/ p \in Uids(Hands))'
  <2>1. api[p].state = "pending" /\ (mirror[p] # None \/ Carries(ops, p))
    BY <1>3
  <2>2. (p \in Uids(Hands) <=> InHands(p)) /\ (p \in Uids(Hands) <=> InHands(p))'
    BY <1>2, HandsAreHeld
  <2>3. ASSUME Carries(ops, p) PROVE InHands(p)'
    <3>1. PICK j \in DOMAIN ops : Holds(ops[j], p)
      BY <2>3 DEF Carries
    <3>2. ops[j] \in Regions /\ Under(ops[j])'
      BY DEF Safe
    <3> QED  BY <3>1, <3>2 DEF InHands, Holds
  <2>4. CASE mirror[p] = None
    BY <2>1, <2>2, <2>3, <2>4
  <2>5. CASE mirror[p] # None
    <3>1. CASE Queued(p) \/ InFront(t, p)
      BY <3>1, <2>1, <2>2, <2>3 DEF Handed
    <3>2. CASE ~Queued(p) /\ ~InFront(t, p)
      <4>1. InHands(p)
        BY <3>2, <2>1, <2>2, <2>5 DEF NobodyLost
      <4>2. PICK r \in Regions : Under(r) /\ Holds(r, p)
        BY <4>1 DEF InHands
      <4>3. Under(r)'
        BY <4>2, <3>2 DEF InFront
      <4> QED  BY <4>2, <4>3, <2>2 DEF InHands, Holds
    <3> QED  BY <3>1, <3>2
  <2> QED  BY <2>4, <2>5
<1> QED  BY <1>1, <1>3 DEF NobodyLost

LEMMA TaskKeeps ==
    ASSUME Tasked, Removals, NobodyLost,
           NEW t \in Tasks, NEW ops, Safe(ops), Runs(t, ops), Handed(t, ops),
           \A p \in Pods : Past(p) => Past(p)',
           \A p \in Pods : api'[p].state = "pending" /\ mirror'[p] # None
               => api[p].state = "pending" /\ (mirror[p] # None \/ Carries(ops, p))
    PROVE  Tasked' /\ Removals' /\ NobodyLost'
<1>1. /\ Tasked'
      /\ \A r : Under(r)' => Under(r) \/ \E j \in DOMAIN ops : ops[j] = r
      /\ \A r : Under(r) => Under(r)' \/ (todo[t] # << >> /\ r = Arg(t))
      /\ \A j \in DOMAIN ops : Under(ops[j])'
  BY RunsRegions
<1> QED  BY <1>1, MoveKeeps

LEMMA ClusterKeeps ==
    Api /\ Watching /\ Timely /\ Relist /\ UNCHANGED <<apiVars, watchVars>>
      => (Api /\ Watching /\ Timely /\ Relist)'
  BY DEF Api, Watching, Timely, Relist, apiVars, watchVars, Past, IsAt, Coming

\* A step of the queue or the cache keeps the invariant, if it keeps the pods.
LEMMA StepKeeps ==
    ASSUME IInv, NEW t \in Tasks, NEW ops, Safe(ops), Runs(t, ops), Handed(t, ops),
           UNCHANGED <<apiVars, watchVars>>, Queues', Cached'
    PROVE  IInv'
<1>1. UNCHANGED api /\ UNCHANGED mirror
  BY DEF apiVars, watchVars
<1>2. Tasked' /\ Removals' /\ NobodyLost'
  BY <1>1, TaskKeeps DEF IInv, Shape, Past
<1>3. (Api /\ Watching /\ Timely /\ Relist)'
  BY ClusterKeeps DEF IInv, Shape
<1> QED  BY <1>2, <1>3 DEF IInv, Shape

\* The region a task is at.
LEMMA ArgIs ==
    ASSUME Tasked, NEW t \in Tasks, NEW op, At(t, op)
    PROVE  /\ todo[t] # << >> /\ Arg(t) \in Regions /\ Arg(t).op = op
           /\ op \in Carrying => /\ Arg(t).pod \in PodInfo /\ Arg(t).pod.uid \in Pods
                                 /\ \A p : InFront(t, p) <=> p = Arg(t).pod.uid
           /\ op \notin Carrying => \A p : ~InFront(t, p)
<1>1. todo[t] \in Seq(Regions) /\ todo[t] # << >> /\ Arg(t).op = op
  BY DEF Tasked, At, Arg
<1>2. Arg(t) \in Regions
  BY <1>1 DEF Arg
<1> QED  BY <1>1, <1>2, RegionFields DEF InFront, Holds

LEMMA PodInfoFinite == IsFiniteSet(PodInfo)
<1> DEFINE f == [x \in Pods \X BOOLEAN |-> [uid |-> x[1], gated |-> x[2]]]
<1>1. IsFiniteSet(BOOLEAN)
  <2>1. BOOLEAN = {TRUE} \cup {FALSE}
    OBVIOUS
  <2>2. IsFiniteSet({TRUE}) /\ IsFiniteSet({FALSE})
    BY FS_Singleton
  <2>3. IsFiniteSet({TRUE} \cup {FALSE})
    BY <2>2, FS_Union
  <2> QED  BY <2>1, <2>3
<1>2. IsFiniteSet(Pods \X BOOLEAN)
  BY <1>1, FiniteAssumption, FS_Product
<1>3. f \in Surjection(Pods \X BOOLEAN, PodInfo)
  <2>1. f \in [Pods \X BOOLEAN -> PodInfo]
    BY DEF PodInfo
  <2>2. \A pod \in PodInfo : <<pod.uid, pod.gated>> \in Pods \X BOOLEAN
                             /\ f[<<pod.uid, pod.gated>>] = pod
    BY DEF PodInfo
  <2> QED  BY <2>1, <2>2 DEF Surjection
<1> QED  BY <1>2, <1>3, FS_Surjection

LEMMA EntriesFinite ==
    ASSUME backoff \in [PodInfo -> Nat]
    PROVE  /\ IsFiniteSet(Entries)
           /\ \A pod \in PodInfo, i \in Nat : i \in 1 .. backoff[pod] => <<pod, i>> \in Entries
           /\ \A e \in Entries : /\ e[1] \in PodInfo /\ e[2] \in 1 .. backoff[e[1]]
                                 /\ e = <<e[1], e[2]>>
<1> DEFINE f  == [pod \in PodInfo |-> {pod} \X (1 .. backoff[pod])]
           Es == {{pod} \X (1 .. backoff[pod]) : pod \in PodInfo}
<1>1. f \in Surjection(PodInfo, Es)
  BY DEF Surjection
<1>2. IsFiniteSet(Es)
  BY <1>1, PodInfoFinite, FS_Surjection
<1>3. \A pod \in PodInfo : IsFiniteSet({pod} \X (1 .. backoff[pod]))
  <2> TAKE pod \in PodInfo
  <2>1. IsFiniteSet({pod})
    BY FS_Singleton
  <2>2. backoff[pod] \in Int
    OBVIOUS
  <2>3. IsFiniteSet(1 .. backoff[pod])
    BY <2>2, FS_Interval
  <2> QED  BY <2>1, <2>3, FS_Product
<1>4. IsFiniteSet(UNION Es)
  BY <1>2, <1>3, FS_UNION
<1> QED  BY <1>4 DEF Entries

\* Two lemmas on the active queue and the parked pods.
LEMMA PushedIsQueued ==
    ASSUME Queues, NEW pod \in PodInfo, PushActive(pod)
    PROVE  Queues' /\ Queued(pod.uid)' /\ \A p \in Pods : Queued(p) => Queued(p)'
<1>1. Queues'
  BY DEF Queues, PushActive, Uids
<1>2. Queued(pod.uid)' /\ \A p \in Pods : Queued(p) => Queued(p)'
  BY DEF PushActive, Queued, Uids, Waiting
<1> QED  BY <1>1, <1>2

LEMMA ParkedIsQueued ==
    ASSUME Queues, NEW pod \in PodInfo, NEW plugins \in SUBSET Plugins, Park(pod, plugins)
    PROVE  Queues' /\ Queued(pod.uid)' /\ \A p \in Pods : Queued(p) => Queued(p)'
<1> DEFINE e == [pod |-> pod, plugins |-> plugins]
<1>1. e \in Entry /\ e # None /\ e.pod = pod /\ pod.uid \in Pods
  BY NamesAssumption DEF Entry, PodInfo
<1>2. /\ unschedulable' = [unschedulable EXCEPT ![pod.uid] = e]
      /\ UNCHANGED <<active, backoff, in_flight>>
  BY DEF Park
<1> HIDE DEF e
<1>3. Queues'
  BY <1>1, <1>2 DEF Queues
<1>4. Queued(pod.uid)' /\ \A p \in Pods : Queued(p) => Queued(p)'
  BY <1>1, <1>2 DEF Queues, Queued, Uids, Waiting
<1> QED  BY <1>3, <1>4

-----------------------------------------------------------------------------
(* The queue's steps *)

LEMMA AddKeeps ==
    ASSUME IInv, NEW t \in Tasks, Add(t)
    PROVE  IInv'
<1>1. At(t, "add") /\ "add" \in Carrying /\ Goto(t, << >>)
  BY DEF Add, Carrying, PodOps
<1>2. PICK pod \in PodInfo :
        Arg(t).pod = pod /\ \A p : InFront(t, p) <=> p = pod.uid
  BY <1>1, ArgIs DEF IInv, Shape
<1>3. Queues' /\ Queued(pod.uid)' /\ \A p \in Pods : Queued(p) => Queued(p)'
  <2>1. CASE pre_enqueue(pod)
    BY <2>1, <1>2, PushedIsQueued DEF Add, IInv, Shape
  <2>2. CASE ~pre_enqueue(pod)
    BY <2>2, <1>2, ParkedIsQueued DEF Add, IInv, Shape, Held
  <2> QED  BY <2>1, <2>2
<1>4. Cached' /\ UNCHANGED <<apiVars, watchVars>>
  BY DEF Add, IInv, Shape, Cached, cacheVars
<1>5. Runs(t, << >>) /\ Handed(t, << >>)
  BY <1>1, <1>2, <1>3 DEF Runs, Handed, At
<1> QED  BY <1>3, <1>4, <1>5, SafeEmpty, StepKeeps

LEMMA PushKeeps ==
    ASSUME IInv, NEW t \in Tasks, Push(t)
    PROVE  IInv'
<1>1. At(t, "push_active") /\ "push_active" \in Carrying /\ Goto(t, << >>)
  BY DEF Push, Carrying, PodOps
<1>2. PICK pod \in PodInfo :
        Arg(t).pod = pod /\ \A p : InFront(t, p) <=> p = pod.uid
  BY <1>1, ArgIs DEF IInv, Shape
<1>3. Queues' /\ Queued(pod.uid)' /\ \A p \in Pods : Queued(p) => Queued(p)'
  BY <1>2, PushedIsQueued DEF Push, IInv, Shape
<1>4. Cached' /\ UNCHANGED <<apiVars, watchVars>>
  BY DEF Push, IInv, Shape, Cached, cacheVars
<1>5. Runs(t, << >>) /\ Handed(t, << >>)
  BY <1>1, <1>2, <1>3 DEF Runs, Handed, At
<1> QED  BY <1>3, <1>4, <1>5, SafeEmpty, StepKeeps

LEMMA ParkRejectedKeeps ==
    ASSUME IInv, NEW t \in Tasks, ParkRejected(t)
    PROVE  IInv'
<1>1. At(t, "park") /\ "park" \in Carrying /\ Goto(t, << >>)
  BY DEF ParkRejected, Carrying
<1>2. PICK pod \in PodInfo :
        /\ Arg(t).pod = pod /\ \A p : InFront(t, p) <=> p = pod.uid
        /\ Arg(t) \in Regions /\ Arg(t).op = "park"
  BY <1>1, ArgIs DEF IInv, Shape
<1>3. PICK plugins \in SUBSET Plugins : Arg(t).plugins = plugins
  BY <1>2, RegionFields
<1>4. Queues' /\ Queued(pod.uid)' /\ \A p \in Pods : Queued(p) => Queued(p)'
  BY <1>2, <1>3, ParkedIsQueued DEF ParkRejected, IInv, Shape
<1>5. Cached' /\ UNCHANGED <<apiVars, watchVars>>
  BY DEF ParkRejected, IInv, Shape, Cached, cacheVars
<1>6. Runs(t, << >>) /\ Handed(t, << >>)
  BY <1>1, <1>2, <1>4 DEF Runs, Handed, At
<1> QED  BY <1>4, <1>5, <1>6, SafeEmpty, StepKeeps

\* An update replaces the pod where it is, or takes it further.
LEMMA UpdateKeeps ==
    ASSUME IInv, NEW t \in Tasks, Update(t)
    PROVE  IInv'
<1>1. At(t, "update") /\ "update" \in Carrying
  BY DEF Update, Carrying, PodOps
<1>2. PICK pod \in PodInfo :
        Arg(t).pod = pod /\ \A p : InFront(t, p) <=> p = pod.uid
  BY <1>1, ArgIs DEF IInv, Shape
<1>3. pod.uid \in Pods /\ todo[t] # << >> /\ Queues
  BY <1>1 DEF PodInfo, At, IInv, Shape
<1>4. Cached' /\ UNCHANGED <<apiVars, watchVars, backoff, in_flight>>
  BY DEF Update, IInv, Shape, Cached, cacheVars
<1> DEFINE u == pod.uid
           held == unschedulable[u] # None /\ unschedulable[u].plugins = Held
<1>5. CASE /\ held /\ pre_enqueue(pod)
           /\ unschedulable' = [unschedulable EXCEPT ![u] = None]
           /\ Goto(t, push(pod))
           /\ UNCHANGED active
  <2>1. Queues'
    BY <1>3, <1>4, <1>5 DEF Queues
  <2>2. Handed(t, push(pod))
    <3>1. \A p \in Pods : p # u /\ Queued(p) => Queued(p)'
      BY <1>3, <1>4, <1>5 DEF Queued, Waiting, Queues
    <3> QED  BY <3>1, <1>2, QueueingHandlers DEF Handed
  <2> QED  BY <2>1, <2>2, <1>3, <1>4, <1>5, QueueingHandlers, StepKeeps DEF Runs
<1>6. CASE /\ unschedulable[u] # None
           /\ unschedulable' = [unschedulable EXCEPT ![u].pod = pod]
           /\ Goto(t, << >>)
           /\ UNCHANGED active
  <2>1. unschedulable[u] \in Entry
    BY <1>3, <1>6 DEF Queues
  <2>2. PICK e \in Entry : /\ e.pod = pod /\ e # None
                           /\ unschedulable' = [unschedulable EXCEPT ![u] = e]
    <3> DEFINE e == [unschedulable[u] EXCEPT !.pod = pod]
    <3>1. e \in Entry /\ e.pod = pod
      BY <2>1 DEF Entry
    <3>2. unschedulable' = [unschedulable EXCEPT ![u] = e]
      BY <1>6
    <3> HIDE DEF e
    <3> QED  BY <3>1, <3>2, NamesAssumption
  <2>3. Queues'
    BY <2>2, <1>3, <1>4, <1>6 DEF Queues
  <2>4. Handed(t, << >>)
    <3>1. \A p \in Pods : Queued(p) => Queued(p)'
      BY <2>2, <1>3, <1>4, <1>6 DEF Queued, Waiting, Queues
    <3>2. Queued(u)'
      BY <2>2, <1>3 DEF Queued, Queues
    <3> QED  BY <3>1, <3>2, <1>2 DEF Handed
  <2> QED  BY <2>3, <2>4, <1>3, <1>4, <1>6, SafeEmpty, StepKeeps DEF Runs
<1>7. CASE /\ u \in Uids(active)
           /\ active' = Without(active, u) \cup {pod}
           /\ Goto(t, << >>)
           /\ UNCHANGED unschedulable
  <2>1. Queues'
    BY <1>3, <1>4, <1>7 DEF Queues, Without
  <2>2. Handed(t, << >>)
    <3>1. \A p \in Pods : Queued(p) => Queued(p)'
      BY <1>3, <1>4, <1>7 DEF Queued, Waiting, Uids, Without
    <3>2. Queued(u)'
      BY <1>7 DEF Queued, Uids
    <3> QED  BY <3>1, <3>2, <1>2 DEF Handed
  <2> QED  BY <2>1, <2>2, <1>3, <1>4, <1>7, SafeEmpty, StepKeeps DEF Runs
<1>8. CASE /\ Goto(t, << [op |-> "update_backoff", pod |-> pod] >>)
           /\ UNCHANGED <<active, unschedulable>>
  <2>1. Queues'
    BY <1>3, <1>4, <1>8 DEF Queues
  <2> DEFINE ops == << [op |-> "update_backoff", pod |-> pod] >>
  <2>2. Safe(ops) /\ Carries(ops, u)
    BY HoldingHandlers DEF PodOps
  <2>3. \A p \in Pods : Queued(p) => Queued(p)'
    BY <1>4, <1>8 DEF Queued, Waiting
  <2>4. Runs(t, ops)
    BY <1>3, <1>8 DEF Runs
  <2> HIDE DEF ops
  <2>5. Handed(t, ops)
    BY <2>2, <2>3, <1>2 DEF Handed
  <2> QED  BY <2>1, <2>2, <2>4, <2>5, <1>4, StepKeeps
<1> QED  BY <1>2, <1>5, <1>6, <1>7, <1>8 DEF Update

\* Its entries in the backoff queue, counted.
LEMMA WaitingCounted ==
    ASSUME Queues, NEW p \in Waiting
    PROVE  Times(p) \in Nat /\ Times(p) > 0
<1> DEFINE own == {e \in Entries : e[1].uid = p}
<1>1. PICK pod \in PodInfo : backoff[pod] > 0 /\ pod.uid = p
  BY DEF Waiting, Uids
<1>2. <<pod, 1>> \in own
  BY <1>1, EntriesFinite DEF Queues
<1>3. IsFiniteSet(own) /\ own # {}
  BY <1>2, EntriesFinite, FS_Subset DEF Queues
<1>4. Cardinality(own) \in Nat /\ Cardinality(own) # 0
  BY <1>3, FS_CardinalityType, FS_EmptySet
<1> QED  BY <1>4 DEF Times

LEMMA UpdateBackoffKeeps ==
    ASSUME IInv, NEW t \in Tasks, UpdateBackoff(t)
    PROVE  IInv'
<1>1. At(t, "update_backoff") /\ "update_backoff" \in Carrying
  BY DEF UpdateBackoff, Carrying, PodOps
<1>2. PICK pod \in PodInfo :
        Arg(t).pod = pod /\ \A p : InFront(t, p) <=> p = pod.uid
  BY <1>1, ArgIs DEF IInv, Shape
<1>3. todo[t] # << >> /\ Queues
  BY <1>1 DEF At, IInv, Shape
<1>4. Cached' /\ UNCHANGED <<apiVars, watchVars, active, unschedulable, in_flight>>
  BY DEF UpdateBackoff, IInv, Shape, Cached, cacheVars
<1>5. CASE /\ pod.uid \in Waiting
           /\ backoff' = [Kept(pod.uid) EXCEPT ![pod] = Times(pod.uid)]
           /\ Goto(t, << >>)
  <2>1. Times(pod.uid) \in Nat /\ Times(pod.uid) > 0
    BY <1>3, <1>5, WaitingCounted
  <2>2. /\ backoff' \in [PodInfo -> Nat]
        /\ backoff'[pod] > 0
        /\ \A q \in PodInfo : q.uid # pod.uid => backoff'[q] = backoff[q]
    BY <2>1, <1>3, <1>5 DEF Queues, Kept
  <2>3. Queues'
    BY <2>2, <1>3, <1>4 DEF Queues
  <2>4. \A p : Queued(p) => Queued(p)'
    BY <2>2, <1>4 DEF Queued, Waiting, Uids
  <2>5. Handed(t, << >>)
    BY <2>2, <2>4, <1>2, <1>5 DEF Handed, Queued
  <2> QED  BY <2>3, <2>5, <1>3, <1>4, <1>5, SafeEmpty, StepKeeps DEF Runs
<1>6. CASE Goto(t, add(pod)) /\ UNCHANGED backoff
  <2>1. Queues'
    BY <1>3, <1>4, <1>6 DEF Queues
  <2>2. \A p : Queued(p) => Queued(p)'
    BY <1>4, <1>6 DEF Queued, Waiting
  <2>3. Handed(t, add(pod))
    BY <2>2, <1>2, QueueingHandlers DEF Handed
  <2> QED  BY <2>1, <2>3, <1>3, <1>4, <1>6, QueueingHandlers, StepKeeps DEF Runs
<1> QED  BY <1>2, <1>5, <1>6 DEF UpdateBackoff

LEMMA PushBackoffKeeps ==
    ASSUME IInv, NEW t \in Tasks, PushBackoff(t)
    PROVE  IInv'
<1>1. At(t, "push_backoff") /\ "push_backoff" \in Carrying /\ Goto(t, << >>)
  BY DEF PushBackoff, Carrying, PodOps
<1>2. PICK pod \in PodInfo :
        Arg(t).pod = pod /\ \A p : InFront(t, p) <=> p = pod.uid
  BY <1>1, ArgIs DEF IInv, Shape
<1>3. todo[t] # << >> /\ Queues
  BY <1>1 DEF At, IInv, Shape
<1>4. Cached' /\ UNCHANGED <<apiVars, watchVars, active, unschedulable, in_flight>>
  BY DEF PushBackoff, IInv, Shape, Cached, cacheVars
<1>5. backoff' = [backoff EXCEPT ![pod] = @ + 1]
  BY <1>2 DEF PushBackoff
<1>6. /\ backoff' \in [PodInfo -> Nat]
      /\ backoff'[pod] > 0
      /\ \A q \in PodInfo : backoff[q] > 0 => backoff'[q] > 0
  BY <1>3, <1>5 DEF Queues
<1>7. Queues'
  BY <1>3, <1>4, <1>6 DEF Queues
<1>8. (\A p : Queued(p) => Queued(p)') /\ Queued(pod.uid)'
  BY <1>4, <1>6 DEF Queued, Waiting, Uids
<1>9. Handed(t, << >>)
  BY <1>2, <1>8 DEF Handed
<1> QED  BY <1>1, <1>3, <1>4, <1>7, <1>9, SafeEmpty, StepKeeps DEF Runs

\* Who is queued while the queues do not change.
LEMMA QueuesStay ==
    ASSUME Queues, UNCHANGED <<active, unschedulable, backoff>>
    PROVE  /\ \A p : Queued(p) => Queued(p)'
           /\ in_flight' \in [uid : Pods, events : SUBSET Signals] \cup {None}
                => Queues'
  BY DEF Queued, Waiting, Queues

\* A step that leaves queues and cache alone, and goes on with what holds its pod.
LEMMA HandOver ==
    ASSUME IInv, NEW t \in Tasks, NEW ops, Safe(ops), Runs(t, ops),
           \A p \in Pods : InFront(t, p) => Carries(ops, p),
           UNCHANGED <<apiVars, watchVars, queueVars, cacheVars>>
    PROVE  IInv'
<1>1. Queues' /\ \A p : Queued(p) => Queued(p)'
  BY QueuesStay DEF queueVars, IInv, Shape, Queues
<1>2. Cached'
  BY DEF IInv, Shape, Cached, cacheVars
<1>3. Handed(t, ops)
  BY <1>1 DEF Handed
<1> QED  BY <1>1, <1>2, <1>3, StepKeeps

LEMMA ReplayKeeps ==
    ASSUME IInv, NEW t \in Tasks, Replay(t)
    PROVE  IInv'
<1>1. At(t, "replay") /\ "replay" \in Carrying
  BY DEF Replay, Carrying
<1>2. PICK pod \in PodInfo :
        /\ Arg(t).pod = pod /\ \A p : InFront(t, p) <=> p = pod.uid
        /\ Arg(t) \in Regions /\ Arg(t).op = "replay"
  BY <1>1, ArgIs DEF IInv, Shape
<1>3. PICK plugins \in SUBSET Plugins : Arg(t).plugins = plugins
  BY <1>2, RegionFields
<1> DEFINE ps == << [op |-> "park", pod |-> pod, plugins |-> plugins] >>
<1>4. /\ Safe(retry(pod)) /\ Carries(retry(pod), pod.uid)
      /\ Safe(ps) /\ Carries(ps, pod.uid)
  BY QueueingHandlers, Parking
<1>5. Goto(t, retry(pod)) \/ Goto(t, ps)
  BY <1>2, <1>3 DEF Replay
<1>6. PICK ops : Safe(ops) /\ Carries(ops, pod.uid) /\ Goto(t, ops)
  BY <1>4, <1>5
<1>7. UNCHANGED <<apiVars, watchVars, queueVars, cacheVars>> /\ todo[t] # << >>
  BY <1>1 DEF Replay, At
<1> QED  BY <1>2, <1>6, <1>7, HandOver DEF Runs

LEMMA RecordKeeps ==
    ASSUME IInv, NEW t \in Tasks, Record(t)
    PROVE  IInv'
<1>1. At(t, "record") /\ "record" \notin Carrying /\ Goto(t, << >>)
  BY DEF Record, Carrying, PodOps
<1>2. /\ todo[t] # << >> /\ Arg(t) \in Regions /\ Arg(t).op = "record"
      /\ \A p : ~InFront(t, p)
  BY <1>1, ArgIs DEF IInv, Shape
<1>3. PICK ev \in Signals : Arg(t).event = ev
  BY <1>2, RegionFields
<1>4. /\ in_flight \in [uid : Pods, events : SUBSET Signals] \cup {None}
      /\ in_flight' = IF in_flight = None THEN None
                      ELSE [in_flight EXCEPT !.events = @ \cup {ev}]
  BY <1>3 DEF Record, IInv, Shape, Queues
<1>5. in_flight' \in [uid : Pods, events : SUBSET Signals] \cup {None}
  BY <1>4
<1>6. /\ UNCHANGED <<apiVars, watchVars, active, unschedulable, backoff>>
      /\ Cached'
  BY DEF Record, IInv, Shape, Cached, cacheVars
<1>7. Queues' /\ \A p : Queued(p) => Queued(p)'
  BY <1>5, <1>6, QueuesStay DEF IInv, Shape
<1>8. Handed(t, << >>)
  BY <1>2, <1>7 DEF Handed
<1> QED  BY <1>1, <1>2, <1>6, <1>7, <1>8, SafeEmpty, StepKeeps DEF Runs

\* Parked pods are taken out, and each is in one of the regions that follow.
LEMMA TakenOut ==
    ASSUME Queues, NEW out \in SUBSET Pods, NEW ops,
           \A p \in out : unschedulable[p] # None,
           unschedulable' = [p \in Pods |-> IF p \in out THEN None ELSE unschedulable[p]],
           UNCHANGED <<active, backoff, in_flight>>,
           ops = [i \in 1 .. Cardinality(out) |-> ops[i]],
           \A i \in 1 .. Cardinality(out) :
              /\ ops[i].op \in {"add", "push_backoff"}
              /\ ops[i] = [op |-> ops[i].op, pod |-> unschedulable[SetToSeq(out)[i]].pod]
    PROVE  /\ Queues'
           /\ Safe(ops)
           /\ \A p \in Pods : Queued(p) => Queued(p)' \/ Carries(ops, p)
<1> DEFINE n == Cardinality(out)
           s == SetToSeq(out)
<1>1. IsFiniteSet(out)
  BY FiniteAssumption, FS_Subset
<1>2. n \in Nat /\ s \in [1 .. n -> out] /\ \A p \in out : \E i \in 1 .. n : s[i] = p
  BY <1>1, SetToSeqLists
<1>3. \A p \in out : unschedulable[p].pod \in PodInfo /\ unschedulable[p].pod.uid = p
  BY DEF Queues, Entry
<1>4. Queues'
  BY DEF Queues
<1>5. ASSUME NEW i \in 1 .. n
      PROVE  ops[i] \in Regions /\ ~Removal(ops[i]) /\ Holds(ops[i], s[i])
  <2>1. PICK pod \in PodInfo : unschedulable[s[i]].pod = pod /\ pod.uid = s[i]
    BY <1>2, <1>3
  <2>2. PICK op \in {"add", "push_backoff"} : ops[i].op = op
    OBVIOUS
  <2>3. ops[i] = [op |-> op, pod |-> pod]
    BY <2>1, <2>2
  <2>4. op \in PodOps /\ op \in Carrying
    BY <2>2 DEF PodOps, Carrying
  <2> QED  BY <2>1, <2>2, <2>3, <2>4 DEF Regions, Removal, Holds
<1>6. Safe(ops)
  <2>1. ops \in [1 .. n -> Regions]
    BY <1>5
  <2>2. ops \in Seq(Regions)
    BY <2>1, <1>2
  <2>3. DOMAIN ops = 1 .. n
    BY <2>1
  <2> QED  BY <2>2, <2>3, <1>5 DEF Safe
<1>7. ASSUME NEW p \in Pods, Queued(p) PROVE Queued(p)' \/ Carries(ops, p)
  <2>1. CASE p \in out
    <3>1. PICK i \in 1 .. n : s[i] = p
      BY <2>1, <1>2
    <3>2. i \in DOMAIN ops
      BY <3>1
    <3> QED  BY <3>1, <3>2, <1>5 DEF Carries
  <2>2. CASE p \notin out
    BY <2>2, <1>7 DEF Queued, Waiting
  <2> QED  BY <2>1, <2>2
<1> QED  BY <1>4, <1>6, <1>7

LEMMA SweepKeeps ==
    ASSUME IInv, NEW t \in Tasks, Sweep(t)
    PROVE  IInv'
<1>1. At(t, "sweep") /\ "sweep" \notin Carrying
  BY DEF Sweep, Carrying, PodOps
<1>2. todo[t] # << >> /\ \A p : ~InFront(t, p)
  BY <1>1, ArgIs DEF IInv, Shape
<1>3. PICK out : out = Woken(Arg(t).event)
  OBVIOUS
<1>4. out \in SUBSET Pods /\ \A p \in out : unschedulable[p] # None
  BY <1>3 DEF Woken
<1>5. PICK ops : ops = InTurn(out, LAMBDA p : return(unschedulable[p].pod))
  OBVIOUS
<1>6. ops = [i \in 1 .. Cardinality(out) |->
               Head(return(unschedulable[SetToSeq(out)[i]].pod))]
  BY <1>5 DEF InTurn
<1>7. /\ ops = [i \in 1 .. Cardinality(out) |-> ops[i]]
      /\ \A i \in 1 .. Cardinality(out) :
           /\ ops[i].op \in {"add", "push_backoff"}
           /\ ops[i] = [op |-> ops[i].op, pod |-> unschedulable[SetToSeq(out)[i]].pod]
  BY <1>6 DEF return, retry, add
<1>8. /\ unschedulable' = [p \in Pods |-> IF p \in out THEN None ELSE unschedulable[p]]
      /\ Goto(t, ops)
      /\ UNCHANGED <<active, backoff, in_flight, apiVars, watchVars>>
      /\ Cached'
  BY <1>3, <1>5 DEF Sweep, IInv, Shape, Cached, cacheVars
<1>9. Queues' /\ Safe(ops) /\ \A p \in Pods : Queued(p) => Queued(p)' \/ Carries(ops, p)
  BY <1>4, <1>7, <1>8, TakenOut DEF IInv, Shape
<1>10. Handed(t, ops)
  BY <1>2, <1>9 DEF Handed
<1> QED  BY <1>2, <1>8, <1>9, <1>10, StepKeeps DEF Runs

LEMMA FlushTimedOutKeeps ==
    ASSUME IInv, FlushTimedOut
    PROVE  IInv'
<1>1. PICK out \in SUBSET {p \in Pods : unschedulable[p] # None} \ {{}} :
        /\ unschedulable' = [p \in Pods |-> IF p \in out THEN None ELSE unschedulable[p]]
        /\ Begin("net", InTurn(out, LAMBDA p : retry(unschedulable[p].pod)))
  BY DEF FlushTimedOut
<1>2. out \in SUBSET Pods /\ \A p \in out : unschedulable[p] # None
  BY <1>1
<1>3. PICK ops : ops = InTurn(out, LAMBDA p : retry(unschedulable[p].pod))
  OBVIOUS
<1>4. ops = [i \in 1 .. Cardinality(out) |->
               Head(retry(unschedulable[SetToSeq(out)[i]].pod))]
  BY <1>3 DEF InTurn
<1>5. /\ ops = [i \in 1 .. Cardinality(out) |-> ops[i]]
      /\ \A i \in 1 .. Cardinality(out) :
           /\ ops[i].op \in {"add", "push_backoff"}
           /\ ops[i] = [op |-> ops[i].op, pod |-> unschedulable[SetToSeq(out)[i]].pod]
  BY <1>4 DEF retry
<1>6. /\ Begin("net", ops)
      /\ UNCHANGED <<active, backoff, in_flight, apiVars, watchVars>>
      /\ Cached'
  BY <1>1, <1>3 DEF FlushTimedOut, IInv, Shape, Cached, cacheVars
<1>7. Queues' /\ Safe(ops) /\ \A p \in Pods : Queued(p) => Queued(p)' \/ Carries(ops, p)
  BY <1>1, <1>2, <1>5, <1>6, TakenOut DEF IInv, Shape
<1>8. "net" \in Tasks /\ Runs("net", ops) /\ Handed("net", ops)
  BY <1>6, <1>7 DEF Tasks, Runs, Handed, InFront, Begin
<1> QED  BY <1>6, <1>7, <1>8, StepKeeps

LEMMA DequeueKeeps ==
    ASSUME IInv, NEW t \in Tasks, Dequeue(t)
    PROVE  IInv'
<1>1. At(t, "remove") /\ "remove" \notin Carrying
  BY DEF Dequeue, Carrying, PodOps
<1>2. /\ todo[t] # << >> /\ Arg(t) \in Regions /\ Arg(t).op = "remove"
      /\ \A p : ~InFront(t, p)
  BY <1>1, ArgIs DEF IInv, Shape
<1>3. PICK u \in Pods : Arg(t).uid = u
  BY <1>2, RegionFields
<1>4. PICK then \in Seq(Endings) : Arg(t).then = then
  BY <1>2, RegionFields
<1>5. Past(u)
  <2>1. Under(Arg(t))
    <3>1. todo[t] \in Seq(Regions)
      BY DEF IInv, Shape, Tasked
    <3>2. 1 \in DOMAIN todo[t] /\ todo[t][1] = Arg(t)
      BY <1>2, <3>1 DEF Arg
    <3> QED  BY <3>2 DEF Under
  <2> QED  BY <2>1, <1>2, <1>3, RemovalsUnder DEF IInv, Shape, Removal
<1>6. Safe(<< [op |-> "remove_backoff", uid |-> u] >>)
  <2>1. [op |-> "remove_backoff", uid |-> u] \in Regions
    BY DEF Regions
  <2> QED  BY <2>1, <1>5, SafeOne
<1>7. Safe(<< [op |-> "remove_backoff", uid |-> u] >> \o then)
  BY <1>4, <1>6, EndingsAreSafe, SafeConcat
<1>8. /\ active' = Without(active, u)
      /\ unschedulable' = [unschedulable EXCEPT ![u] = None]
      /\ Goto(t, << [op |-> "remove_backoff", uid |-> u] >> \o then)
      /\ UNCHANGED <<backoff, in_flight, apiVars, watchVars>>
      /\ Cached'
  BY <1>3, <1>4 DEF Dequeue, IInv, Shape, Cached, cacheVars
<1>9. Queues'
  BY <1>8 DEF IInv, Shape, Queues, Without
<1>10. \A p \in Pods : api[p].state = "pending" /\ Queued(p) => Queued(p)'
  <2>1. \A p \in Pods : api[p].state = "pending" => p # u
    BY <1>5 DEF Past
  <2> QED  BY <2>1, <1>8 DEF Queued, Waiting, Uids, Without, IInv, Shape, Queues
<1>11. Handed(t, << [op |-> "remove_backoff", uid |-> u] >> \o then)
  BY <1>2, <1>10 DEF Handed
<1> QED  BY <1>2, <1>7, <1>8, <1>9, <1>11, StepKeeps DEF Runs

LEMMA DequeueBackoffKeeps ==
    ASSUME IInv, NEW t \in Tasks, DequeueBackoff(t)
    PROVE  IInv'
<1>1. At(t, "remove_backoff") /\ "remove_backoff" \notin Carrying
  BY DEF DequeueBackoff, Carrying, PodOps
<1>2. /\ todo[t] # << >> /\ Arg(t) \in Regions /\ Arg(t).op = "remove_backoff"
      /\ \A p : ~InFront(t, p)
  BY <1>1, ArgIs DEF IInv, Shape
<1>3. PICK u \in Pods : Arg(t).uid = u
  BY <1>2, RegionFields
<1>4. Past(u)
  <2>1. Under(Arg(t))
    <3>1. todo[t] \in Seq(Regions)
      BY DEF IInv, Shape, Tasked
    <3>2. 1 \in DOMAIN todo[t] /\ todo[t][1] = Arg(t)
      BY <1>2, <3>1 DEF Arg
    <3> QED  BY <3>2 DEF Under
  <2> QED  BY <2>1, <1>2, <1>3, RemovalsUnder DEF IInv, Shape, Removal
<1>5. /\ backoff' = Kept(u) /\ Goto(t, << >>)
      /\ UNCHANGED <<active, unschedulable, in_flight, apiVars, watchVars>>
      /\ Cached'
  BY <1>3 DEF DequeueBackoff, IInv, Shape, Cached, cacheVars
<1>6. Queues'
  BY <1>5 DEF IInv, Shape, Queues, Kept
<1>7. \A p \in Pods : api[p].state = "pending" /\ Queued(p) => Queued(p)'
  <2>1. \A p \in Pods : api[p].state = "pending" => p # u
    BY <1>4 DEF Past
  <2> QED  BY <2>1, <1>5 DEF Queued, Waiting, Uids, Kept
<1>8. Handed(t, << >>)
  BY <1>2, <1>7 DEF Handed
<1> QED  BY <1>2, <1>5, <1>6, <1>8, SafeEmpty, StepKeeps DEF Runs

LEMMA UpTo ==
    ASSUME NEW m \in Nat
    PROVE  IsFiniteSet(1 .. m) /\ Cardinality(1 .. m) = m
<1>1. /\ IsFiniteSet(1 .. m)
      /\ Cardinality(1 .. m) = IF 1 > m THEN 0 ELSE m - 1 + 1
  BY FS_Interval
<1> QED  BY <1>1

\* What is drained leaves the backoff queue for the regions that follow.
LEMMA DrainExpiredBackoffKeeps ==
    ASSUME IInv, DrainExpiredBackoff
    PROVE  IInv'
<1>0. Queues /\ backoff \in [PodInfo -> Nat]
  BY DEF IInv, Shape, Queues
<1>1. PICK ready \in SUBSET Entries \ {{}} :
        /\ backoff' = [pod \in PodInfo |->
                backoff[pod] - Cardinality({e \in ready : e[1] = pod})]
        /\ Begin("loop", InTurn(ready, LAMBDA e : push(e[1])))
  BY DEF DrainExpiredBackoff
<1>2. IsFiniteSet(ready)
  BY <1>0, <1>1, EntriesFinite, FS_Subset
<1> DEFINE n      == Cardinality(ready)
           s      == SetToSeq(ready)
           own(q) == {e \in ready : e[1] = q}
<1>3. n \in Nat /\ s \in [1 .. n -> ready] /\ \A e \in ready : \E i \in 1 .. n : s[i] = e
  BY <1>2, SetToSeqLists
<1>4. PICK ops : ops = [i \in 1 .. n |-> [op |-> "push_active", pod |-> s[i][1]]]
  OBVIOUS
<1>5. Begin("loop", ops)
  <2>1. ops = InTurn(ready, LAMBDA e : push(e[1]))
    BY <1>4 DEF InTurn, push
  <2> QED  BY <2>1, <1>1
<1>6. ASSUME NEW i \in 1 .. n
      PROVE  /\ ops[i] \in Regions /\ ~Removal(ops[i])
             /\ Holds(ops[i], s[i][1].uid)
  <2>1. s[i][1] \in PodInfo
    BY <1>0, <1>1, <1>3, EntriesFinite
  <2>2. ops[i] = [op |-> "push_active", pod |-> s[i][1]]
    BY <1>4
  <2> HIDE DEF s
  <2> QED  BY <2>1, <2>2 DEF Regions, Removal, Holds, PodOps, Carrying
<1>7. Safe(ops)
  <2>1. ops \in [1 .. n -> Regions] /\ DOMAIN ops = 1 .. n
    BY <1>4, <1>6
  <2> QED  BY <2>1, <1>3, <1>6 DEF Safe
<1>8. ASSUME NEW q \in PodInfo
      PROVE  /\ Cardinality(own(q)) \in Nat /\ Cardinality(own(q)) <= backoff[q]
             /\ Cardinality(own(q)) > 0 => \E e \in ready : e[1] = q
  <2> DEFINE row == {q} \X (1 .. backoff[q])
  <2>1. own(q) \in SUBSET row
    BY <1>0, <1>1, EntriesFinite
  <2>2. IsFiniteSet({q}) /\ Cardinality({q}) = 1
    BY FS_Singleton
  <2>3. backoff[q] \in Nat
    BY <1>0
  <2>4. IsFiniteSet(1 .. backoff[q]) /\ Cardinality(1 .. backoff[q]) = backoff[q]
    BY ONLY <2>3, UpTo
  <2>5. IsFiniteSet(row) /\ Cardinality(row) = 1 * backoff[q]
    <3>1. /\ IsFiniteSet(row)
          /\ Cardinality(row) = Cardinality({q}) * Cardinality(1 .. backoff[q])
      BY <2>2, <2>4, FS_Product
    <3> QED  BY <3>1, <2>2, <2>4, Zenon
  <2>6. IsFiniteSet(own(q)) /\ Cardinality(own(q)) <= Cardinality(row)
    BY <2>1, <2>5, FS_Subset
  <2>7. Cardinality(own(q)) \in Nat
    BY <2>6, FS_CardinalityType
  <2>8. Cardinality(own(q)) > 0 => own(q) # {}
    BY FS_EmptySet
  <2> HIDE DEF row
  <2>9. Cardinality(own(q)) <= backoff[q]
    BY <2>3, <2>5, <2>6
  <2> QED  BY <2>7, <2>8, <2>9
<1>9. backoff' \in [PodInfo -> Nat]
  BY <1>0, <1>1, <1>8
<1>10. UNCHANGED <<active, unschedulable, in_flight, apiVars, watchVars>> /\ Cached'
  BY DEF DrainExpiredBackoff, IInv, Shape, Cached, cacheVars
<1>11. Queues'
  BY <1>0, <1>9, <1>10 DEF Queues
<1>12. ASSUME NEW p \in Pods, Queued(p) PROVE Queued(p)' \/ Carries(ops, p)
  <2>1. CASE p \in Uids(active) \/ unschedulable[p] # None
    BY <2>1, <1>10 DEF Queued
  <2>2. CASE p \in Waiting
    <3>1. PICK q \in PodInfo : backoff[q] > 0 /\ q.uid = p
      BY <2>2 DEF Waiting, Uids
    <3>2. CASE Cardinality(own(q)) > 0
      <4>1. PICK e \in ready : e[1] = q
        BY <3>2, <1>8
      <4>2. PICK i \in 1 .. n : s[i] = e
        BY <1>3
      <4>3. i \in DOMAIN ops
        BY <1>4
      <4> QED  BY <4>1, <4>2, <4>3, <3>1, <1>6 DEF Carries
    <3>3. CASE ~(Cardinality(own(q)) > 0)
      <4>1. backoff'[q] = backoff[q] - Cardinality(own(q))
        BY <1>1
      <4>2. Cardinality(own(q)) = 0 /\ backoff[q] \in Nat
        BY <3>3, <1>0, <1>8
      <4>3. backoff'[q] > 0
        BY <4>1, <4>2, <3>1
      <4> QED  BY <4>3, <3>1 DEF Queued, Waiting, Uids
    <3> QED  BY <3>2, <3>3
  <2> QED  BY <2>1, <2>2, <1>12 DEF Queued
<1>13. "loop" \in Tasks /\ Runs("loop", ops) /\ Handed("loop", ops)
  BY <1>5, <1>12 DEF Tasks, Runs, Handed, InFront, Begin
<1> QED  BY <1>7, <1>10, <1>11, <1>13, StepKeeps

LEMMA PopKeeps ==
    ASSUME IInv, NEW u \in Pods, Pop(u)
    PROVE  IInv'
<1>1. PICK pod \in active :
        /\ pod.uid = u
        /\ active' = active \ {pod}
        /\ Begin("loop", << [op |-> "cycle", pod |-> pod] >>)
  BY DEF Pop
<1>2. Queues /\ pod \in PodInfo
  BY DEF IInv, Shape, Queues
<1>3. PICK ops : ops = << [op |-> "cycle", pod |-> pod] >>
  OBVIOUS
<1>4. Safe(ops) /\ Carries(ops, u)
  BY <1>1, <1>2, <1>3, HoldingHandlers DEF PodOps
<1>5. /\ in_flight' \in [uid : Pods, events : SUBSET Signals] \cup {None}
      /\ UNCHANGED <<unschedulable, backoff, apiVars, watchVars>> /\ Cached'
  BY DEF Pop, IInv, Shape, Cached, cacheVars
<1>6. Queues'
  BY <1>1, <1>2, <1>5 DEF Queues
<1>7. \A p \in Pods : Queued(p) => Queued(p)' \/ Carries(ops, p)
  BY <1>1, <1>2, <1>4, <1>5 DEF Queued, Waiting, Uids
<1>8. "loop" \in Tasks /\ Runs("loop", ops) /\ Handed("loop", ops)
  BY <1>1, <1>3, <1>7 DEF Tasks, Runs, Handed, InFront, Begin
<1> QED  BY <1>4, <1>5, <1>6, <1>8, StepKeeps

LEMMA DoneKeeps ==
    ASSUME IInv, Done
    PROVE  IInv'
<1>1. At("loop", "done") /\ "done" \notin Carrying /\ "loop" \in Tasks
  BY DEF Done, Carrying, PodOps, Tasks
<1>2. todo["loop"] # << >> /\ \A p : ~InFront("loop", p)
  BY <1>1, ArgIs DEF IInv, Shape
<1>3. /\ in_flight' = None /\ Goto("loop", << >>)
      /\ UNCHANGED <<active, unschedulable, backoff, apiVars, watchVars>> /\ Cached'
  BY DEF Done, IInv, Shape, Cached, cacheVars
<1>4. Queues' /\ \A p : Queued(p) => Queued(p)'
  BY <1>3, QueuesStay DEF IInv, Shape
<1>5. Handed("loop", << >>)
  BY <1>2, <1>4 DEF Handed
<1> QED  BY <1>1, <1>2, <1>3, <1>4, <1>5, SafeEmpty, StepKeeps DEF Runs

-----------------------------------------------------------------------------
(* The steps of the cache *)

\* A step that is over with a region of the cache.
LEMMA CacheStepKeeps ==
    ASSUME IInv, NEW t \in Tasks, NEW op, op \notin Carrying, At(t, op),
           Goto(t, << >>), UNCHANGED <<apiVars, watchVars, queueVars>>, Cached'
    PROVE  IInv'
<1>1. todo[t] # << >> /\ \A p : ~InFront(t, p)
  BY ArgIs DEF IInv, Shape
<1>2. Queues' /\ \A p : Queued(p) => Queued(p)'
  BY QueuesStay DEF queueVars, IInv, Shape, Queues
<1>3. Handed(t, << >>) /\ Runs(t, << >>)
  BY <1>1, <1>2 DEF Handed, Runs
<1> QED  BY <1>2, <1>3, SafeEmpty, StepKeeps

LEMMA ForgetKeeps ==
    ASSUME IInv, NEW t \in Tasks, Forget(t)
    PROVE  IInv'
<1>1. At(t, "forget") /\ "forget" \notin Carrying
  BY DEF Forget, Carrying, PodOps
<1>2. Cached'
  BY DEF Forget, IInv, Shape, Cached
<1> QED  BY <1>1, <1>2, CacheStepKeeps DEF Forget

LEMMA AddPodKeeps ==
    ASSUME IInv, NEW t \in Tasks, AddPod(t)
    PROVE  IInv'
<1>1. At(t, "add_pod") /\ "add_pod" \notin Carrying
  BY DEF AddPod, Carrying, PodOps
<1>2. Arg(t) \in Regions /\ Arg(t).op = "add_pod"
  BY <1>1, ArgIs DEF IInv, Shape
<1>3. Arg(t).uid \in Pods /\ Arg(t).node \in Nodes /\ Arg(t).assumed \in Nodes \cup {None}
  BY <1>2, RegionFields
<1>4. Cached'
  BY <1>3 DEF AddPod, IInv, Shape, Cached
<1> QED  BY <1>1, <1>4, CacheStepKeeps DEF AddPod

LEMMA RemovePodKeeps ==
    ASSUME IInv, NEW t \in Tasks, RemovePod(t)
    PROVE  IInv'
<1>1. At(t, "remove_pod") /\ "remove_pod" \notin Carrying
  BY DEF RemovePod, Carrying, PodOps
<1>2. Cached'
  BY DEF RemovePod, IInv, Shape, Cached
<1> QED  BY <1>1, <1>2, CacheStepKeeps DEF RemovePod

LEMMA UpsertNodeKeeps ==
    ASSUME IInv, UpsertNode
    PROVE  IInv'
<1>1. At("watch", "upsert_node") /\ "upsert_node" \notin Carrying /\ "watch" \in Tasks
  BY DEF UpsertNode, Carrying, PodOps, Tasks
<1>2. Arg("watch") \in Regions /\ Arg("watch").op = "upsert_node"
  BY <1>1, ArgIs DEF IInv, Shape
<1>3. Arg("watch").node \in Nodes
  BY <1>2, RegionFields
<1>4. Cached'
  BY <1>3 DEF UpsertNode, IInv, Shape, Cached
<1> QED  BY <1>1, <1>4, CacheStepKeeps DEF UpsertNode

LEMMA RemoveNodeKeeps ==
    ASSUME IInv, RemoveNode
    PROVE  IInv'
<1>1. At("watch", "remove_node") /\ "remove_node" \notin Carrying /\ "watch" \in Tasks
  BY DEF RemoveNode, Carrying, PodOps, Tasks
<1>2. Cached'
  BY DEF RemoveNode, IInv, Shape, Cached
<1> QED  BY <1>1, <1>2, CacheStepKeeps DEF RemoveNode

-----------------------------------------------------------------------------
(* The scheduling loop and the binding cycles *)

LEMMA AtCycle ==
    ASSUME IInv, At("loop", "cycle")
    PROVE  \E pod \in PodInfo : /\ Arg("loop").pod = pod
                                /\ \A p : InFront("loop", p) <=> p = pod.uid
<1>1. "cycle" \in Carrying /\ "loop" \in Tasks
  BY DEF Carrying, PodOps, Tasks
<1> QED  BY <1>1, ArgIs DEF IInv, Shape

LEMMA ScheduleKeeps ==
    ASSUME IInv, Schedule
    PROVE  IInv'
<1>1. At("loop", "cycle") /\ todo["loop"] # << >> /\ "loop" \in Tasks
  BY DEF Schedule, At, Tasks
<1>2. PICK pod \in PodInfo : /\ Arg("loop").pod = pod
                             /\ \A p : InFront("loop", p) <=> p = pod.uid
  BY <1>1, AtCycle
<1>3. PICK n \in Feasible :
        Goto("loop", assume(pod.uid, n) \o done
                     \o << [op |-> "spawn", pod |-> pod, node |-> n] >>)
  BY <1>2 DEF Schedule
<1>4. n \in Nodes /\ pod.uid \in Pods
  BY DEF Feasible, IInv, Shape, Cached, PodInfo
<1> DEFINE last == << [op |-> "spawn", pod |-> pod, node |-> n] >>
           ops  == assume(pod.uid, n) \o done \o last
<1>5. Safe(last) /\ Carries(last, pod.uid)
  BY <1>4, Binding
<1>6. Safe(assume(pod.uid, n)) /\ Safe(done)
  BY <1>4, OtherHandlers
<1> HIDE DEF last
<1>7. Safe(ops) /\ Carries(ops, pod.uid)
  <2>1. Safe(assume(pod.uid, n) \o done)
    BY <1>6, SafeConcat
  <2> QED  BY <2>1, <1>5, SafeConcat
<1> USE DEF last
<1>8. Runs("loop", ops)
  BY <1>1, <1>3 DEF Runs
<1> HIDE DEF ops
<1>9. UNCHANGED <<apiVars, watchVars, queueVars, cacheVars>>
  BY DEF Schedule
<1> QED  BY <1>1, <1>2, <1>7, <1>8, <1>9, HandOver

LEMMA ParkingKeeps ==
    ASSUME IInv, At("loop", "cycle"), NEW plugins \in SUBSET Plugins,
           Goto("loop", park(Arg("loop").pod, plugins) \o done),
           UNCHANGED <<apiVars, watchVars, queueVars, cacheVars>>
    PROVE  IInv'
<1>1. todo["loop"] # << >> /\ "loop" \in Tasks
  BY DEF At, Tasks
<1>2. PICK pod \in PodInfo : /\ Arg("loop").pod = pod
                             /\ \A p : InFront("loop", p) <=> p = pod.uid
  BY AtCycle
<1>3. Safe(park(pod, plugins)) /\ Carries(park(pod, plugins), pod.uid)
  BY Parking DEF park
<1>4. /\ Safe(park(pod, plugins) \o done)
      /\ Carries(park(pod, plugins) \o done, pod.uid)
  BY <1>3, OtherHandlers, SafeConcat
<1>5. Runs("loop", park(pod, plugins) \o done)
  BY <1>1, <1>2 DEF Runs
<1> QED  BY <1>1, <1>2, <1>4, <1>5, HandOver

LEMMA RejectKeeps ==
    ASSUME IInv, Reject \/ ReserveRejects
    PROVE  IInv'
<1>1. {"NodeResourcesFit"} \in SUBSET Plugins /\ {"VolumeBinding"} \in SUBSET Plugins
  BY DEF Plugins
<1> QED  BY <1>1, ParkingKeeps DEF Reject, ReserveRejects

LEMMA FailCycleKeeps ==
    ASSUME IInv, FailCycle
    PROVE  IInv'
<1>1. At("loop", "cycle") /\ todo["loop"] # << >> /\ "loop" \in Tasks
  BY DEF FailCycle, At, Tasks
<1>2. PICK pod \in PodInfo : /\ Arg("loop").pod = pod
                             /\ \A p : InFront("loop", p) <=> p = pod.uid
  BY <1>1, AtCycle
<1>3. Safe(retry(pod) \o done) /\ Carries(retry(pod) \o done, pod.uid)
  BY QueueingHandlers, OtherHandlers, SafeConcat
<1>4. Runs("loop", retry(pod) \o done)
  BY <1>1, <1>2 DEF Runs, FailCycle
<1>5. UNCHANGED <<apiVars, watchVars, queueVars, cacheVars>>
  BY DEF FailCycle
<1> QED  BY <1>1, <1>2, <1>3, <1>4, <1>5, HandOver

LEMMA SpawnKeeps ==
    ASSUME IInv, Spawn
    PROVE  IInv'
<1>0. At("loop", "spawn") /\ "loop" \in Tasks /\ "spawn" \in Carrying
  BY DEF Spawn, Tasks, Carrying
<1>1. PICK b \in Binders :
        /\ todo[b] = << >>
        /\ todo' = [todo EXCEPT
             !["loop"] = Tail(@),
             ![b] = << [op |-> "bind", pod  |-> Arg("loop").pod,
                                       node |-> Arg("loop").node] >>]
  BY DEF Spawn
<1>2. b # "loop" /\ b \in Tasks
  BY NamesAssumption DEF Tasks
<1>3. PICK pod \in PodInfo :
        /\ Arg("loop").pod = pod /\ \A p : InFront("loop", p) <=> p = pod.uid
        /\ Arg("loop") \in Regions /\ Arg("loop").op = "spawn"
  BY <1>0, ArgIs DEF IInv, Shape
<1>4. PICK n \in Nodes : Arg("loop").node = n
  BY <1>3, RegionFields
<1>5. PICK r : r = [op |-> "bind", pod |-> pod, node |-> n]
  OBVIOUS
<1>6. r \in Regions /\ Safe(<< r >>) /\ Carries(<< r >>, pod.uid)
  BY <1>5, Binding DEF Regions
<1>7. todo["loop"] \in Seq(Regions) /\ todo["loop"] # << >> /\ Tasked
  BY <1>0 DEF At, IInv, Shape, Tasked
<1>8. /\ todo' = [todo EXCEPT !["loop"] = Tail(@), ![b] = << r >>]
      /\ Tail(todo["loop"]) \in Seq(Regions) /\ << r >> \in Seq(Regions)
  <2>1. todo' = [todo EXCEPT !["loop"] = Tail(@), ![b] = << r >>]
    BY <1>1, <1>3, <1>4, <1>5
  <2>2. Tail(todo["loop"]) \in Seq(Regions)
    BY <1>7
  <2>3. << r >> \in Seq(Regions)
    BY <1>6
  <2> QED  BY <2>1, <2>2, <2>3
<1>9. /\ Tasked'
      /\ todo'["loop"] = Tail(todo["loop"]) /\ todo'[b] = << r >>
      /\ \A u \in Tasks : u # "loop" /\ u # b => todo'[u] = todo[u]
  BY <1>0, <1>2, <1>7, <1>8 DEF Tasked
<1>10. /\ \A i \in DOMAIN todo["loop"] :
            \/ todo["loop"][i] = Arg("loop")
            \/ \E j \in DOMAIN todo'["loop"] : todo'["loop"][j] = todo["loop"][i]
       /\ \A j \in DOMAIN todo'["loop"] :
            \E i \in DOMAIN todo["loop"] : todo'["loop"][j] = todo["loop"][i]
  <2> DEFINE q == todo["loop"]
  <2>1. /\ Len(q) \in Nat /\ DOMAIN q = 1 .. Len(q) /\ q[1] = Arg("loop")
        /\ Len(Tail(q)) = Len(q) - 1 /\ DOMAIN Tail(q) = 1 .. Len(q) - 1
        /\ \A j \in 1 .. Len(q) - 1 : Tail(q)[j] = q[j + 1]
    BY <1>7 DEF Arg
  <2>2. \A i \in DOMAIN q : i = 1 \/ (i - 1 \in DOMAIN Tail(q) /\ Tail(q)[i - 1] = q[i])
    BY <2>1
  <2>3. \A j \in DOMAIN Tail(q) : j + 1 \in DOMAIN q /\ Tail(q)[j] = q[j + 1]
    BY <2>1
  <2> HIDE DEF q
  <2> QED  BY <2>1, <2>2, <2>3, <1>9 DEF q
<1>11. \A x : Under(x)' => Under(x) \/ x = r
  <2> SUFFICES ASSUME NEW x, Under(x)' PROVE Under(x) \/ x = r
    OBVIOUS
  <2>1. PICK u \in Tasks : \E i \in DOMAIN todo'[u] : todo'[u][i] = x
    BY DEF Under
  <2>2. CASE u = "loop"
    BY <2>1, <2>2, <1>0, <1>10 DEF Under
  <2>3. CASE u = b
    BY <2>1, <2>3, <1>9
  <2>4. CASE u # "loop" /\ u # b
    BY <2>1, <2>4, <1>9 DEF Under
  <2> QED  BY <2>2, <2>3, <2>4
<1>12. \A x : Under(x) => Under(x)' \/ x = Arg("loop")
  <2> SUFFICES ASSUME NEW x, Under(x) PROVE Under(x)' \/ x = Arg("loop")
    OBVIOUS
  <2>1. PICK u \in Tasks : \E i \in DOMAIN todo[u] : todo[u][i] = x
    BY DEF Under
  <2>2. CASE u = "loop"
    BY <2>1, <2>2, <1>0, <1>10 DEF Under
  <2>3. CASE u = b
    BY <2>1, <2>3, <1>1
  <2>4. CASE u # "loop" /\ u # b
    BY <2>1, <2>4, <1>9 DEF Under
  <2> QED  BY <2>2, <2>3, <2>4
<1>13. Under(r)'
  BY <1>2, <1>9 DEF Under
<1>14. UNCHANGED <<apiVars, watchVars, queueVars, cacheVars>>
  BY DEF Spawn
<1>15. Queues' /\ Cached' /\ \A p : Queued(p) => Queued(p)'
  BY <1>14, QueuesStay DEF queueVars, cacheVars, IInv, Shape, Queues, Cached
<1>16. Handed("loop", << r >>)
  BY <1>3, <1>6, <1>15 DEF Handed
<1>17. Removals' /\ NobodyLost'
  <2>1. DOMAIN << r >> = {1} /\ << r >>[1] = r
    OBVIOUS
  <2>2. \A x : Under(x)' => Under(x) \/ \E j \in DOMAIN << r >> : << r >>[j] = x
    BY <2>1, <1>11
  <2>3. \A j \in DOMAIN << r >> : Under(<< r >>[j])'
    BY <2>1, <1>13
  <2>4. UNCHANGED api /\ UNCHANGED mirror
    BY <1>14 DEF apiVars, watchVars
  <2>5. \A p \in Pods : Past(p) => Past(p)'
    BY <2>4 DEF Past
  <2> QED  BY <2>2, <2>3, <2>4, <2>5, <1>0, <1>6, <1>7, <1>9, <1>12, <1>16, MoveKeeps
           DEF IInv, Shape
<1>18. (Api /\ Watching /\ Timely /\ Relist)'
  BY <1>14, ClusterKeeps DEF IInv, Shape
<1> QED  BY <1>9, <1>15, <1>17, <1>18 DEF IInv, Shape

-----------------------------------------------------------------------------
(* The API server, and the binding cycles that write to it *)

Later == {"bound", "terminating", "gone"}
Told(kind, u, pod) == [type |-> kind, uid |-> u, gated |-> pod.gated,
                       node |-> pod.node, state |-> pod.state]

\* A write of one pod, with its news at the end of the stream.
LEMMA Written ==
    ASSUME Api, Watching, Timely, Relist,
           NEW u \in Pods, NEW pod \in Pod, NEW kind \in {"Apply", "Delete"},
           api' = [api EXCEPT ![u] = pod],
           pod_stream' = Append(pod_stream, Told(kind, u, pod)),
           UNCHANGED <<api_nodes, node_stream, watchVars>>,
           pod.state # "none",
           pod.state = "pending" => api[u].state \in {"none", "pending"},
           pod.state = "bound" => pod.node # None,
           pod.node # None => pod.state \in Later,
           Past(u) => pod.state \in Later,
           kind = "Delete" => pod.state \in Later
    PROVE  /\ (Api /\ Watching /\ Timely /\ Relist)'
           /\ \A p \in Pods : Past(p) => Past(p)'
           /\ \A p \in Pods : api'[p].state = "pending" /\ mirror[p] # None
                                => api[p].state = "pending"
<1>0. /\ api'[u] = pod
      /\ \A p \in Pods : p # u => api'[p] = api[p]
      /\ api \in [Pods -> Pod] /\ api' \in [Pods -> Pod]
  BY DEF Api
<1> DEFINE ev == Told(kind, u, pod)
           n  == Len(pod_stream)
<1>1. /\ ev \in News /\ ev.type = kind /\ ev.uid = u /\ ev.node = pod.node
      /\ ev.state = pod.state
  BY DEF Told, News, Pod
<1> HIDE DEF ev
<1>2. /\ pod_stream \in Seq(PodEvents) /\ ev \in PodEvents /\ n \in Nat
      /\ pod_stream' = Append(pod_stream, ev)
  BY <1>1 DEF Api, PodEvents, ev
<1>3. /\ DOMAIN pod_stream = 1 .. n /\ DOMAIN pod_stream' = 1 .. n + 1
      /\ pod_stream' \in Seq(PodEvents)
      /\ \A k \in DOMAIN pod_stream : k \in DOMAIN pod_stream' /\ pod_stream'[k] = pod_stream[k]
      /\ \A k \in DOMAIN pod_stream' : k \in DOMAIN pod_stream \/ (k = n + 1 /\ pod_stream'[k] = ev)
  BY <1>2
<1>4. \A p \in Pods : Past(p) => Past(p)'
  BY <1>0 DEF Past, Later
<1>5. Past(u)' <=> pod.state \in Later
  BY <1>0 DEF Past, Later
<1>6. \A p \in Pods : api'[p].state = "pending" /\ mirror[p] # None
                        => api[p].state = "pending"
  BY <1>0 DEF Timely
<1>7. Api' /\ Watching'
  <2>1. \A p \in Pods : (api[p].node # None => Past(p))'
    BY <1>0, <1>4, <1>5 DEF Api
  <2>2. \A p \in Pods : (api[p].state = "bound" => api[p].node # None)'
    BY <1>0 DEF Api
  <2>3. Watching'
    BY DEF Watching, watchVars
  <2> QED  BY <2>1, <2>2, <2>3, <1>0, <1>3 DEF Api
<1>8. Timely'
  <2>1. ASSUME NEW p \in Pods, mirror'[p] # None PROVE api'[p].state # "none"
    BY <2>1, <1>0 DEF Timely, watchVars
  <2>2. ASSUME NEW k \in DOMAIN pod_stream
        PROVE  LET e == pod_stream[k] IN
               /\ e.type \in {"Apply", "Delete"} => api'[e.uid].state # "none"
               /\ e.type = "Delete" => Past(e.uid)'
               /\ e.type = "Apply" /\ (e.node # None \/ e.state = "terminating")
                    => Past(e.uid)'
    <3>1. PICK e \in PodEvents : pod_stream[k] = e
      BY <1>2
    <3>2. e.type \in {"Apply", "Delete"} => e.uid \in Pods
      BY DEF PodEvents, News
    <3>3. /\ e.type \in {"Apply", "Delete"} => api[e.uid].state # "none"
          /\ e.type = "Delete" => Past(e.uid)
          /\ e.type = "Apply" /\ (e.node # None \/ e.state = "terminating")
               => Past(e.uid)
      BY <3>1 DEF Timely
    <3>4. e.type \in {"Apply", "Delete"} => api'[e.uid].state # "none"
      BY <3>2, <3>3, <1>0
    <3>5. /\ e.type = "Delete" => Past(e.uid)'
          /\ e.type = "Apply" /\ (e.node # None \/ e.state = "terminating")
               => Past(e.uid)'
      BY <3>2, <3>3, <1>4
    <3> QED  BY <3>1, <3>4, <3>5
  <2>3. /\ ev.type \in {"Apply", "Delete"} => api'[ev.uid].state # "none"
        /\ ev.type = "Delete" => Past(ev.uid)'
        /\ ev.type = "Apply" /\ (ev.node # None \/ ev.state = "terminating")
             => Past(ev.uid)'
    BY <1>0, <1>1, <1>5 DEF Later
  <2>4. ASSUME NEW k \in DOMAIN pod_stream', NEW e, e = pod_stream'[k]
        PROVE  /\ e.type \in {"Apply", "Delete"} => api'[e.uid].state # "none"
               /\ e.type = "Delete" => Past(e.uid)'
               /\ e.type = "Apply" /\ (e.node # None \/ e.state = "terminating")
                    => Past(e.uid)'
    <3>1. CASE k \in DOMAIN pod_stream
      <4>1. e = pod_stream[k]
        BY <3>1, <2>4, <1>3
      <4> QED  BY <3>1, <4>1, <2>2
    <3>2. CASE e = ev
      BY <3>2, <2>3
    <3> QED  BY <3>1, <3>2, <2>4, <1>3
  <2> QED  BY <2>1, <2>4 DEF Timely, Past
<1>9. Relist'
  <2>0. /\ \A k \in DOMAIN pod_stream, x \in {"Init", "InitDone", "Apply"} :
             IsAt(k, x) <=> IsAt(k, x)'
        /\ \A k \in DOMAIN pod_stream', x \in {"Init", "InitDone"} :
             IsAt(k, x)' => k \in DOMAIN pod_stream /\ IsAt(k, x)
    BY <1>1, <1>3 DEF IsAt
  <2>1. \A k \in DOMAIN pod_stream' : IsAt(k, "Init")' => k = 1
    BY <2>0 DEF Relist
  <2>2. \A k, l \in DOMAIN pod_stream' :
          IsAt(k, "InitDone")' /\ IsAt(l, "InitDone")' => k = l
    BY <2>0 DEF Relist
  <2>3. ASSUME NEW k \in DOMAIN pod_stream', IsAt(k, "InitDone")'
        PROVE  /\ (IsAt(1, "Init") \/ relisting)'
               /\ \A p \in Pods : (api[p].state = "pending" /\ mirror[p] # None)'
                    => Coming(p, k)' \/ (p \in seen /\ ~IsAt(1, "Init"))'
    <3>1. k \in DOMAIN pod_stream /\ IsAt(k, "InitDone") /\ 1 \in DOMAIN pod_stream
      BY <2>0, <2>3, <1>3
    <3>2. IsAt(1, "Init") <=> IsAt(1, "Init")'
      BY <2>0, <3>1
    <3>3. \A p : Coming(p, k) => Coming(p, k)'
      BY <3>1, <1>3 DEF Coming, IsAt
    <3> QED  BY <3>1, <3>2, <3>3, <1>6 DEF Relist, watchVars
  <2> QED  BY <2>1, <2>2, <2>3 DEF Relist
<1> QED  BY <1>4, <1>6, <1>7, <1>8, <1>9

\* A write that no task of the scheduler makes.
LEMMA WrittenKeeps ==
    ASSUME IInv, NEW u \in Pods, NEW pod \in Pod, NEW kind \in {"Apply", "Delete"},
           Write(u, pod, kind),
           pod.state # "none",
           pod.state = "pending" => api[u].state \in {"none", "pending"},
           pod.state = "bound" => pod.node # None,
           pod.node # None => pod.state \in Later,
           Past(u) => pod.state \in Later,
           kind = "Delete" => pod.state \in Later
    PROVE  IInv'
<1>1. /\ api' = [api EXCEPT ![u] = pod]
      /\ UNCHANGED <<api_nodes, node_stream, watchVars, queueVars, cacheVars, todo>>
  BY DEF Write
<1>2. pod_stream' = Append(pod_stream, Told(kind, u, pod))
  <2>1. api'[u] = pod
    BY <1>1 DEF IInv, Shape, Api
  <2> QED  BY <2>1 DEF Write, Event, Told
<1>3. /\ (Api /\ Watching /\ Timely /\ Relist)'
      /\ \A p \in Pods : Past(p) => Past(p)'
      /\ \A p \in Pods : api'[p].state = "pending" /\ mirror[p] # None
                           => api[p].state = "pending"
  BY <1>1, <1>2, Written DEF IInv, Shape
<1>4. Queues' /\ Cached' /\ Tasked' /\ \A p : Queued(p) => Queued(p)'
  BY <1>1, QueuesStay DEF queueVars, cacheVars, IInv, Shape, Queues, Cached, Tasked
<1>5. \A r : Under(r) <=> Under(r)'
  BY <1>1 DEF Under
<1>6. Removals'
  <2>1. \A r \in Regions : Under(r) /\ Removal(r) => Past(r.uid)
    BY RemovalsUnder DEF IInv, Shape
  <2>2. \A r \in Regions : Removal(r) => r.uid \in Pods
    BY RegionFields DEF Removal
  <2>3. \A r \in Regions : Under(r)' /\ Removal(r) => Past(r.uid)'
    BY <2>1, <2>2, <1>3, <1>5
  <2>4. (Removals <=> \A r \in Regions : Under(r) /\ Removal(r) => Past(r.uid))'
    BY <1>4, RemovalsUnder, PTL
  <2> QED  BY <2>3, <2>4
<1>7. NobodyLost'
  <2>1. UNCHANGED Uids(Hands) /\ UNCHANGED mirror
    BY <1>1 DEF Uids, Hands, Carried, watchVars
  <2> QED  BY <2>1, <1>3, <1>4 DEF NobodyLost, IInv
<1> QED  BY <1>3, <1>4, <1>6, <1>7 DEF IInv, Shape

\* What no task of the scheduler does, and no pod's writer.
LEMMA OutsideKeeps ==
    ASSUME IInv, (Api /\ Timely /\ Relist)',
           UNCHANGED <<api, watchVars, queueVars, cacheVars, todo>>
    PROVE  IInv'
<1>1. (Watching /\ Queues /\ Cached /\ Tasked)'
  BY DEF IInv, Shape, Watching, Queues, Cached, Tasked, watchVars, queueVars, cacheVars
<1>2. Removals'
  BY DEF IInv, Removals, Past
<1>3. NobodyLost'
  <2>1. UNCHANGED Uids(Hands) /\ UNCHANGED mirror /\ \A p : Queued(p) <=> Queued(p)'
    BY DEF Uids, Hands, Carried, Queued, Waiting, watchVars, queueVars
  <2> QED  BY <2>1 DEF IInv, NobodyLost
<1> QED  BY <1>1, <1>2, <1>3 DEF IInv, Shape

\* The writers of pods.
LEMMA WritersKeep ==
    ASSUME IInv, NEW u \in Pods,
           \/ CreatePod(u) \/ RemoveGate(u) \/ EditPod(u) \/ Report(u)
           \/ TerminatePod(u) \/ DeletePod(u)
    PROVE  IInv'
<1> DEFINE was == api[u]
<1>1. /\ was \in Pod
      /\ was.state = "bound" => was.node # None
      /\ was.node # None => was.state \in Later
      /\ Past(u) <=> was.state \in Later
  BY DEF IInv, Shape, Api, Past, Later
<1>2. CASE CreatePod(u)
  <2>1. PICK pod : pod = [was EXCEPT !.state = "pending"]
    OBVIOUS
  <2>2. pod \in Pod /\ pod.state = "pending" /\ pod.node = was.node
    BY <2>1, <1>1 DEF Pod, States
  <2>3. was.state = "none" /\ Write(u, pod, "Apply")
    BY <2>1, <1>2 DEF CreatePod
  <2> QED  BY <2>2, <2>3, <1>1, WrittenKeeps DEF Later
<1>3. CASE RemoveGate(u)
  <2>1. PICK pod : pod = [was EXCEPT !.gated = FALSE]
    OBVIOUS
  <2>2. pod \in Pod /\ pod.state = was.state /\ pod.node = was.node
    BY <2>1, <1>1 DEF Pod
  <2>3. was.state = "pending" /\ Write(u, pod, "Apply")
    BY <2>1, <1>3 DEF RemoveGate
  <2> QED  BY <2>2, <2>3, <1>1, WrittenKeeps DEF Later
<1>4. ASSUME was.state \in Living, Write(u, was, "Apply") PROVE IInv'
  <2>1. PICK pod : pod = was
    OBVIOUS
  <2> QED  BY <2>1, <1>4, <1>1, WrittenKeeps DEF Later, Living
<1>7. CASE EditPod(u)
  BY <1>4, <1>7 DEF EditPod
<1>8. CASE Report(u)
  <2>1. CASE was.state \in Living
    BY <2>1, <1>4, <1>8 DEF Report
  <2>2. CASE was.state \notin Living
    <3>1. UNCHANGED <<apiVars, watchVars, queueVars, cacheVars, todo>>
      BY <2>2, <1>8 DEF Report
    <3>2. (Api /\ Timely /\ Relist)'
      BY <3>1, ClusterKeeps DEF IInv, Shape
    <3>3. UNCHANGED api
      BY <3>1 DEF apiVars
    <3> QED  BY <3>1, <3>2, <3>3, OutsideKeeps
  <2> QED  BY <2>1, <2>2
<1>5. CASE TerminatePod(u)
  <2>1. PICK pod : pod = [was EXCEPT !.state = "terminating"]
    OBVIOUS
  <2>2. pod \in Pod /\ pod.state = "terminating" /\ pod.node = was.node
    BY <2>1, <1>1 DEF Pod, States
  <2>3. was.state = "pending" /\ Write(u, pod, "Apply")
    BY <2>1, <1>5 DEF TerminatePod
  <2> QED  BY <2>2, <2>3, <1>1, WrittenKeeps DEF Later
<1>6. CASE DeletePod(u)
  <2>1. PICK pod : pod = [was EXCEPT !.state = "gone"]
    OBVIOUS
  <2>2. pod \in Pod /\ pod.state = "gone" /\ pod.node = was.node
    BY <2>1, <1>1 DEF Pod, States
  <2>3. Write(u, pod, "Delete")
    BY <2>1, <1>6 DEF DeletePod
  <2> QED  BY <2>2, <2>3, <1>1, WrittenKeeps DEF Later
<1> QED  BY <1>2, <1>3, <1>5, <1>6, <1>7, <1>8

LEMMA AtBind ==
    ASSUME IInv, NEW b \in Binders, At(b, "bind")
    PROVE  /\ b \in Tasks /\ todo[b] # << >>
           /\ \E pod \in PodInfo, n \in Nodes :
                /\ Arg(b).pod = pod /\ Arg(b).node = n /\ pod.uid \in Pods
                /\ \A p : InFront(b, p) <=> p = pod.uid
<1>1. b \in Tasks /\ "bind" \in Carrying /\ Tasked
  BY DEF Tasks, Carrying, IInv, Shape
<1>2. /\ todo[b] # << >> /\ Arg(b) \in Regions /\ Arg(b).op = "bind"
      /\ Arg(b).pod \in PodInfo /\ Arg(b).pod.uid \in Pods
      /\ \A p : InFront(b, p) <=> p = Arg(b).pod.uid
  BY <1>1, ArgIs
<1>3. Arg(b).node \in Nodes
  BY <1>2, RegionFields
<1> QED  BY <1>1, <1>2, <1>3

\* What a binding cycle does with each outcome.
LEMMA Outcomes ==
    ASSUME NEW pod \in PodInfo
    PROVE  /\ Safe(Failed(pod)) /\ Carries(Failed(pod), pod.uid)
           /\ Safe(Rejected(pod)) /\ Carries(Rejected(pod), pod.uid)
           /\ Past(pod.uid) => Safe(Cancelled(pod))
<1>1. pod.uid \in Pods /\ {"VolumeBinding"} \in SUBSET Plugins /\ "PodDeleted" \in Signals
  BY DEF PodInfo, Plugins, Signals
<1>2. Safe(release(pod.uid)) /\ Safe(move_all("PodDeleted"))
  BY <1>1, OtherHandlers, EndingsAreSafe
<1>3. Safe(retry(pod)) /\ Carries(retry(pod), pod.uid)
  BY QueueingHandlers
<1>4. /\ Safe(park(pod, {"VolumeBinding"}))
      /\ Carries(park(pod, {"VolumeBinding"}), pod.uid)
  BY <1>1, Parking DEF park
<1>5. Safe(Failed(pod)) /\ Carries(Failed(pod), pod.uid)
  <2>1. /\ Safe(release(pod.uid) \o retry(pod))
        /\ Carries(release(pod.uid) \o retry(pod), pod.uid)
    BY <1>2, <1>3, SafeConcat
  <2> QED  BY <2>1, <1>2, SafeConcat DEF Failed
<1>6. Safe(Rejected(pod)) /\ Carries(Rejected(pod), pod.uid)
  <2>1. /\ Safe(release(pod.uid) \o park(pod, {"VolumeBinding"}))
        /\ Carries(release(pod.uid) \o park(pod, {"VolumeBinding"}), pod.uid)
    BY <1>2, <1>4, SafeConcat
  <2> QED  BY <2>1, <1>2, SafeConcat DEF Rejected
<1>7. ASSUME Past(pod.uid) PROVE Safe(Cancelled(pod))
  <2>1. Safe(remove(pod.uid))
    BY <1>1, <1>7, Removing
  <2>2. Safe(release(pod.uid) \o remove(pod.uid))
    BY <2>1, <1>2, SafeConcat
  <2> QED  BY <2>2, <1>2, SafeConcat DEF Cancelled
<1> QED  BY <1>5, <1>6, <1>7

\* The server binds the pod, whatever the cycle learns of it.
LEMMA BoundKeeps ==
    ASSUME IInv, NEW b \in Binders, ServerBinds(b), NEW ops, Safe(ops), Goto(b, ops),
           UNCHANGED <<queueVars, watchVars, cacheVars>>
    PROVE  IInv'
<1>1. At(b, "bind")
  BY DEF ServerBinds
<1>2. PICK info \in PodInfo, n \in Nodes :
        /\ Arg(b).pod = info /\ Arg(b).node = n /\ info.uid \in Pods
        /\ \A p : InFront(b, p) <=> p = info.uid
  BY <1>1, AtBind
<1>3. b \in Tasks /\ todo[b] # << >>
  BY <1>1, AtBind
<1> DEFINE u == info.uid
<1>4. /\ api[u] \in Pod /\ api[u].state = "pending" /\ n # None /\ ~Past(u)
      /\ api \in [Pods -> Pod]
  BY <1>2, NamesAssumption DEF ServerBinds, Bindable, IInv, Shape, Api, Past
<1>5. PICK pod : pod = [api[u] EXCEPT !.state = "bound", !.node = n]
  OBVIOUS
<1>6. pod \in Pod /\ pod.state = "bound" /\ pod.node = n
  BY <1>4, <1>5 DEF Pod, States
<1>7. api' = [api EXCEPT ![u] = pod]
  BY <1>2, <1>4, <1>5 DEF ServerBinds
<1>8. pod_stream' = Append(pod_stream, Told("Apply", u, pod))
  <2>1. api'[u] = pod
    BY <1>2, <1>4, <1>7
  <2> QED  BY <2>1, <1>2 DEF ServerBinds, Event, Told
<1>9. /\ (Api /\ Watching /\ Timely /\ Relist)'
      /\ \A p \in Pods : Past(p) => Past(p)'
      /\ \A p \in Pods : api'[p].state = "pending" /\ mirror[p] # None
                           => api[p].state = "pending"
  <2>1. UNCHANGED <<api_nodes, node_stream, watchVars>>
    BY DEF ServerBinds
  <2> QED  BY <2>1, <1>2, <1>4, <1>6, <1>7, <1>8, Written DEF IInv, Shape, Later
<1>10. api'[u].state = "bound" /\ Past(u)' /\ UNCHANGED mirror
  BY <1>2, <1>4, <1>6, <1>7 DEF Past, watchVars
<1>11. Queues' /\ Cached' /\ \A p : Queued(p) => Queued(p)'
  BY QueuesStay DEF queueVars, cacheVars, IInv, Shape, Queues, Cached
<1> QED
  <2>1. PICK front : front = Arg(b)
    OBVIOUS
  <2>2. /\ Tasked'
        /\ \A x : Under(x)' => Under(x) \/ \E j \in DOMAIN ops : ops[j] = x
        /\ \A x : Under(x) => Under(x)' \/ x = front
        /\ \A j \in DOMAIN ops : Under(ops[j])'
    BY <2>1, <1>3, RunsRegions DEF IInv, Shape, Runs
  <2>3. Removals'
    <3>1. \A x \in Regions : Under(x) /\ Removal(x) => Past(x.uid)
      BY RemovalsUnder DEF IInv, Shape
    <3>2. \A x \in Regions : Removal(x) => x.uid \in Pods
      BY RegionFields DEF Removal
    <3>3. \A x \in Regions : Under(x)' /\ Removal(x) => Past(x.uid)'
      BY <3>1, <3>2, <2>2, <1>9 DEF Safe
    <3>4. (Removals <=> \A r \in Regions : Under(r) /\ Removal(r) => Past(r.uid))'
      BY <2>2, RemovalsUnder, PTL
    <3> QED  BY <3>3, <3>4
  <2>4. NobodyLost'
    <3>1. (\A p : p \in Uids(Hands) <=> InHands(p))'
      BY <2>2, HandsAreHeld, PTL
    <3>2. ASSUME NEW p \in Pods, api'[p].state = "pending", mirror'[p] # None
          PROVE  Queued(p)' \/ InHands(p)'
      <4>1. p # u /\ api[p].state = "pending" /\ mirror[p] # None
        BY <3>2, <1>9, <1>10
      <4>2. Queued(p) \/ InHands(p)
        BY <4>1, HandsAreHeld DEF IInv, Shape, NobodyLost
      <4>3. CASE InHands(p)
        <5>1. PICK x \in Regions : Under(x) /\ Holds(x, p)
          BY <4>3 DEF InHands
        <5>2. x # front
          BY <5>1, <4>1, <2>1, <1>2 DEF Holds
        <5> QED  BY <5>1, <5>2, <2>2 DEF InHands, Holds
      <4> QED  BY <4>2, <4>3, <1>11
    <3> QED  BY <3>1, <3>2 DEF NobodyLost
  <2> QED  BY <2>2, <2>3, <2>4, <1>9, <1>11 DEF IInv, Shape

LEMMA BindKeeps ==
    ASSUME IInv, NEW b \in Binders, Bind(b) \/ BindUnanswered(b)
    PROVE  IInv'
<1>1. CASE Bind(b)
  BY <1>1, SafeEmpty, BoundKeeps DEF Bind
<1>2. CASE BindUnanswered(b)
  <2>1. At(b, "bind")
    BY <1>2 DEF BindUnanswered, ServerBinds
  <2>2. PICK pod \in PodInfo : Arg(b).pod = pod
    BY <2>1, AtBind
  <2>3. Safe(Failed(pod)) /\ Goto(b, Failed(pod))
    BY <2>2, <1>2, Outcomes DEF BindUnanswered
  <2> QED  BY <2>3, <1>2, BoundKeeps DEF BindUnanswered
<1> QED  BY <1>1, <1>2

\* The server binds nothing.
LEMMA UnboundKeeps ==
    ASSUME IInv, NEW b \in Binders, BindRefused(b) \/ BindFails(b) \/ PreBindRejects(b)
    PROVE  IInv'
<1>1. At(b, "bind")
  BY DEF BindRefused, BindFails, PreBindRejects
<1>2. PICK pod \in PodInfo :
        /\ Arg(b).pod = pod /\ pod.uid \in Pods
        /\ \A p : InFront(b, p) <=> p = pod.uid
  BY <1>1, AtBind
<1>3. b \in Tasks /\ todo[b] # << >>
  BY <1>1, AtBind
<1>4. UNCHANGED <<apiVars, watchVars, queueVars, cacheVars>>
  BY DEF BindRefused, BindFails, PreBindRejects
<1>5. CASE Goto(b, Failed(pod)) \/ Goto(b, Rejected(pod))
  <2>1. PICK ops : Safe(ops) /\ Carries(ops, pod.uid) /\ Goto(b, ops)
    BY <1>5, Outcomes
  <2> QED  BY <2>1, <1>2, <1>3, <1>4, HandOver DEF Runs
<1>6. CASE Past(pod.uid) /\ (Goto(b, << >>) \/ Goto(b, Cancelled(pod)))
  <2>1. PICK ops : Safe(ops) /\ Goto(b, ops)
    BY <1>6, SafeEmpty, Outcomes
  <2>2. Queues' /\ Cached' /\ \A p : Queued(p) => Queued(p)'
    BY <1>4, QueuesStay DEF queueVars, cacheVars, IInv, Shape, Queues, Cached
  <2>3. Handed(b, ops)
    BY <2>2, <1>2, <1>6 DEF Handed, Past
  <2> QED  BY <2>1, <2>2, <2>3, <1>3, <1>4, StepKeeps DEF Runs
<1>7. \/ Goto(b, Failed(pod)) \/ Goto(b, Rejected(pod))
      \/ Past(pod.uid) /\ (Goto(b, << >>) \/ Goto(b, Cancelled(pod)))
  BY <1>2 DEF BindRefused, BindFails, PreBindRejects, Past
<1> QED  BY <1>5, <1>6, <1>7

-----------------------------------------------------------------------------
(* The watches *)

\* The stream without its first event.
LEMMA Shifted ==
    ASSUME Api, pod_stream # << >>, pod_stream' = Tail(pod_stream)
    PROVE  /\ pod_stream' \in Seq(PodEvents)
           /\ 1 \in DOMAIN pod_stream /\ pod_stream[1] = Head(pod_stream)
           /\ Head(pod_stream) \in PodEvents
           /\ DOMAIN pod_stream \subseteq Nat \ {0} /\ DOMAIN pod_stream' \subseteq Nat \ {0}
           /\ \A k \in DOMAIN pod_stream' : /\ k + 1 \in DOMAIN pod_stream
                                            /\ pod_stream'[k] = pod_stream[k + 1]
           /\ \A k \in DOMAIN pod_stream : k # 1 => /\ k - 1 \in DOMAIN pod_stream'
                                                    /\ pod_stream'[k - 1] = pod_stream[k]
<1> DEFINE q == pod_stream
<1>1. q \in Seq(PodEvents) /\ q # << >>
  BY DEF Api
<1>2. /\ Len(q) \in Nat /\ Len(q) > 0 /\ DOMAIN q = 1 .. Len(q)
      /\ Tail(q) \in Seq(PodEvents) /\ DOMAIN Tail(q) = 1 .. Len(q) - 1
      /\ \A k \in 1 .. Len(q) - 1 : Tail(q)[k] = q[k + 1]
      /\ q[1] = Head(q) /\ q[1] \in PodEvents
  BY <1>1
<1> QED  BY <1>2

\* Taking an event from the stream keeps what is known of it, when the pending
\* pods stay listed.
LEMMA ConsumedKeeps ==
    ASSUME Api, Timely, Relist, Watching', pod_stream # << >>,
           pod_stream' = Tail(pod_stream), UNCHANGED <<api, api_nodes, node_stream>>,
           \A p \in Pods : mirror'[p] # None => api[p].state # "none",
           \A k \in DOMAIN pod_stream : k # 1 /\ IsAt(k, "InitDone") =>
             /\ relisting'
             /\ \A p \in Pods : api[p].state = "pending" /\ mirror'[p] # None =>
                  \/ \E i \in 2 .. (k - 1) : IsAt(i, "Apply") /\ pod_stream[i].uid = p
                  \/ p \in seen'
    PROVE  (Api /\ Timely /\ Relist)'
<1>1. Api'
  BY Shifted DEF Api, Past
<1>2. Timely'
  <2>1. ASSUME NEW k \in DOMAIN pod_stream', NEW e, e = pod_stream'[k]
        PROVE  /\ e.type \in {"Apply", "Delete"} => api[e.uid].state # "none"
               /\ e.type = "Delete" => Past(e.uid)
               /\ e.type = "Apply" /\ (e.node # None \/ e.state = "terminating")
                    => Past(e.uid)
    <3>1. k + 1 \in DOMAIN pod_stream /\ e = pod_stream[k + 1]
      BY <2>1, Shifted
    <3> QED  BY <3>1 DEF Timely
  <2> QED  BY <2>1 DEF Timely, Past
<1>3. \A k \in DOMAIN pod_stream', x \in {"Init", "InitDone"} :
        IsAt(k, x)' => /\ k + 1 \in DOMAIN pod_stream /\ k + 1 # 1 /\ IsAt(k + 1, x)
                       /\ k \in Nat /\ k # 0
  BY Shifted DEF IsAt
<1>4. \A k \in DOMAIN pod_stream' : ~IsAt(k, "Init")'
  BY <1>3 DEF Relist
<1>5. ~IsAt(1, "Init")'
  BY <1>4 DEF IsAt
<1>6. \A k, l \in DOMAIN pod_stream' : IsAt(k, "InitDone")' /\ IsAt(l, "InitDone")' => k = l
  <2> TAKE k, l \in DOMAIN pod_stream'
  <2>1. ASSUME IsAt(k, "InitDone")', IsAt(l, "InitDone")' PROVE k = l
    <3>1. k + 1 = l + 1 /\ k \in Nat /\ l \in Nat
      BY <2>1, <1>3 DEF Relist
    <3> QED  BY <3>1
  <2> QED  BY <2>1
<1>7. ASSUME NEW k \in DOMAIN pod_stream', IsAt(k, "InitDone")'
      PROVE  /\ relisting'
             /\ \A p \in Pods : api[p].state = "pending" /\ mirror'[p] # None
                  => Coming(p, k)' \/ p \in seen'
  <2>1. /\ k + 1 \in DOMAIN pod_stream /\ k + 1 # 1 /\ IsAt(k + 1, "InitDone")
        /\ k \in Nat /\ k # 0 /\ (k + 1) - 1 = k
    BY <1>3, <1>7
  <2>2. ASSUME NEW p \in Pods, api[p].state = "pending", mirror'[p] # None
        PROVE  Coming(p, k)' \/ p \in seen'
    <3>1. \/ \E i \in 2 .. k : IsAt(i, "Apply") /\ pod_stream[i].uid = p
          \/ p \in seen'
      BY <2>1, <2>2
    <3>2. ASSUME NEW i \in 2 .. k, IsAt(i, "Apply"), pod_stream[i].uid = p
          PROVE  Coming(p, k)'
      <4>1. i - 1 \in DOMAIN pod_stream' /\ pod_stream'[i - 1] = pod_stream[i]
        BY <3>2, Shifted DEF IsAt
      <4>2. i - 1 \in 1 .. (k - 1)
        BY <2>1
      <4> QED  BY <4>1, <4>2, <3>2 DEF Coming, IsAt
    <3> QED  BY <3>1, <3>2
  <2> QED  BY <2>1, <2>2
<1>8. Relist'
  BY <1>4, <1>5, <1>6, <1>7 DEF Relist
<1> QED  BY <1>1, <1>2, <1>8

\* A handler of the pod watch: what it takes from the stream, and what it runs.
LEMMA HandlerKeeps ==
    ASSUME IInv, (Api /\ Watching /\ Timely /\ Relist)',
           NEW ops, Safe(ops), Begin("watch", ops),
           UNCHANGED <<api, queueVars, cacheVars>>,
           \A p \in Pods : api[p].state = "pending" /\ mirror'[p] # None
                             => mirror[p] # None \/ Carries(ops, p)
    PROVE  IInv'
<1>1. Queues' /\ Cached' /\ \A p : Queued(p) => Queued(p)'
  BY QueuesStay DEF queueVars, cacheVars, IInv, Shape, Queues, Cached
<1>2. "watch" \in Tasks /\ Runs("watch", ops) /\ Handed("watch", ops)
  BY <1>1 DEF Tasks, Runs, Handed, InFront, Begin
<1>3. \A p \in Pods : Past(p) => Past(p)'
  BY DEF Past
<1>4. Tasked' /\ Removals' /\ NobodyLost'
  BY <1>2, <1>3, TaskKeeps DEF IInv, Shape
<1> QED  BY <1>1, <1>4 DEF IInv, Shape

LEMMA AppliedIsSafe ==
    ASSUME Shape, NEW ev \in News,
           ev.node # None \/ ev.state = "terminating" => Past(ev.uid)
    PROVE  Safe(applied(ev)) /\ (Past(ev.uid) \/ Carries(applied(ev), ev.uid))
<1>1. PICK p \in Pods, n \in Nodes \cup {None} : ev.uid = p /\ ev.node = n
  BY DEF News
<1>2. PICK pod \in PodInfo : pod = [uid |-> p, gated |-> ev.gated] /\ pod.uid = p
  <2>1. ev.gated \in BOOLEAN
    BY DEF News
  <2>2. [uid |-> p, gated |-> ev.gated] \in PodInfo
    BY <2>1 DEF PodInfo
  <2> QED  BY <2>2
<1>3. {"PodBound", "GateRemoved"} \subseteq Signals
  BY DEF Signals
<1>4. /\ Safe(move_all("PodBound")) /\ Safe(move_all("GateRemoved"))
      /\ Safe(<< >>)
  BY <1>3, OtherHandlers, EndingsAreSafe, SafeEmpty
<1> DEFINE old == mirror[p]
           news(c, kind) == IF c THEN move_all(kind) ELSE << >>
<1>5. CASE n # None
  <2>1. Past(p) /\ n \in Nodes
    BY <1>1, <1>5
  <2>2. Safe(remove(p)) /\ Safe(confirm(p, n))
    BY <2>1, Removing, OtherHandlers
  <2>3. Safe(remove(p) \o confirm(p, n))
    BY <2>2, SafeConcat
  <2>4. PICK tail : /\ tail = news(old # None /\ old.node = None, "PodBound")
                    /\ Safe(tail)
    BY <1>4
  <2>5. Safe(remove(p) \o confirm(p, n) \o tail)
    BY <2>3, <2>4, SafeConcat
  <2>6. applied(ev) = remove(p) \o confirm(p, n) \o tail
    BY <2>4, <1>1, <1>5 DEF applied
  <2> QED  BY <2>1, <2>5, <2>6, <1>1
<1>6. CASE n = None /\ ev.state = "terminating"
  <2>1. Past(p) /\ applied(ev) = remove(p)
    BY <1>1, <1>6 DEF applied
  <2> QED  BY <2>1, <1>1, Removing
<1>7. CASE n = None /\ ev.state # "terminating" /\ old = None
  <2>1. applied(ev) = add(pod)
    BY <1>1, <1>2, <1>7 DEF applied
  <2> QED  BY <2>1, <1>1, <1>2, QueueingHandlers
<1>8. CASE n = None /\ ev.state # "terminating" /\ old # None
  <2>1. PICK tail : /\ tail = news(old.gated /\ ~ev.gated, "GateRemoved")
                    /\ Safe(tail)
    BY <1>4
  <2>2. Safe(update(pod)) /\ Carries(update(pod), p)
    BY <1>2, QueueingHandlers
  <2>3. Safe(update(pod) \o tail) /\ Carries(update(pod) \o tail, p)
    BY <2>1, <2>2, SafeConcat
  <2>4. applied(ev) = update(pod) \o tail
    BY <2>1, <1>1, <1>2, <1>8 DEF applied
  <2> QED  BY <2>3, <2>4, <1>1
<1> QED  BY <1>5, <1>6, <1>7, <1>8

LEMMA HandleApplyKeeps ==
    ASSUME IInv, HandleApply
    PROVE  IInv'
<1>1. /\ Shape /\ pod_stream # << >> /\ pod_stream' = Tail(pod_stream)
      /\ UNCHANGED <<api, api_nodes, node_stream, relisting, queueVars, cacheVars>>
  BY DEF HandleApply, IInv
<1>2. PICK ev : ev = Head(pod_stream)
  OBVIOUS
<1>3. /\ ev.type = "Apply"
      /\ mirror' = [mirror EXCEPT ![ev.uid] = [gated |-> ev.gated, node |-> ev.node]]
      /\ seen' = IF relisting THEN seen \cup {ev.uid} ELSE seen
      /\ Begin("watch", applied(ev))
  BY <1>2 DEF HandleApply
<1>4. ev \in News /\ 1 \in DOMAIN pod_stream /\ pod_stream[1] = ev
  BY <1>1, <1>2, <1>3, Shifted DEF Shape, PodEvents
<1>5. /\ ev.uid \in Pods /\ ev.gated \in BOOLEAN /\ ev.node \in Nodes \cup {None}
      /\ api[ev.uid].state # "none"
      /\ ev.node # None \/ ev.state = "terminating" => Past(ev.uid)
  BY <1>3, <1>4 DEF IInv, Timely, News
<1>6. Watching'
  <2>1. [gated |-> ev.gated, node |-> ev.node]
          \in [gated : BOOLEAN, node : Nodes \cup {None}] \cup {None}
    BY <1>5
  <2> QED  BY <2>1, <1>1, <1>3, <1>5 DEF Shape, Watching
<1>7. /\ \A p \in Pods : p # ev.uid => mirror'[p] = mirror[p]
      /\ \A p \in Pods : mirror'[p] # None => api[p].state # "none"
  BY <1>1, <1>3, <1>5 DEF IInv, Shape, Watching, Timely
<1>8. ASSUME NEW k \in DOMAIN pod_stream, k # 1, IsAt(k, "InitDone")
      PROVE  /\ relisting'
             /\ \A p \in Pods : api[p].state = "pending" /\ mirror'[p] # None =>
                  \/ \E i \in 2 .. (k - 1) : IsAt(i, "Apply") /\ pod_stream[i].uid = p
                  \/ p \in seen'
  <2>1. ~IsAt(1, "Init")
    BY <1>3, <1>4 DEF IsAt
  <2>2. relisting /\ relisting'
    BY <2>1, <1>1, <1>8 DEF IInv, Relist
  <2>3. seen' = seen \cup {ev.uid}
    BY <2>2, <1>3
  <2>4. ASSUME NEW p \in Pods, api[p].state = "pending", mirror'[p] # None, p # ev.uid
        PROVE  \/ \E i \in 2 .. (k - 1) : IsAt(i, "Apply") /\ pod_stream[i].uid = p
               \/ p \in seen'
    <3>1. Coming(p, k) \/ p \in seen
      BY <2>4, <1>7, <1>8 DEF IInv, Relist
    <3>2. CASE p \in seen
      BY <3>2, <2>3
    <3>3. CASE Coming(p, k)
      <4>1. PICK i \in 1 .. (k - 1) : IsAt(i, "Apply") /\ pod_stream[i].uid = p
        BY <3>3 DEF Coming
      <4>2. i # 1
        BY <4>1, <2>4, <1>4
      <4>3. k \in Nat
        BY <1>1, Shifted DEF Shape
      <4>4. i \in 2 .. (k - 1)
        BY <4>1, <4>2, <4>3
      <4> QED  BY <4>1, <4>4
    <3> QED  BY <3>1, <3>2, <3>3
  <2> QED  BY <2>2, <2>3, <2>4
<1>9. (Api /\ Timely /\ Relist)'
  BY <1>1, <1>6, <1>7, <1>8, ConsumedKeeps DEF IInv, Shape
<1>10. PICK ops : ops = applied(ev)
  OBVIOUS
<1>11. Safe(ops) /\ (Past(ev.uid) \/ Carries(ops, ev.uid))
  BY <1>1, <1>4, <1>5, <1>10, AppliedIsSafe
<1>12. \A p \in Pods : api[p].state = "pending" /\ mirror'[p] # None
                         => mirror[p] # None \/ Carries(ops, p)
  BY <1>7, <1>11 DEF Past
<1> QED  BY <1>1, <1>3, <1>6, <1>9, <1>10, <1>11, <1>12, HandlerKeeps

LEMMA HandleDeleteKeeps ==
    ASSUME IInv, HandleDelete
    PROVE  IInv'
<1>1. /\ Shape /\ pod_stream # << >> /\ pod_stream' = Tail(pod_stream)
      /\ UNCHANGED <<api, api_nodes, node_stream, relisting, queueVars, cacheVars>>
  BY DEF HandleDelete, IInv
<1>2. PICK ev : ev = Head(pod_stream)
  OBVIOUS
<1>3. /\ ev.type = "Delete"
      /\ mirror' = [mirror EXCEPT ![ev.uid] = None]
      /\ seen' = seen \ {ev.uid}
      /\ Begin("watch", remove_deleted(ev.uid, ev.node))
  BY <1>2 DEF HandleDelete
<1>4. ev \in News /\ 1 \in DOMAIN pod_stream /\ pod_stream[1] = ev
  BY <1>1, <1>2, <1>3, Shifted DEF Shape, PodEvents
<1>5. ev.uid \in Pods /\ Past(ev.uid)
  BY <1>3, <1>4 DEF IInv, Timely, News
<1>6. Watching'
  BY <1>1, <1>3, <1>5 DEF Shape, Watching
<1>7. /\ \A p \in Pods : mirror'[p] # None => mirror[p] # None
      /\ \A p \in Pods : mirror'[p] # None => api[p].state # "none"
      /\ \A p \in Pods : api[p].state = "pending" => p # ev.uid
  BY <1>1, <1>3, <1>5 DEF IInv, Shape, Watching, Timely, Past
<1>8. ASSUME NEW k \in DOMAIN pod_stream, k # 1, IsAt(k, "InitDone")
      PROVE  /\ relisting'
             /\ \A p \in Pods : api[p].state = "pending" /\ mirror'[p] # None =>
                  \/ \E i \in 2 .. (k - 1) : IsAt(i, "Apply") /\ pod_stream[i].uid = p
                  \/ p \in seen'
  <2>1. ~IsAt(1, "Init")
    BY <1>3, <1>4 DEF IsAt
  <2>2. relisting'
    BY <2>1, <1>1, <1>8 DEF IInv, Relist
  <2>3. ASSUME NEW p \in Pods, api[p].state = "pending", mirror'[p] # None
        PROVE  \/ \E i \in 2 .. (k - 1) : IsAt(i, "Apply") /\ pod_stream[i].uid = p
               \/ p \in seen'
    <3>1. (Coming(p, k) \/ p \in seen) /\ p # ev.uid
      BY <2>3, <1>7, <1>8 DEF IInv, Relist
    <3>2. CASE p \in seen
      BY <3>1, <3>2, <1>3
    <3>3. CASE Coming(p, k)
      <4>1. PICK i \in 1 .. (k - 1) : IsAt(i, "Apply") /\ pod_stream[i].uid = p
        BY <3>3 DEF Coming
      <4>2. i # 1
        BY <4>1, <1>3, <1>4 DEF IsAt
      <4>3. k \in Nat
        BY <1>1, Shifted DEF Shape
      <4>4. i \in 2 .. (k - 1)
        BY <4>1, <4>2, <4>3
      <4> QED  BY <4>1, <4>4
    <3> QED  BY <3>1, <3>2, <3>3
  <2> QED  BY <2>2, <2>3
<1>9. (Api /\ Timely /\ Relist)'
  BY <1>1, <1>6, <1>7, <1>8, ConsumedKeeps DEF IInv, Shape
<1>10. PICK ops : ops = remove_deleted(ev.uid, ev.node)
  OBVIOUS
<1>11. Safe(ops)
  BY <1>5, <1>10, Removing
<1> QED  BY <1>1, <1>3, <1>6, <1>7, <1>9, <1>10, <1>11, HandlerKeeps

LEMMA HandleInitKeeps ==
    ASSUME IInv, HandleInit
    PROVE  IInv'
<1>1. /\ Shape /\ pod_stream # << >> /\ pod_stream' = Tail(pod_stream)
      /\ Head(pod_stream).type = "Init" /\ todo["watch"] = << >>
      /\ relisting' = TRUE /\ seen' = {}
      /\ UNCHANGED <<api, api_nodes, node_stream, mirror, queueVars, cacheVars, todo>>
  BY DEF HandleInit, IInv
<1>2. IsAt(1, "Init") /\ pod_stream[1].type = "Init"
  BY <1>1, Shifted DEF IsAt, Shape
<1>3. Watching' /\ \A p \in Pods : mirror'[p] # None => api[p].state # "none"
  BY <1>1 DEF IInv, Shape, Watching, Timely
<1>4. ASSUME NEW k \in DOMAIN pod_stream, k # 1, IsAt(k, "InitDone")
      PROVE  /\ relisting'
             /\ \A p \in Pods : api[p].state = "pending" /\ mirror'[p] # None =>
                  \/ \E i \in 2 .. (k - 1) : IsAt(i, "Apply") /\ pod_stream[i].uid = p
                  \/ p \in seen'
  <2>1. ASSUME NEW p \in Pods, api[p].state = "pending", mirror'[p] # None
        PROVE  \E i \in 2 .. (k - 1) : IsAt(i, "Apply") /\ pod_stream[i].uid = p
    <3>1. Coming(p, k)
      BY <2>1, <1>1, <1>2, <1>4 DEF IInv, Relist
    <3>2. PICK i \in 1 .. (k - 1) : IsAt(i, "Apply") /\ pod_stream[i].uid = p
      BY <3>1 DEF Coming
    <3>3. i # 1
      BY <3>2, <1>2 DEF IsAt
    <3>4. k \in Nat
      BY <1>1, Shifted DEF Shape
    <3>5. i \in 2 .. (k - 1)
      BY <3>2, <3>3, <3>4
    <3> QED  BY <3>2, <3>5
  <2> QED  BY <2>1, <1>1
<1>5. (Api /\ Timely /\ Relist)'
  BY <1>1, <1>3, <1>4, ConsumedKeeps DEF IInv, Shape
<1>6. Begin("watch", << >>)
  BY <1>1 DEF Begin, Shape, Tasked
<1> QED  BY <1>1, <1>3, <1>5, <1>6, SafeEmpty, HandlerKeeps

\* The list is over: what it did not have was not pending.
LEMMA HandleInitDoneKeeps ==
    ASSUME IInv, HandleInitDone
    PROVE  IInv'
<1>1. /\ Shape /\ pod_stream # << >> /\ pod_stream' = Tail(pod_stream)
      /\ Head(pod_stream).type = "InitDone"
      /\ relisting' = FALSE /\ seen' = {}
      /\ UNCHANGED <<api, api_nodes, node_stream, queueVars, cacheVars>>
  BY DEF HandleInitDone, IInv
<1>2. PICK gone : gone = {p \in Pods : mirror[p] # None} \ seen
  OBVIOUS
<1>3. PICK ops : ops = InTurn(gone, LAMBDA p : remove_deleted(p, mirror[p].node))
  OBVIOUS
<1>4. /\ mirror' = [p \in Pods |-> IF p \in gone THEN None ELSE mirror[p]]
      /\ Begin("watch", ops)
  BY <1>2, <1>3 DEF HandleInitDone
<1>5. /\ 1 \in DOMAIN pod_stream /\ IsAt(1, "InitDone")
      /\ \A k \in DOMAIN pod_stream : k # 1 => ~IsAt(k, "InitDone")
  <2>1. 1 \in DOMAIN pod_stream /\ IsAt(1, "InitDone")
    BY <1>1, Shifted DEF IsAt, Shape
  <2> QED  BY <2>1 DEF IInv, Relist
<1>6. /\ Watching'
      /\ \A p \in Pods : mirror'[p] # None => mirror[p] # None /\ api[p].state # "none"
  BY <1>1, <1>4 DEF IInv, Shape, Watching, Timely
<1>7. (Api /\ Timely /\ Relist)'
  BY <1>1, <1>5, <1>6, ConsumedKeeps DEF IInv, Shape
<1>8. \A p \in gone : p \in Pods /\ Past(p)
  <2> SUFFICES ASSUME NEW p \in gone PROVE p \in Pods /\ Past(p)
    OBVIOUS
  <2>1. p \in Pods /\ mirror[p] # None /\ p \notin seen
    BY <1>2
  <2>2. ~Coming(p, 1)
    BY DEF Coming
  <2>3. api[p].state # "pending"
    BY <2>1, <2>2, <1>5 DEF IInv, Relist
  <2>4. api[p].state # "none" /\ api[p] \in Pod
    BY <2>1 DEF IInv, Timely, Shape, Api
  <2> QED  BY <2>1, <2>3, <2>4 DEF Past, Pod, States
<1>9. Safe(ops)
  <2> DEFINE n == Cardinality(gone)
             s == SetToSeq(gone)
  <2>1. gone \in SUBSET Pods
    BY <1>2
  <2>2. n \in Nat /\ s \in [1 .. n -> gone]
    BY <2>1, FiniteAssumption, FS_Subset, SetToSeqLists
  <2>3. ops = [i \in 1 .. n |-> Head(remove_deleted(s[i], mirror[s[i]].node))]
    BY <1>3 DEF InTurn
  <2>4. ASSUME NEW i \in 1 .. n
        PROVE  ops[i] \in Regions /\ (Removal(ops[i]) => Past(ops[i].uid))
    <3>1. PICK p \in gone : s[i] = p
      BY <2>2
    <3>2. PICK node : node = mirror[p].node
      OBVIOUS
    <3>3. PICK region : remove_deleted(p, node) = << region >>
      BY DEF remove_deleted, dequeue
    <3>4. ops[i] = region
      <4>1. ops[i] = Head(remove_deleted(p, node))
        BY <2>3, <3>1, <3>2
      <4>2. Head(<< region >>) = region
        OBVIOUS
      <4> QED  BY <3>3, <4>1, <4>2
    <3>5. Safe(<< region >>)
      BY <3>3, <1>8, Removing
    <3>6. DOMAIN << region >> = {1} /\ << region >>[1] = region
      OBVIOUS
    <3>7. region \in Regions
      BY <3>5, <3>6 DEF Safe
    <3> QED  BY <3>4, <3>5, <3>6, <3>7 DEF Safe
  <2>5. ops \in [1 .. n -> Regions] /\ DOMAIN ops = 1 .. n
    BY <2>3, <2>4
  <2>6. ops \in Seq(Regions)
    BY <2>2, <2>5
  <2> QED  BY <2>4, <2>5, <2>6 DEF Safe
<1> QED  BY <1>1, <1>4, <1>6, <1>7, <1>9, HandlerKeeps

LEMMA HandleNodeKeeps ==
    ASSUME IInv, HandleNode
    PROVE  IInv'
<1>1. /\ Shape /\ node_stream # << >> /\ node_stream' = Tail(node_stream)
      /\ UNCHANGED <<api, api_nodes, pod_stream, watchVars, queueVars, cacheVars>>
  BY DEF HandleNode, IInv
<1>2. PICK ev : ev = Head(node_stream)
  OBVIOUS
<1>3. ev \in NodeEvents /\ node_stream' \in Seq(NodeEvents)
  BY <1>1, <1>2 DEF Shape, Api
<1>4. (Api /\ Watching /\ Timely /\ Relist)'
  BY <1>1, <1>3 DEF IInv, Shape, Api, Watching, Timely, Relist, watchVars, Past, IsAt,
                    Coming
<1>5. PICK kind \in {"upsert_node", "remove_node"}, news \in Seq(Endings) :
        Begin("watch", << [op |-> kind, node |-> ev.node] >> \o news)
  <2>1. move_all("NodeAdded") \in Seq(Endings) /\ << >> \in Seq(Endings)
    BY OtherHandlers DEF Signals
  <2>2. CASE ev.type = "Apply"
    BY <2>1, <2>2, <1>2 DEF HandleNode
  <2>3. CASE ev.type # "Apply"
    BY <2>1, <2>3, <1>2 DEF HandleNode
  <2> QED  BY <2>2, <2>3
<1> DEFINE first == << [op |-> kind, node |-> ev.node] >>
<1>6. Safe(first)
  <2>1. [op |-> kind, node |-> ev.node] \in Regions
    BY <1>3 DEF Regions, NodeEvents
  <2> QED  BY <2>1, SafeOne DEF Removal
<1> HIDE DEF first
<1>7. Safe(first \o news)
  BY <1>6, EndingsAreSafe, SafeConcat
<1>8. Begin("watch", first \o news)
  BY <1>5 DEF first
<1>9. \A p \in Pods : mirror'[p] # None => mirror[p] # None
  BY <1>1 DEF watchVars
<1> QED  BY <1>1, <1>4, <1>7, <1>8, <1>9, HandlerKeeps

LEMMA HandleVolumeKeeps ==
    ASSUME IInv, HandleVolume
    PROVE  IInv'
<1>1. PICK ops : ops = move_all("VolumeChanged")
  OBVIOUS
<1>2. Safe(ops)
  BY <1>1, OtherHandlers, EndingsAreSafe DEF Signals
<1>3. /\ Begin("watch", ops)
      /\ UNCHANGED <<apiVars, watchVars, queueVars, cacheVars>>
  BY <1>1 DEF HandleVolume
<1>4. \A p \in Pods : ~InFront("watch", p)
  BY <1>3 DEF Begin, InFront
<1>5. Runs("watch", ops) /\ "watch" \in Tasks
  BY <1>3 DEF Runs, Tasks
<1> QED  BY <1>2, <1>3, <1>4, <1>5, HandOver

-----------------------------------------------------------------------------
(* The nodes and the lists of the API server *)

LEMMA NodesKeep ==
    ASSUME IInv, NEW n \in Nodes, NodeLeaves(n) \/ NodeJoins(n)
    PROVE  IInv'
<1>1. UNCHANGED <<api, pod_stream, watchVars, queueVars, cacheVars, todo>>
  BY DEF NodeLeaves, NodeJoins
<1>2. api_nodes' \subseteq Nodes /\ node_stream' \in Seq(NodeEvents)
  <2>1. \A kind \in {"Apply", "Delete"} : NodeEvent(kind, n) \in NodeEvents
    BY DEF NodeEvent, NodeEvents
  <2> QED  BY SMTT(30), <2>1 DEF NodeLeaves, NodeJoins, IInv, Shape, Api
<1>3. (Api /\ Timely /\ Relist)'
  BY <1>1, <1>2 DEF IInv, Shape, Api, Timely, Relist, watchVars, Past, IsAt, Coming
<1> QED  BY <1>1, <1>3, OutsideKeeps

\* A list: its start, the news of each pod in it, its end.
LEMMA ListIs ==
    ASSUME api \in [Pods -> Pod]
    PROVE  /\ Cardinality(Live) \in Nat
           /\ Listed(Live) \in Seq(PodEvents)
           /\ DOMAIN Listed(Live) = 1 .. Cardinality(Live) + 2
           /\ Listed(Live)[1] = [type |-> "Init"]
           /\ Listed(Live)[Cardinality(Live) + 2] = [type |-> "InitDone"]
           /\ \A k \in 2 .. Cardinality(Live) + 1 :
                \E p \in Live : Listed(Live)[k] = Told("Apply", p, api[p])
           /\ \A p \in Live : \E k \in 2 .. Cardinality(Live) + 1 :
                Listed(Live)[k] = Told("Apply", p, api[p])
           /\ \A k, l \in 2 .. Cardinality(Live) + 1 :
                Listed(Live)[k].uid = Listed(Live)[l].uid => k = l
<1> DEFINE n   == Cardinality(Live)
           s   == SetToSeq(Live)
           mid == [i \in 1 .. n |-> Told("Apply", s[i], api[s[i]])]
           all == << [type |-> "Init"] >> \o mid \o << [type |-> "InitDone"] >>
<1>1. /\ n \in Nat /\ s \in [1 .. n -> Live]
      /\ \A x \in Live : \E i \in 1 .. n : s[i] = x
      /\ \A i, j \in 1 .. n : s[i] = s[j] => i = j
  <2>1. Live \in SUBSET Pods
    BY DEF Live
  <2>2. IsFiniteSet(Live)
    BY <2>1, FiniteAssumption, FS_Subset
  <2> QED  BY <2>2, FS_CardinalityType, SetToSeqLists, ListedOnce
<1>2. Listed(Live) = all
  <2>1. \A p : Head(<< Told("Apply", p, api[p]) >>) = Told("Apply", p, api[p])
    OBVIOUS
  <2>2. mid = InTurn(Live, LAMBDA p :
                << [type |-> "Apply", uid |-> p, gated |-> api[p].gated,
                    node |-> api[p].node, state |-> api[p].state] >>)
    BY <2>1 DEF InTurn, Told
  <2> HIDE DEF mid
  <2> QED  BY <2>2 DEF Listed
<1> HIDE DEF n, s
<1>3. \A p \in Live : Told("Apply", p, api[p]) \in News
  BY DEF Live, Told, News, Pod
<1>4. mid \in [1 .. n -> News]
  BY <1>1, <1>3
<1>5. mid \in Seq(PodEvents) /\ Len(mid) = n /\ \A i \in 1 .. n : mid[i] = Told("Apply", s[i], api[s[i]])
  BY <1>1, <1>4 DEF PodEvents
<1> HIDE DEF mid
<1>6. /\ all \in Seq(PodEvents) /\ DOMAIN all = 1 .. n + 2
      /\ all[1] = [type |-> "Init"] /\ all[n + 2] = [type |-> "InitDone"]
      /\ \A i \in 1 .. n : all[i + 1] = mid[i]
  <2>1. << [type |-> "Init"] >> \in Seq(PodEvents) /\ << [type |-> "InitDone"] >> \in Seq(PodEvents)
    BY DEF PodEvents
  <2> QED  BY <2>1, <1>1, <1>5
<1> HIDE DEF all
<1>7. \A k \in 2 .. n + 1 : \E p \in Live : all[k] = Told("Apply", p, api[p])
  <2> TAKE k \in 2 .. n + 1
  <2>1. k - 1 \in 1 .. n /\ (k - 1) + 1 = k
    BY <1>1
  <2>2. all[k] = Told("Apply", s[k - 1], api[s[k - 1]]) /\ s[k - 1] \in Live
    <3>1. all[(k - 1) + 1] = mid[k - 1]
      BY <2>1, <1>6
    <3> QED  BY <2>1, <3>1, <1>1, <1>5
  <2> QED  BY <2>2
<1>8. \A p \in Live : \E k \in 2 .. n + 1 : all[k] = Told("Apply", p, api[p])
  <2> TAKE p \in Live
  <2>1. PICK i \in 1 .. n : s[i] = p
    BY <1>1
  <2>2. i + 1 \in 2 .. n + 1
    BY <1>1
  <2> QED  BY <2>1, <2>2, <1>5, <1>6
<1>9. ASSUME NEW k \in 2 .. n + 1, NEW l \in 2 .. n + 1, all[k].uid = all[l].uid
      PROVE  k = l
  <2>1. ASSUME NEW m \in 2 .. n + 1 PROVE m - 1 \in 1 .. n /\ all[m].uid = s[m - 1]
    <3>1. m - 1 \in 1 .. n /\ (m - 1) + 1 = m
      BY <1>1
    <3>2. all[m] = Told("Apply", s[m - 1], api[s[m - 1]])
      <4>1. all[(m - 1) + 1] = mid[m - 1]
        BY <3>1, <1>6
      <4> QED  BY <3>1, <4>1, <1>5
    <3> QED  BY <3>1, <3>2 DEF Told
  <2>2. k - 1 = l - 1
    BY <2>1, <1>1, <1>9
  <2> QED  BY <2>2, <1>1
<1> QED  BY <1>1, <1>2, <1>6, <1>7, <1>8, <1>9 DEF n

Known == /\ api \in [Pods -> Pod]
         /\ \A p \in Pods : api[p].node # None => Past(p)
         /\ \A p \in Pods : mirror[p] # None => api[p].state # "none"

\* What a list says is timely, and it has every pending pod.
LEMMA ListKeeps ==
    Known /\ pod_stream = Listed(Live)
      => pod_stream \in Seq(PodEvents) /\ Timely /\ Relist
<1> SUFFICES ASSUME Known, pod_stream = Listed(Live)
             PROVE  pod_stream \in Seq(PodEvents) /\ Timely /\ Relist
  OBVIOUS
<1> DEFINE n == Cardinality(Live)
<1>1. /\ n \in Nat
      /\ pod_stream \in Seq(PodEvents)
      /\ DOMAIN pod_stream = 1 .. n + 2
      /\ pod_stream[1] = [type |-> "Init"]
      /\ pod_stream[n + 2] = [type |-> "InitDone"]
      /\ \A k \in 2 .. n + 1 : \E p \in Live : pod_stream[k] = Told("Apply", p, api[p])
      /\ \A p \in Live : \E k \in 2 .. n + 1 : pod_stream[k] = Told("Apply", p, api[p])
  BY ListIs DEF Known
<1> HIDE DEF n
<1>2. \A k \in 1 .. n + 2 : k = 1 \/ k = n + 2 \/ k \in 2 .. n + 1
  BY <1>1
<1>3. \A p \in Live : LET ev == Told("Apply", p, api[p]) IN
        /\ ev.type = "Apply" /\ ev.uid = p
        /\ ev.node = api[p].node /\ ev.state = api[p].state
  BY DEF Told
<1>4. /\ \A k \in DOMAIN pod_stream : IsAt(k, "Init") => k = 1
      /\ \A k \in DOMAIN pod_stream : IsAt(k, "InitDone") => k = n + 2
      /\ IsAt(1, "Init")
  BY <1>1, <1>2, <1>3 DEF IsAt
<1>5. Timely
  <2>1. ASSUME NEW k \in DOMAIN pod_stream, NEW ev, ev = pod_stream[k]
        PROVE  /\ ev.type \in {"Apply", "Delete"} => api[ev.uid].state # "none"
               /\ ev.type = "Delete" => Past(ev.uid)
               /\ ev.type = "Apply" /\ (ev.node # None \/ ev.state = "terminating")
                    => Past(ev.uid)
    <3>1. CASE k = 1 \/ k = n + 2
      BY <3>1, <2>1, <1>1
    <3>2. CASE k \in 2 .. n + 1
      <4>1. PICK p \in Live : ev = Told("Apply", p, api[p])
        BY <3>2, <2>1, <1>1
      <4>2. p \in Pods /\ api[p].state # "none"
        BY DEF Live, Living
      <4>3. ev.type = "Apply" /\ ev.uid = p /\ ev.node = api[p].node /\ ev.state = api[p].state
        BY <4>1, <1>3
      <4> QED  BY <4>2, <4>3 DEF Past, Known
    <3> QED  BY <3>1, <3>2, <1>1, <1>2
  <2> QED  BY <2>1 DEF Timely, Known
<1>6. ASSUME NEW p \in Pods, api[p].state = "pending" PROVE Coming(p, n + 2)
  <2>1. PICK k \in 2 .. n + 1 : pod_stream[k] = Told("Apply", p, api[p])
    BY <1>1, <1>6 DEF Live, Living
  <2>2. k \in DOMAIN pod_stream /\ k \in 1 .. (n + 2) - 1
    BY <1>1
  <2>3. pod_stream[k].type = "Apply" /\ pod_stream[k].uid = p
    BY <2>1, <1>3, <1>6 DEF Live, Living
  <2> QED  BY <2>2, <2>3 DEF Coming, IsAt
<1>7. Relist
  BY <1>4, <1>6 DEF Relist
<1> QED  BY <1>1, <1>5, <1>7

LEMMA DisconnectKeeps ==
    ASSUME IInv, Disconnect
    PROVE  IInv'
<1>1. /\ UNCHANGED <<api, api_nodes, node_stream, watchVars, queueVars, cacheVars, todo>>
      /\ UNCHANGED <<mirror, Live>>
  BY DEF Disconnect, watchVars, Live
<1>2. pod_stream' = Listed(Live)'
  BY <1>1 DEF Disconnect, Listed, InTurn
<1>3. Known'
  BY <1>1 DEF IInv, Shape, Api, Timely, Past, Known
<1>4. (Known /\ pod_stream = Listed(Live)
         => pod_stream \in Seq(PodEvents) /\ Timely /\ Relist)'
  BY ListKeeps, PTL
<1>5. (pod_stream \in Seq(PodEvents) /\ Timely /\ Relist)'
  BY <1>2, <1>3, <1>4
<1>6. Api'
  BY <1>1, <1>5 DEF IInv, Shape, Api, Past
<1> QED  BY <1>1, <1>5, <1>6, OutsideKeeps

-----------------------------------------------------------------------------
(* The theorems *)

LEMMA InitEstablishes == Init => IInv
<1> SUFFICES ASSUME Init PROVE IInv
  OBVIOUS
<1>1. /\ api \in [Pods -> Pod]
      /\ \A p \in Pods : (api[p].state = "bound") <=> (api[p].node # None)
  BY StartsAssumption DEF Init
<1>2. Watching /\ Queues /\ Cached /\ Tasked
  <2>1. Watching
    BY DEF Init, Watching
  <2>2. Cached
    BY DEF Init, Cached
  <2>3. Tasked
    <3>1. << >> \in Seq(Regions)
      OBVIOUS
    <3>2. todo = [t \in Tasks |-> << >>]
      BY DEF Init
    <3> QED  BY <3>1, <3>2 DEF Tasked
  <2>4. Queues
    BY DEF Init, Queues
  <2> QED  BY <2>1, <2>2, <2>3, <2>4
<1>3. \A p \in Pods : mirror[p] = None
  BY DEF Init
<1>4. Known
  BY <1>1, <1>3 DEF Known, Past
<1>5. pod_stream \in Seq(PodEvents) /\ Timely /\ Relist
  BY <1>4, ListKeeps DEF Init
<1>6. node_stream \in Seq(NodeEvents)
  <2> DEFINE n == Cardinality(Nodes)
             s == SetToSeq(Nodes)
  <2>1. n \in Nat /\ s \in [1 .. n -> Nodes]
    BY FiniteAssumption, SetToSeqLists
  <2>2. node_stream = [i \in 1 .. n |-> Head(<< NodeEvent("Apply", s[i]) >>)]
    BY DEF Init, InTurn
  <2> HIDE DEF n, s
  <2>3. \A m \in Nodes : Head(<< NodeEvent("Apply", m) >>) \in NodeEvents
    BY DEF NodeEvent, NodeEvents
  <2>4. node_stream \in [1 .. n -> NodeEvents]
    BY <2>1, <2>2, <2>3
  <2> QED  BY <2>1, <2>4
<1>7. Api
  BY <1>1, <1>5, <1>6 DEF Api, Past, Init
<1>8. Removals
  <2>1. \A t \in Tasks : todo[t] = << >>
    <3>1. todo = [t \in Tasks |-> << >>]
      BY DEF Init
    <3> QED  BY <3>1
  <2>2. \A i \in DOMAIN << >> : FALSE
    OBVIOUS
  <2> QED  BY <2>1, <2>2 DEF Removals
<1>9. NobodyLost
  BY <1>3 DEF NobodyLost
<1> QED  BY <1>2, <1>5, <1>7, <1>8, <1>9 DEF IInv, Shape

LEMMA NextKeeps == IInv /\ [Next]_vars => IInv'
<1> SUFFICES ASSUME IInv, [Next]_vars PROVE IInv'
  OBVIOUS
<1>1. ASSUME NEW t \in Tasks, Step(t) PROVE IInv'
  <2>1. CASE Add(t) \/ Push(t) \/ Update(t) \/ UpdateBackoff(t) \/ PushBackoff(t)
    BY <2>1, AddKeeps, PushKeeps, UpdateKeeps, UpdateBackoffKeeps, PushBackoffKeeps
  <2>2. CASE Replay(t) \/ ParkRejected(t) \/ Record(t) \/ Sweep(t)
    BY <2>2, ReplayKeeps, ParkRejectedKeeps, RecordKeeps, SweepKeeps
  <2>3. CASE Dequeue(t) \/ DequeueBackoff(t)
    BY <2>3, DequeueKeeps, DequeueBackoffKeeps
  <2>4. CASE Forget(t) \/ AddPod(t) \/ RemovePod(t)
    BY <2>4, ForgetKeeps, AddPodKeeps, RemovePodKeeps
  <2> QED  BY <1>1, <2>1, <2>2, <2>3, <2>4 DEF Step
<1>2. ASSUME Watch PROVE IInv'
  BY <1>2, HandleApplyKeeps, HandleDeleteKeeps, HandleInitKeeps, HandleInitDoneKeeps,
     HandleNodeKeeps, UpsertNodeKeeps, RemoveNodeKeeps DEF Watch
<1>3. ASSUME Loop PROVE IInv'
  BY <1>3, DoneKeeps, ScheduleKeeps, RejectKeeps, SpawnKeeps DEF Loop
<1>4. ASSUME NEW b \in Binders, Answer(b) PROVE IInv'
  BY <1>4, BindKeeps, UnboundKeeps DEF Answer
<1>5. ASSUME DrainExpiredBackoff \/ FlushTimedOut \/ \E p \in Pods : Pop(p)
      PROVE  IInv'
  BY <1>5, DrainExpiredBackoffKeeps, FlushTimedOutKeeps, PopKeeps
<1>6. ASSUME Environment PROVE IInv'
  <2>1. CASE \E p \in Pods : \/ CreatePod(p) \/ RemoveGate(p) \/ EditPod(p)
                             \/ Report(p) \/ TerminatePod(p) \/ DeletePod(p)
    BY <2>1, WritersKeep
  <2>2. CASE \E n \in Nodes : NodeLeaves(n) \/ NodeJoins(n)
    BY <2>2, NodesKeep
  <2>3. CASE Disconnect \/ HandleVolume \/ FailCycle \/ ReserveRejects
    BY <2>3, DisconnectKeeps, HandleVolumeKeeps, FailCycleKeeps, RejectKeeps
  <2>4. CASE \E b \in Binders : BindUnanswered(b) \/ BindFails(b) \/ PreBindRejects(b)
    BY <2>4, BindKeeps, UnboundKeeps
  <2> QED  BY <1>6, <2>1, <2>2, <2>3, <2>4 DEF Environment
<1>7. CASE UNCHANGED vars
  <2>1. UNCHANGED <<apiVars, watchVars, queueVars, cacheVars, todo>>
    BY <1>7 DEF vars
  <2>2. (Api /\ Timely /\ Relist)'
    BY <2>1, ClusterKeeps DEF IInv, Shape
  <2>3. UNCHANGED api
    BY <2>1 DEF apiVars
  <2> QED  BY <2>1, <2>2, <2>3, OutsideKeeps
<1> QED  BY <1>1, <1>2, <1>3, <1>4, <1>5, <1>6, <1>7 DEF Next

\* The scheduler never loses its shape, nor a pod, whatever order its tasks,
\* the watches and the rest of the cluster take (queue/mod.rs, watch.rs, binder.rs).
THEOREM SchedulerInvariant == Spec => []IInv
  BY InitEstablishes, NextKeeps, PTL DEF Spec

Reporting == reports \in [Pods -> Nat] /\ patches \in Nat

LEMMA ReportingKeeps == Reporting /\ [Next]_vars => Reporting'
<1> SUFFICES ASSUME Reporting, [Next]_vars PROVE Reporting'
  OBVIOUS
<1>1. ASSUME NEW p, reported(p) PROVE Reporting'
  BY <1>1 DEF reported, Reporting, reportVars
<1>2. ASSUME NEW p \in Pods, Report(p) PROVE Reporting'
  BY <1>2 DEF Report, Reporting
<1>3. CASE UNCHANGED reportVars
  BY <1>3 DEF reportVars, Reporting
<1>4. ASSUME NEW t \in Tasks, Step(t) PROVE Reporting'
  <2>1. UNCHANGED faultVars \/ UNCHANGED reportVars
    BY <1>4 DEF Step, Add, Push, Update, UpdateBackoff, PushBackoff, Replay,
       ParkRejected, Record, Sweep, Dequeue, DequeueBackoff, Forget, AddPod,
       RemovePod
  <2> QED  BY <2>1, <1>3 DEF faultVars
<1>5. CASE Watch
  <2>1. UNCHANGED faultVars \/ UNCHANGED reportVars
    BY <1>5 DEF Watch, HandleApply, HandleDelete, HandleInit, HandleInitDone,
       HandleNode, UpsertNode, RemoveNode
  <2> QED  BY <2>1, <1>3 DEF faultVars
<1>6. CASE Loop
  BY <1>6, <1>1, <1>3 DEF Loop, Done, Schedule, Reject, Spawn, faultVars
<1>7. ASSUME NEW b \in Binders, Answer(b) PROVE Reporting'
  BY <1>7, <1>3 DEF Answer, Bind, BindRefused, faultVars
<1>8. CASE DrainExpiredBackoff \/ FlushTimedOut \/ \E p \in Pods : Pop(p)
  BY <1>8, <1>3 DEF DrainExpiredBackoff, FlushTimedOut, Pop, faultVars
<1>9. CASE Environment
  <2>1. ASSUME NEW p \in Pods, \/ CreatePod(p) \/ RemoveGate(p) \/ EditPod(p)
                               \/ TerminatePod(p) \/ DeletePod(p)
        PROVE  Reporting'
    BY <2>1, <1>3 DEF CreatePod, RemoveGate, EditPod, TerminatePod, DeletePod, faultVars
  <2>2. ASSUME NEW n \in Nodes, NodeLeaves(n) \/ NodeJoins(n) PROVE Reporting'
    BY <2>2, <1>3 DEF NodeLeaves, NodeJoins, faultVars
  <2>3. CASE Disconnect \/ HandleVolume \/ FailCycle \/ ReserveRejects
    BY <2>3, <1>1, <1>3 DEF Disconnect, HandleVolume, FailCycle, ReserveRejects, faultVars
  <2>4. ASSUME NEW b \in Binders, BindUnanswered(b) \/ BindFails(b) \/ PreBindRejects(b)
        PROVE  Reporting'
    BY <2>4, <1>3 DEF BindUnanswered, BindFails, PreBindRejects
  <2> QED  BY <1>9, <1>2, <2>1, <2>2, <2>3, <2>4 DEF Environment
<1>10. CASE UNCHANGED vars
  BY <1>10, <1>3 DEF vars, faultVars
<1> QED  BY <1>4, <1>5, <1>6, <1>7, <1>8, <1>9, <1>10 DEF Next

\* Every variable keeps its shape: a pod is in the active queue once at most
\* (push_active looks for it), and is counted on a node only while the cache has
\* that node (Cache::remove_node takes its pods with it).
THEOREM TypeCorrect == Spec => []TypeOK
<1>1. IInv /\ Reporting => TypeOK
  <2> SUFFICES ASSUME IInv, Reporting PROVE TypeOK
    OBVIOUS
  <2>1. in_flight = None \/ in_flight.uid \in Pods
    BY DEF IInv, Shape, Queues
  <2> QED  BY <2>1 DEF IInv, Shape, Api, Watching, Queues, Cached, TypeOK, Version, Pod,
                       Reporting
<1>2. Init => Reporting
  <2> SUFFICES ASSUME Init PROVE Reporting
    OBVIOUS
  <2>1. \E s \in Starts : patches = s.patches
    BY DEF Init
  <2>2. reports = [p \in Pods |-> 0]
    BY DEF Init
  <2> QED  BY <2>1, <2>2, StartsAssumption DEF Reporting
<1> QED  BY <1>1, <1>2, ReportingKeeps, SchedulerInvariant, PTL DEF Spec

\* A pod the scheduler knows of and the cluster still waits for is in a queue or
\* in the hands of a task, through every update, drain, sweep, failed bind,
\* relist and cycle that breaks (queue/mod.rs 188, 283, 429, 519).
THEOREM NobodyIsLost == Spec => []NobodyLost
<1>1. IInv => NobodyLost
  BY DEF IInv
<1> QED  BY <1>1, SchedulerInvariant, PTL

-----------------------------------------------------------------------------
(* What the cache counts                                                     *)

\* nothing has parted the cache from the cluster
Clean == mishaps \cap Parted = {}

\* regions that hold a pod for the queue; an update only looks for it there
Bearing == {"add", "push_active", "push_backoff", "cycle", "replay", "park",
            "spawn", "bind"}
Owns(r, p)    == r.op \in Bearing /\ r.pod.uid = p
Bears(ops, p) == \E i \in DOMAIN ops : Owns(ops[i], p)
AtHand(t, p)  == todo[t] # << >> /\ Owns(Arg(t), p)

\* where a pod may be: announced by the first news of it, queued, or in the hands
\* of one task
NewPod(ev, p) == /\ ev.type = "Apply" /\ ev.uid = p
                 /\ ev.node = None /\ ev.state # "terminating"
Confirms(ev, p) == ev.type = "Apply" /\ ev.uid = p /\ ev.node # None
NewsOf(ev, p) == ev.type \in {"Apply", "Delete"} /\ ev.uid = p
FirstNews(k, p) == /\ NewPod(pod_stream[k], p)
                   /\ \A j \in 1 .. (k - 1) : ~NewsOf(pod_stream[j], p)
Announced(p)  == mirror[p] = None /\ \E k \in DOMAIN pod_stream : FirstNews(k, p)
Shelved(p)    == Announced(p) \/ Queued(p)
Sits(t, r)    == \E i \in DOMAIN todo[t] : todo[t][i] = r
Has(t, p)     == Bears(todo[t], p)
Somewhere(p)      == Shelved(p) \/ \E t \in Tasks : Has(t, p)
Once(ops, p)  == \A i, j \in DOMAIN ops : Owns(ops[i], p) /\ Owns(ops[j], p) => i = j

OneShelf(p) ==
    /\ Announced(p) => ~Queued(p)
    /\ p \in Uids(active) => p \notin Waiting /\ unschedulable[p] = None
    /\ p \in Waiting => unschedulable[p] = None
    /\ \A e, f \in Entries : e[1].uid = p /\ f[1].uid = p => e = f

Alone(p) ==
    /\ OneShelf(p)
    /\ \A t \in Tasks : Once(todo[t], p) /\ (Has(t, p) => ~Shelved(p))
    /\ \A t, u \in Tasks : Has(t, p) /\ Has(u, p) => t = u

Plain == {"add", "update", "update_backoff", "push_active", "push_backoff", "replay", "park", "done",
          "record", "sweep", "forget", "remove_backoff", "upsert_node"}
Tame(r)       == r.op \in Plain \/ (r.op = "remove" /\ r.then = << >>)
AllTame(ops)  == \A i \in DOMAIN ops : Tame(ops[i])
Returned(p)   == [op |-> "remove_pod", uid |-> p]
Reserve(p, n) == [op |-> "add_pod", uid |-> p, node |-> n, assumed |-> n]
Spawned(pod, n) == [op |-> "spawn", pod |-> pod, node |-> n]
Asked(pod, n) == [op |-> "bind", pod |-> pod, node |-> n]
Finished      == [op |-> "done"]

Informed(p)     == \E k \in DOMAIN pod_stream : Confirms(pod_stream[k], p)
ToldGone(p) == \E k \in DOMAIN pod_stream :
                  pod_stream[k].type = "Delete" /\ pod_stream[k].uid = p

Confirming(p) ==
    \/ Informed(p)
    \/ \E i \in DOMAIN todo["watch"] :
          todo["watch"][i].op = "add_pod" /\ todo["watch"][i].uid = p
Leaving(p) ==
    \/ ToldGone(p)
    \/ \E i \in DOMAIN todo["watch"] :
          LET r == todo["watch"][i] IN
          \/ r = Returned(p)
          \/ r.op = "remove" /\ \E j \in DOMAIN r.then : r.then[j] = Returned(p)
Off(p) == api[p].state = "gone" /\ api[p].node # None /\ ~Confirming(p)

LoopForm ==
    \/ AllTame(todo["loop"])
    \/ \E pod \in PodInfo : todo["loop"] = << [op |-> "cycle", pod |-> pod] >>
    \/ \E pod \in PodInfo, n \in Nodes :
         \/ todo["loop"] = << Reserve(pod.uid, n), Finished, Spawned(pod, n) >>
         \/ /\ \/ todo["loop"] = << Finished, Spawned(pod, n) >>
               \/ todo["loop"] = << Spawned(pod, n) >>
            /\ pod_locations[pod.uid] = n

BinderForm(b) ==
    \/ AllTame(todo[b])
    \/ \E pod \in PodInfo, n \in Nodes :
         todo[b] = << Asked(pod, n) >> /\ pod_locations[pod.uid] = n
    \/ \E p \in Pods :
         /\ todo[b] # << >> /\ Head(todo[b]) = Returned(p) /\ AllTame(Tail(todo[b]))
         /\ api[p].node = None /\ api[p].state # "none" /\ (Somewhere(p) => Has(b, p))

Allowed(r) ==
    \/ Tame(r)
    \/ r.op = "remove" /\ \A k \in DOMAIN r.then :
          r.then[k].op = "remove_pod" => Off(r.then[k].uid)
    \/ r.op = "remove_pod" /\ Off(r.uid)
    \/ r.op = "add_pod" /\ r.assumed = None /\ r.node = api[r.uid].node

WatchForm == \A i \in DOMAIN todo["watch"] : Allowed(todo["watch"][i])

Ordered ==
    /\ \A k \in DOMAIN pod_stream : LET ev == pod_stream[k] IN
         /\ ev.type = "Apply" /\ ev.node # None => ev.node = api[ev.uid].node
         /\ ev.type = "Apply" /\ ev.state = "terminating"
               => api[ev.uid].state \in {"terminating", "gone"}
         /\ ev.type = "Delete" =>
               /\ api[ev.uid].state = "gone" /\ ev.node = api[ev.uid].node
               /\ \A j \in DOMAIN pod_stream : j > k => ~NewsOf(pod_stream[j], ev.uid)
    /\ IsAt(1, "Init") => \A p \in Pods : mirror[p] = None
    /\ relisting => \A p \in Pods : mirror[p] # None => p \in seen
    /\ \A k \in DOMAIN node_stream : node_stream[k].type = "Apply"
    /\ \A p \in Pods : api[p].state = "pending" /\ mirror[p] = None
         => \E k \in DOMAIN pod_stream : NewsOf(pod_stream[k], p)

Reserved(p) ==
    \/ \E i \in DOMAIN todo["loop"] :
          todo["loop"][i].op = "spawn" /\ todo["loop"][i].pod.uid = p
    \/ \E b \in Binders : \E i \in DOMAIN todo[b] :
          \/ todo[b][i].op = "bind" /\ todo[b][i].pod.uid = p
          \/ todo[b][i] = Returned(p)

Account(p) ==
    /\ api[p].node # None => api[p].state \in {"bound", "gone"}
    /\ assumed[p] # None => pod_locations[p] # None
    /\ api[p].node # None \/ api[p].state = "none" => ~Somewhere(p)
    /\ api[p].node # None /\ pod_locations[p] # None => pod_locations[p] = api[p].node
    /\ api[p].state = "bound" => \/ Confirming(p)
                                 \/ pod_locations[p] = api[p].node /\ assumed[p] = None
    /\ api[p].state = "gone" /\ api[p].node # None =>
          Leaving(p) \/ (pod_locations[p] = None /\ ~Confirming(p))
    /\ api[p].node = None /\ pod_locations[p] # None => Reserved(p)

Settled ==
    /\ Ordered /\ LoopForm /\ WatchForm /\ AllTame(todo["net"])
    /\ \A b \in Binders : BinderForm(b)
    /\ \A p \in Pods : Alone(p) /\ Account(p)

Unseen(p) == api[p].node # None /\ pod_locations[p] = None /\ Confirming(p)
Claims(p, n) ==
    \/ pod_locations[p] = n
    \/ Sits("loop", Reserve(p, n))
    \/ Unseen(p) /\ api[p].node = n

\* what a step does to the pods: it keeps the cache in step, makes no pod turn
\* up in the scheduler unannounced, and none one that the cache has still to see;
\* and, unless it is the loop's choice of a node, it claims no place
Follows ==
    /\ Settled'
    /\ \A p \in Pods : Somewhere(p)' => Somewhere(p) \/ Announced(p)'
    /\ \A p \in Pods : Unseen(p)' => Unseen(p) /\ api'[p].node = api[p].node
Settles == Follows /\ \A p \in Pods, n \in Nodes : Claims(p, n)' => Claims(p, n)

-----------------------------------------------------------------------------
(* Sequences of regions *)

Rest(t) == IF todo[t] # << >> THEN Tail(todo[t]) ELSE << >>

\* What a task has to run after it took up ops: ops, and then the rest.
LEMMA RunsIs ==
    ASSUME Tasked, NEW t \in Tasks, NEW ops \in Seq(Regions), Runs(t, ops)
    PROVE  /\ todo' \in [Tasks -> Seq(Regions)]
           /\ todo'[t] = ops \o Rest(t) /\ Rest(t) \in Seq(Regions)
           /\ \A u \in Tasks : u # t => todo'[u] = todo[u]
<1>1. /\ todo[t] \in Seq(Regions) /\ Rest(t) \in Seq(Regions)
      /\ todo' = [todo EXCEPT ![t] = ops \o Rest(t)]
  BY DEF Tasked, Runs, Goto, Begin, Rest
<1>2. ops \o Rest(t) \in Seq(Regions)
  BY <1>1
<1> QED  BY <1>1, <1>2 DEF Tasked

\* Where the regions of a concatenation are.
LEMMA PartsOf ==
    ASSUME NEW a \in Seq(Regions), NEW b \in Seq(Regions)
    PROVE  /\ \A i \in DOMAIN a : i \in DOMAIN (a \o b) /\ (a \o b)[i] = a[i]
           /\ \A i \in DOMAIN b : /\ Len(a) + i \in DOMAIN (a \o b)
                                  /\ (a \o b)[Len(a) + i] = b[i]
           /\ \A i \in DOMAIN (a \o b) :
                 \/ i \in DOMAIN a /\ (a \o b)[i] = a[i]
                 \/ /\ i - Len(a) \in DOMAIN b /\ (a \o b)[i] = b[i - Len(a)]
                    /\ i \notin DOMAIN a
           /\ Len(a) \in Nat /\ DOMAIN a = 1 .. Len(a) /\ DOMAIN b \subseteq Nat
           /\ a \o b \in Seq(Regions)
<1>1. /\ a \o b \in Seq(Regions) /\ Len(a \o b) = Len(a) + Len(b)
      /\ Len(a) \in Nat /\ Len(b) \in Nat
      /\ DOMAIN a = 1 .. Len(a) /\ DOMAIN b = 1 .. Len(b)
      /\ DOMAIN (a \o b) = 1 .. Len(a) + Len(b)
  OBVIOUS
<1>2. \A i \in DOMAIN a : i \in DOMAIN (a \o b) /\ (a \o b)[i] = a[i]
  BY <1>1
<1>3. \A i \in DOMAIN b : Len(a) + i \in DOMAIN (a \o b) /\ (a \o b)[Len(a) + i] = b[i]
  BY <1>1
<1>4. ASSUME NEW i \in DOMAIN (a \o b), i \notin DOMAIN a
      PROVE  i - Len(a) \in DOMAIN b /\ (a \o b)[i] = b[i - Len(a)]
  <2>1. i - Len(a) \in DOMAIN b /\ i = Len(a) + (i - Len(a))
    BY <1>1, <1>4
  <2> QED  BY <2>1, <1>3
<1> QED  BY <1>1, <1>2, <1>3, <1>4

\* A task's first region: whether it holds a pod.
LEMMA FrontIs ==
    ASSUME Tasked, NEW t \in Tasks, NEW op, At(t, op)
    PROVE  /\ todo[t] # << >> /\ Arg(t) \in Regions /\ Arg(t).op = op
           /\ op \in Bearing => /\ Arg(t).pod \in PodInfo /\ Arg(t).pod.uid \in Pods
                                /\ \A p : AtHand(t, p) <=> p = Arg(t).pod.uid
           /\ op \notin Bearing => \A p : ~AtHand(t, p)
<1>1. op \in Bearing => op \in Carrying
  BY DEF Bearing, Carrying, PodOps
<1> QED  BY <1>1, ArgIs DEF AtHand, Owns

In(x, ops) == \E i \in DOMAIN ops : ops[i] = x

LEMMA Halves ==
    ASSUME NEW a \in Seq(Regions), NEW b \in Seq(Regions)
    PROVE  \A x : In(x, a \o b) <=> In(x, a) \/ In(x, b)
<1> DEFINE c == a \o b
<1>1. /\ \A i \in DOMAIN a : i \in DOMAIN c /\ c[i] = a[i]
      /\ \A i \in DOMAIN b : Len(a) + i \in DOMAIN c /\ c[Len(a) + i] = b[i]
      /\ \A i \in DOMAIN c : \/ i \in DOMAIN a /\ c[i] = a[i]
                             \/ i - Len(a) \in DOMAIN b /\ c[i] = b[i - Len(a)]
  BY PartsOf
<1> HIDE DEF c
<1> SUFFICES ASSUME NEW x PROVE In(x, c) <=> In(x, a) \/ In(x, b)
  BY DEF c
<1> QED  BY <1>1 DEF In

LEMMA JoinedRegions ==
    ASSUME NEW a \in Seq(Regions), NEW b \in Seq(Regions)
    PROVE  /\ \A p : Bears(a \o b, p) <=> Bears(a, p) \/ Bears(b, p)
           /\ \A p : Once(a, p) /\ Once(b, p) /\ ~(Bears(a, p) /\ Bears(b, p))
                      => Once(a \o b, p)
           /\ AllTame(a) /\ AllTame(b) => AllTame(a \o b)
<1> DEFINE c == a \o b
<1>1. /\ \A i \in DOMAIN a : i \in DOMAIN c /\ c[i] = a[i]
      /\ \A i \in DOMAIN b : Len(a) + i \in DOMAIN c /\ c[Len(a) + i] = b[i]
      /\ \A i \in DOMAIN c :
            \/ i \in DOMAIN a /\ c[i] = a[i]
            \/ i - Len(a) \in DOMAIN b /\ c[i] = b[i - Len(a)] /\ i \notin DOMAIN a
      /\ c \in Seq(Regions) /\ Len(a) \in Nat /\ DOMAIN c \subseteq Nat
  BY PartsOf
<1> HIDE DEF c
<1>2. \A p : Bears(c, p) <=> Bears(a, p) \/ Bears(b, p)
  BY <1>1 DEF Bears
<1>3. ASSUME NEW p, Once(a, p), Once(b, p), ~(Bears(a, p) /\ Bears(b, p))
      PROVE  Once(c, p)
  <2> SUFFICES ASSUME NEW i \in DOMAIN c, NEW j \in DOMAIN c,
                      Owns(c[i], p), Owns(c[j], p)
               PROVE  i = j
    BY DEF Once
  <2>1. CASE i \in DOMAIN a /\ j \in DOMAIN a
    BY <2>1, <1>1, <1>3 DEF Once
  <2>2. CASE i \notin DOMAIN a /\ j \notin DOMAIN a
    <3>1. i - Len(a) = j - Len(a)
      BY <2>2, <1>1, <1>3 DEF Once
    <3> QED  BY <3>1, <1>1
  <2>3. CASE i \in DOMAIN a /\ j \notin DOMAIN a
    BY <2>3, <1>1, <1>3 DEF Bears
  <2>4. CASE i \notin DOMAIN a /\ j \in DOMAIN a
    BY <2>4, <1>1, <1>3 DEF Bears
  <2> QED  BY <2>1, <2>2, <2>3, <2>4
<1>4. AllTame(a) /\ AllTame(b) => AllTame(c)
  BY <1>1 DEF AllTame
<1> QED  BY <1>2, <1>3, <1>4 DEF c

\* A task's regions: the one it is at, and the rest.
LEMMA FrontAndRest ==
    ASSUME Tasked, NEW t \in Tasks
    PROVE  /\ \A p : Has(t, p) <=> AtHand(t, p) \/ Bears(Rest(t), p)
           /\ \A p : Once(todo[t], p)
                => Once(Rest(t), p) /\ ~(AtHand(t, p) /\ Bears(Rest(t), p))
           /\ AllTame(todo[t])
                => AllTame(Rest(t)) /\ (todo[t] # << >> => Tame(Arg(t)))
           /\ \A i \in DOMAIN todo[t] :
                 \/ todo[t] # << >> /\ i = 1 /\ todo[t][i] = Arg(t)
                 \/ i - 1 \in DOMAIN Rest(t) /\ Rest(t)[i - 1] = todo[t][i]
           /\ \A i \in DOMAIN Rest(t) : i + 1 \in DOMAIN todo[t] /\ Rest(t)[i] = todo[t][i + 1]
           /\ todo[t] # << >> => 1 \in DOMAIN todo[t] /\ todo[t][1] = Arg(t)
           /\ Rest(t) \in Seq(Regions)
<1> DEFINE q == todo[t]
           r == Rest(t)
<1>1. q \in Seq(Regions) /\ r \in Seq(Regions)
  BY DEF Tasked, Rest
<1>2. /\ \A i \in DOMAIN r : i + 1 \in DOMAIN q /\ r[i] = q[i + 1] /\ i \in Nat /\ i >= 1
      /\ \A i \in DOMAIN q : i = 1 \/ (i - 1 \in DOMAIN r /\ r[i - 1] = q[i])
      /\ q # << >> => 1 \in DOMAIN q /\ q[1] = Arg(t)
      /\ DOMAIN q \subseteq Nat
      /\ q = << >> => DOMAIN q = {} /\ DOMAIN r = {}
  <2>1. CASE q = << >>
    BY <2>1 DEF Rest
  <2>2. CASE q # << >>
    <3>1. /\ Len(q) \in Nat /\ DOMAIN q = 1 .. Len(q) /\ Len(q) >= 1
          /\ Len(r) = Len(q) - 1 /\ DOMAIN r = 1 .. Len(r)
          /\ \A i \in 1 .. Len(r) : r[i] = q[i + 1]
      BY <2>2, <1>1 DEF Rest
    <3> QED  BY <3>1, <2>2 DEF Arg
  <2> QED  BY <2>1, <2>2
<1> HIDE DEF r
<1>3. \A p : Has(t, p) <=> AtHand(t, p) \/ Bears(r, p)
  BY <1>2 DEF Has, AtHand, Bears
<1>4. ASSUME NEW p, Once(q, p) PROVE Once(r, p) /\ ~(AtHand(t, p) /\ Bears(r, p))
  <2>1. Once(r, p)
    <3> SUFFICES ASSUME NEW i \in DOMAIN r, NEW j \in DOMAIN r, Owns(r[i], p), Owns(r[j], p)
                 PROVE  i = j
      BY DEF Once
    <3>1. i + 1 = j + 1
      BY <1>2, <1>4 DEF Once
    <3> QED  BY <3>1, <1>2
  <2>2. ASSUME AtHand(t, p), NEW i \in DOMAIN r, Owns(r[i], p) PROVE FALSE
    <3>1. 1 = i + 1
      BY <2>2, <1>2, <1>4 DEF Once, AtHand
    <3> QED  BY <3>1, <1>2
  <2> QED  BY <2>1, <2>2 DEF Bears
<1>5. AllTame(q) => AllTame(r) /\ (q # << >> => Tame(Arg(t)))
  BY <1>2 DEF AllTame
<1> QED  BY <1>1, <1>2, <1>3, <1>4, <1>5 DEF r

-----------------------------------------------------------------------------
(* A pod goes from hand to hand *)

\* p is on a shelf, or in the regions ops, only if it was on a shelf or in front
\* of the task that takes them up
Passes(t, ops, p) ==
    /\ Once(ops, p)
    /\ Bears(ops, p) => ~Shelved(p)'
    /\ OneShelf(p)'
    /\ Shelved(p)' \/ Bears(ops, p) => Shelved(p) \/ AtHand(t, p)

LEMMA Passed ==
    ASSUME Tasked, NEW t \in Tasks, NEW ops \in Seq(Regions), Runs(t, ops),
           NEW p, Alone(p), Passes(t, ops, p)
    PROVE  /\ Alone(p)'
           /\ Somewhere(p)' => Somewhere(p)
           /\ \A u \in Tasks : u # t => (Has(u, p)' <=> Has(u, p))
           /\ Has(t, p)' <=> Bears(ops, p) \/ Bears(Rest(t), p)
           /\ Shelved(p)' \/ Has(t, p)' => Shelved(p) \/ Has(t, p)
<1>1. /\ todo'[t] = ops \o Rest(t) /\ Rest(t) \in Seq(Regions)
      /\ \A u \in Tasks : u # t => todo'[u] = todo[u]
  BY RunsIs
<1>2. /\ Has(t, p) <=> AtHand(t, p) \/ Bears(Rest(t), p)
      /\ Once(Rest(t), p) /\ ~(AtHand(t, p) /\ Bears(Rest(t), p))
  BY FrontAndRest DEF Alone
<1>3. Has(t, p)' <=> Bears(ops, p) \/ Bears(Rest(t), p)
  BY <1>1, JoinedRegions DEF Has
<1>4. \A u \in Tasks : u # t => (Has(u, p)' <=> Has(u, p))
  BY <1>1 DEF Has
<1>5. Shelved(p) \/ AtHand(t, p) => ~Bears(Rest(t), p) /\ \A u \in Tasks : u # t => ~Has(u, p)
  BY <1>2 DEF Alone
<1>6. Bears(ops, p) => ~Bears(Rest(t), p)
  BY <1>5 DEF Passes
<1>7. Once(todo'[t], p)
  <2>1. Once(ops, p)
    BY DEF Passes
  <2> QED  BY <2>1, <1>1, <1>2, <1>6, JoinedRegions
<1>8. \A u \in Tasks : Once(todo'[u], p)
  BY <1>1, <1>7 DEF Alone
<1>9. \A u \in Tasks : Has(u, p)' => ~Shelved(p)'
  BY <1>3, <1>4, <1>5 DEF Passes, Alone
<1>10. \A u, v \in Tasks : Has(u, p)' /\ Has(v, p)' => u = v
  BY <1>2, <1>3, <1>4, <1>5 DEF Passes, Alone
<1>11. OneShelf(p)'
  BY DEF Passes
<1>12. Alone(p)'
  <2>1. \A u \in Tasks : Once(todo[u], p)' /\ (Has(u, p)' => ~Shelved(p)')
    BY <1>8, <1>9
  <2> QED  BY <2>1, <1>10, <1>11 DEF Alone
<1>13. Somewhere(p)' => Somewhere(p)
  BY <1>2, <1>3, <1>4 DEF Passes, Somewhere
<1>14. Shelved(p)' \/ Has(t, p)' => Shelved(p) \/ Has(t, p)
  BY <1>2, <1>3 DEF Passes
<1> QED  BY <1>3, <1>4, <1>12, <1>13, <1>14

\* While the shelves stand, a task may go on with the pod it is at, or drop it.
LEMMA ShelvesStay ==
    ASSUME UNCHANGED <<pod_stream, mirror, active, unschedulable, backoff>>, NEW p
    PROVE  /\ Shelved(p)' <=> Shelved(p)
           /\ OneShelf(p) => OneShelf(p)'
  BY DEF Shelved, OneShelf, Announced, FirstNews, Queued, Waiting, Entries

LEMMA PassesOn ==
    ASSUME Tasked, UNCHANGED <<pod_stream, mirror, active, unschedulable, backoff>>,
           NEW t \in Tasks, NEW ops, NEW p, Alone(p), Once(ops, p),
           Bears(ops, p) => AtHand(t, p)
    PROVE  Passes(t, ops, p)
<1>1. (Shelved(p)' <=> Shelved(p)) /\ OneShelf(p)'
  BY ShelvesStay DEF Alone
<1>2. AtHand(t, p) => ~Shelved(p)
  BY FrontAndRest DEF Alone
<1> QED  BY <1>1, <1>2 DEF Passes

-----------------------------------------------------------------------------
(* The shelves *)

\* Nothing new on p's shelves.
LEMMA ShelvesShrink ==
    ASSUME NEW p, OneShelf(p), Announced(p)' => Announced(p),
           p \in Uids(active)' => p \in Uids(active),
           unschedulable'[p] # None => unschedulable[p] # None,
           p \in Waiting' => p \in Waiting,
           \A e \in Entries' : e[1].uid = p => e \in Entries
    PROVE  OneShelf(p)' /\ (Shelved(p)' => Shelved(p))
  BY DEF OneShelf, Shelved, Queued

LEMMA EntriesAre ==
    Queues => \A x \in Entries : /\ x[1] \in PodInfo /\ x[2] \in 1 .. backoff[x[1]]
                                 /\ x = <<x[1], x[2]>>
  BY EntriesFinite DEF Queues

LEMMA WaitingIs ==
    Queues => \A q : q \in Waiting <=> \E e \in Entries : e[1].uid = q
<1> SUFFICES ASSUME Queues, NEW p
             PROVE  p \in Waiting <=> \E e \in Entries : e[1].uid = p
  OBVIOUS
<1>0. backoff \in [PodInfo -> Nat]
  BY DEF Queues
<1>1. ASSUME p \in Waiting PROVE \E e \in Entries : e[1].uid = p
  <2>1. PICK pod \in PodInfo : backoff[pod] > 0 /\ pod.uid = p
    BY <1>1 DEF Waiting, Uids
  <2>2. <<pod, 1>> \in Entries
    BY <1>0, <2>1, EntriesFinite
  <2> QED  BY <2>1, <2>2
<1>2. ASSUME NEW e \in Entries, e[1].uid = p PROVE p \in Waiting
  <2>1. e[1] \in PodInfo /\ e[2] \in 1 .. backoff[e[1]]
    BY <1>0, EntriesFinite
  <2>2. backoff[e[1]] > 0
    BY <1>0, <2>1
  <2> QED  BY <2>1, <2>2, <1>2 DEF Waiting, Uids
<1> QED  BY <1>1, <1>2

\* A pod that is on no shelf is put on one.
Unless(pod) == ~Shelved(pod.uid) /\ UNCHANGED <<pod_stream, mirror>>

LEMMA PushedOnShelf ==
    ASSUME NEW pod \in PodInfo, Unless(pod), PushActive(pod), NEW p, OneShelf(p)
    PROVE  OneShelf(p)' /\ (Shelved(p)' => Shelved(p) \/ p = pod.uid)
<1>1. pod.uid \notin Uids(active) /\ active' = active \cup {pod}
  BY DEF Unless, Shelved, Queued, PushActive
<1>2. UNCHANGED <<pod_stream, mirror, unschedulable, backoff>>
  BY DEF Unless, PushActive
<1>3. \A q : q \in Uids(active)' <=> q \in Uids(active) \/ q = pod.uid
  BY <1>1 DEF Uids
<1>4. Waiting' = Waiting /\ Entries' = Entries /\ (Announced(p)' <=> Announced(p))
  BY <1>2 DEF Waiting, Entries, Announced, FirstNews
<1>5. CASE p # pod.uid
  BY <1>2, <1>3, <1>4, <1>5 DEF OneShelf, Shelved, Queued
<1>6. CASE p = pod.uid
  BY <1>2, <1>3, <1>4, <1>6 DEF OneShelf, Shelved, Queued, Unless
<1> QED  BY <1>5, <1>6

LEMMA ParkedOnShelf ==
    ASSUME Queues, NEW pod \in PodInfo, NEW plugins, Unless(pod), Park(pod, plugins),
           NEW p \in Pods, OneShelf(p)
    PROVE  OneShelf(p)' /\ (Shelved(p)' => Shelved(p) \/ p = pod.uid)
<1>1. \A q \in Pods : q # pod.uid => unschedulable'[q] = unschedulable[q]
  BY DEF Park, Queues
<1>2. UNCHANGED <<pod_stream, mirror, active, backoff>>
  BY DEF Unless, Park
<1>4. /\ Waiting' = Waiting /\ Entries' = Entries /\ (Announced(p)' <=> Announced(p))
      /\ Uids(active)' = Uids(active)
  BY <1>2 DEF Waiting, Entries, Announced, FirstNews
<1>5. CASE p # pod.uid
  BY <1>1, <1>2, <1>4, <1>5 DEF OneShelf, Shelved, Queued
<1>6. CASE p = pod.uid
  BY <1>2, <1>4, <1>6 DEF OneShelf, Shelved, Queued, Unless
<1> QED  BY <1>5, <1>6

LEMMA PutBackOnShelf ==
    ASSUME Queues, NEW pod \in PodInfo, Unless(pod),
           backoff' = [backoff EXCEPT ![pod] = @ + 1],
           UNCHANGED <<active, unschedulable, in_flight>>,
           NEW p \in Pods, OneShelf(p)
    PROVE  OneShelf(p)' /\ (Shelved(p)' => Shelved(p) \/ p = pod.uid)
<1>0. Queues'
  BY DEF Queues
<1>1. /\ backoff \in [PodInfo -> Nat] /\ backoff' \in [PodInfo -> Nat]
      /\ \A q \in PodInfo : q # pod => backoff'[q] = backoff[q]
      /\ backoff'[pod] = backoff[pod] + 1
  BY DEF Queues
<1>2. \A e \in Entries : e[1].uid # pod.uid
  <2>1. pod.uid \notin Waiting
    BY DEF Unless, Shelved, Queued
  <2> QED  BY <2>1, <1>1, WaitingIs
<1>3. backoff[pod] = 0
  <2>1. backoff[pod] \in Nat
    BY <1>1
  <2>2. CASE backoff[pod] # 0
    <3>1. <<pod, 1>> \in Entries
      BY <2>1, <2>2, <1>1, EntriesFinite
    <3> QED  BY <3>1, <1>2
  <2> QED  BY <2>2
<1>4. \A e \in Entries' : e \in Entries \/ e = <<pod, 1>>
  <2> SUFFICES ASSUME NEW e \in Entries' PROVE e \in Entries \/ e = <<pod, 1>>
    OBVIOUS
  <2>1. (\A x \in Entries : /\ x[1] \in PodInfo /\ x[2] \in 1 .. backoff[x[1]]
                            /\ x = <<x[1], x[2]>>)'
    BY <1>0, EntriesAre, PTL
  <2>2. e[1] \in PodInfo /\ e[2] \in 1 .. backoff'[e[1]] /\ e = <<e[1], e[2]>>
    BY <2>1, <1>1
  <2>3. CASE e[1] = pod
    <3>1. e[2] = 1
      BY <2>2, <2>3, <1>1, <1>3
    <3> QED  BY <3>1, <2>2, <2>3
  <2>4. CASE e[1] # pod
    BY <2>2, <2>4, <1>1, EntriesFinite
  <2> QED  BY <2>3, <2>4
<1>5. (\A q : q \in Waiting <=> \E e \in Entries : e[1].uid = q)'
  BY <1>0, WaitingIs, PTL
<1>6. \A q : q \in Waiting' => q \in Waiting \/ q = pod.uid
  BY <1>1, <1>4, <1>5, WaitingIs
<1>7. UNCHANGED <<pod_stream, mirror, active, unschedulable>> /\ (Announced(p)' <=> Announced(p))
  BY DEF Unless, Announced, FirstNews
<1>8. CASE p # pod.uid
  <2>1. \A e \in Entries' : e[1].uid = p => e \in Entries
    BY <1>4, <1>8
  <2>2. OneShelf(p)' /\ (Shelved(p)' => Shelved(p))
    BY <2>1, <1>6, <1>7, <1>8, ShelvesShrink DEF OneShelf
  <2> QED  BY <2>2
<1>9. CASE p = pod.uid
  <2>1. ~Announced(p) /\ p \notin Uids(active) /\ unschedulable[p] = None
    BY <1>9 DEF Unless, Shelved, Queued
  <2>2. \A e, f \in Entries' : e[1].uid = p /\ f[1].uid = p => e = f
    BY <1>2, <1>4, <1>9
  <2> QED  BY <2>1, <2>2, <1>7, <1>9 DEF OneShelf, Shelved, Queued
<1> QED  BY <1>8, <1>9

-----------------------------------------------------------------------------
(* What a step leaves as it was *)

LEMMA StillThere ==
    ASSUME Tasked, NEW t \in Tasks, NEW ops \in Seq(Regions), Runs(t, ops)
    PROVE  /\ \A u \in Tasks : \A i \in DOMAIN todo[u] :
                 \/ u = t /\ todo[t] # << >> /\ i = 1 /\ todo[u][i] = Arg(t)
                 \/ \E j \in DOMAIN todo'[u] : todo'[u][j] = todo[u][i]
           /\ \A u \in Tasks : \A j \in DOMAIN todo'[u] :
                 \/ u = t /\ \E i \in DOMAIN ops : ops[i] = todo'[u][j]
                 \/ \E i \in DOMAIN todo[u] : todo[u][i] = todo'[u][j]
           /\ \A i \in DOMAIN ops : \E j \in DOMAIN todo'[t] : todo'[t][j] = ops[i]
<1>1. /\ todo'[t] = ops \o Rest(t) /\ Rest(t) \in Seq(Regions)
      /\ \A u \in Tasks : u # t => todo'[u] = todo[u]
  BY RunsIs
<1> DEFINE new == ops \o Rest(t)
<1>2. /\ \A i \in DOMAIN ops : i \in DOMAIN new /\ new[i] = ops[i]
      /\ \A i \in DOMAIN Rest(t) : Len(ops) + i \in DOMAIN new
                                    /\ new[Len(ops) + i] = Rest(t)[i]
      /\ \A i \in DOMAIN new :
            \/ i \in DOMAIN ops /\ new[i] = ops[i]
            \/ i - Len(ops) \in DOMAIN Rest(t) /\ new[i] = Rest(t)[i - Len(ops)]
  BY <1>1, PartsOf
<1>3. /\ \A i \in DOMAIN todo[t] :
            \/ todo[t] # << >> /\ i = 1 /\ todo[t][i] = Arg(t)
            \/ i - 1 \in DOMAIN Rest(t) /\ Rest(t)[i - 1] = todo[t][i]
      /\ \A i \in DOMAIN Rest(t) : i + 1 \in DOMAIN todo[t] /\ Rest(t)[i] = todo[t][i + 1]
  BY FrontAndRest
<1>4. todo'[t] = new
  BY <1>1
<1> HIDE DEF new
<1>5. \A i \in DOMAIN todo[t] :
         \/ todo[t] # << >> /\ i = 1 /\ todo[t][i] = Arg(t)
         \/ \E j \in DOMAIN new : new[j] = todo[t][i]
  <2> TAKE i \in DOMAIN todo[t]
  <2>1. CASE i - 1 \in DOMAIN Rest(t) /\ Rest(t)[i - 1] = todo[t][i]
    BY <2>1, <1>2
  <2> QED  BY <2>1, <1>3
<1>6. \A j \in DOMAIN new : \/ \E i \in DOMAIN ops : ops[i] = new[j]
                           \/ \E i \in DOMAIN todo[t] : todo[t][i] = new[j]
  <2> TAKE j \in DOMAIN new
  <2>1. CASE j - Len(ops) \in DOMAIN Rest(t) /\ new[j] = Rest(t)[j - Len(ops)]
    BY <2>1, <1>3
  <2>2. CASE j \in DOMAIN ops /\ new[j] = ops[j]
    BY <2>2
  <2> QED  BY <2>1, <2>2, <1>2
<1> QED  BY <1>1, <1>2, <1>4, <1>5, <1>6

\* A region of a task that says nothing about where a pod is counted.
Indifferent(r) == Tame(r) \/ r.op = "cycle"

LEMMA IndifferentIs ==
    ASSUME NEW r, Indifferent(r)
    PROVE  /\ r.op \notin {"add_pod", "spawn", "bind", "remove_pod"}
           /\ \A p : r # Returned(p)
           /\ r.op = "remove" => r.then = << >>
  BY DEF Indifferent, Tame, Plain, Returned

LEMMA WitnessesStay ==
    ASSUME Tasked, NEW t \in Tasks, NEW ops \in Seq(Regions), Runs(t, ops),
           t = "watch" => \A i \in DOMAIN ops : ops[i].op # "add_pod",
           todo[t] # << >> => Indifferent(Arg(t)),
           NEW p, Informed(p)' <=> Informed(p), ToldGone(p)' <=> ToldGone(p)
    PROVE  /\ Confirming(p)' <=> Confirming(p)
           /\ Leaving(p) => Leaving(p)'
           /\ Reserved(p) => Reserved(p)'
<1>1. /\ \A u \in Tasks : \A i \in DOMAIN todo[u] :
            \/ u = t /\ todo[t] # << >> /\ i = 1 /\ todo[u][i] = Arg(t)
            \/ \E j \in DOMAIN todo'[u] : todo'[u][j] = todo[u][i]
      /\ \A u \in Tasks : \A j \in DOMAIN todo'[u] :
            \/ u = t /\ \E i \in DOMAIN ops : ops[i] = todo'[u][j]
            \/ \E i \in DOMAIN todo[u] : todo[u][i] = todo'[u][j]
  BY StillThere
<1>2. todo[t] # << >> =>
            /\ Arg(t).op \notin {"add_pod", "spawn", "bind"}
            /\ Arg(t) # Returned(p)
            /\ Arg(t).op = "remove" => Arg(t).then = << >>
  BY IndifferentIs
<1>3. "watch" \in Tasks /\ "loop" \in Tasks /\ Binders \subseteq Tasks
  BY DEF Tasks
<1>4. Confirming(p)' <=> Confirming(p)
  BY <1>1, <1>2, <1>3 DEF Confirming
<1>5. Leaving(p) => Leaving(p)'
  BY <1>1, <1>2, <1>3 DEF Leaving
<1>6. Reserved(p) => Reserved(p)'
  <2>1. ASSUME NEW i \in DOMAIN todo["loop"], todo["loop"][i].op = "spawn",
               todo["loop"][i].pod.uid = p
        PROVE  Reserved(p)'
    <3>1. PICK j \in DOMAIN todo'["loop"] : todo'["loop"][j] = todo["loop"][i]
      BY <2>1, <1>1, <1>2, <1>3
    <3> QED  BY <3>1, <2>1 DEF Reserved
  <2>2. ASSUME NEW b \in Binders, NEW i \in DOMAIN todo[b],
               \/ todo[b][i].op = "bind" /\ todo[b][i].pod.uid = p
               \/ todo[b][i] = Returned(p)
        PROVE  Reserved(p)'
    <3>1. PICK j \in DOMAIN todo'[b] : todo'[b][j] = todo[b][i]
      BY <2>2, <1>1, <1>2, <1>3
    <3> QED  BY <3>1, <2>2 DEF Reserved, Returned
  <2> QED  BY <2>1, <2>2 DEF Reserved
<1> QED  BY <1>4, <1>5, <1>6

\* The account of a pod that nothing is done to.
LEMMA AccountStays ==
    ASSUME NEW p, Account(p), api'[p] = api[p], pod_locations'[p] = pod_locations[p],
           assumed'[p] \in {assumed[p], None},
           Somewhere(p)' => Somewhere(p),
           Confirming(p)' <=> Confirming(p),
           Leaving(p) => Leaving(p)', Reserved(p) => Reserved(p)'
    PROVE  Account(p)'
  BY DEF Account

-----------------------------------------------------------------------------
(* Steps that are no business of the cache *)

LEMMA AllTameEmpty == AllTame(<< >>)
  BY DEF AllTame

\* A binding cycle that takes no part in the step.
LEMMA BinderStays ==
    ASSUME Tasked, NEW b \in Binders, BinderForm(b), todo'[b] = todo[b],
           \A p \in Pods : Has(b, p) => pod_locations'[p] = pod_locations[p],
           \A p \in Pods : Sits(b, Returned(p)) =>
              /\ api'[p].node = api[p].node
              /\ api[p].state # "none" =>
                    api'[p].state # "none" /\ (Somewhere(p)' => Somewhere(p))
    PROVE  BinderForm(b)'
<1>1. CASE AllTame(todo[b])
  BY <1>1 DEF BinderForm
<1>2. CASE \E pod \in PodInfo, n \in Nodes :
             todo[b] = << Asked(pod, n) >> /\ pod_locations[pod.uid] = n
  <2>1. PICK pod \in PodInfo, n \in Nodes :
              todo[b] = << Asked(pod, n) >> /\ pod_locations[pod.uid] = n
    BY <1>2
  <2>2. Has(b, pod.uid) /\ pod.uid \in Pods
    <3>1. DOMAIN todo[b] = {1} /\ todo[b][1] = Asked(pod, n)
      BY <2>1
    <3>2. Owns(Asked(pod, n), pod.uid)
      BY DEF Owns, Asked, Bearing
    <3> QED  BY <3>1, <3>2 DEF Has, Bears, PodInfo
  <2> QED  BY <2>1, <2>2 DEF BinderForm
<1>3. CASE \E p \in Pods :
             /\ todo[b] # << >> /\ Head(todo[b]) = Returned(p) /\ AllTame(Tail(todo[b]))
             /\ api[p].node = None /\ api[p].state # "none" /\ (Somewhere(p) => Has(b, p))
  <2>1. PICK p \in Pods :
             /\ todo[b] # << >> /\ Head(todo[b]) = Returned(p) /\ AllTame(Tail(todo[b]))
             /\ api[p].node = None /\ api[p].state # "none" /\ (Somewhere(p) => Has(b, p))
    BY <1>3
  <2>2. Sits(b, Returned(p))
    <3>1. todo[b] \in Seq(Regions)
      BY DEF Tasked, Tasks
    <3>2. 1 \in DOMAIN todo[b] /\ todo[b][1] = Returned(p)
      BY <2>1, <3>1
    <3> QED  BY <3>2 DEF Sits
  <2>3. Has(b, p)' <=> Has(b, p)
    BY DEF Has
  <2> QED  BY <2>1, <2>2, <2>3 DEF BinderForm
<1> QED  BY <1>1, <1>2, <1>3 DEF BinderForm

\* What the watch has to run after a step.
LEMMA WatchStays ==
    ASSUME Tasked, NEW t \in Tasks, NEW ops \in Seq(Regions), Runs(t, ops),
           WatchForm, \A i \in DOMAIN ops : t = "watch" => Allowed(ops[i])',
           \A p \in Pods : Off(p) => Off(p)',
           \A i \in DOMAIN todo["watch"] : todo["watch"][i].op = "add_pod" =>
              api'[todo["watch"][i].uid].node = api[todo["watch"][i].uid].node
    PROVE  WatchForm'
<1> SUFFICES ASSUME NEW j \in DOMAIN todo'["watch"], NEW r, r = todo'["watch"][j]
             PROVE  \/ Tame(r)
                    \/ r.op = "remove" /\ \A k \in DOMAIN r.then :
                          r.then[k].op = "remove_pod" => Off(r.then[k].uid)'
                    \/ r.op = "remove_pod" /\ Off(r.uid)'
                    \/ /\ r.op = "add_pod" /\ r.assumed = None
                       /\ r.node = api'[r.uid].node
  BY DEF WatchForm, Allowed
<1>1. "watch" \in Tasks /\ todo["watch"] \in Seq(Regions)
  BY DEF Tasks, Tasked
<1>2. \/ t = "watch" /\ \E i \in DOMAIN ops : ops[i] = r
      \/ \E i \in DOMAIN todo["watch"] : todo["watch"][i] = r
  BY <1>1, StillThere
<1>3. CASE t = "watch" /\ \E i \in DOMAIN ops : ops[i] = r
  BY <1>3 DEF Allowed
<1>4. CASE \E i \in DOMAIN todo["watch"] : todo["watch"][i] = r
  <2>1. PICK i \in DOMAIN todo["watch"] : todo["watch"][i] = r
    BY <1>4
  <2>2. r \in Regions
    BY <1>1, <2>1
  <2>3. CASE Tame(r)
    BY <2>3
  <2>4. CASE r.op = "remove" /\ \A k \in DOMAIN r.then :
                r.then[k].op = "remove_pod" => Off(r.then[k].uid)
    <3>1. r.then \in Seq(Endings)
      BY <2>2, <2>4, RegionFields
    <3>2. \A k \in DOMAIN r.then : r.then[k].op = "remove_pod" => r.then[k].uid \in Pods
      BY <3>1 DEF Endings
    <3> QED  BY <2>4, <3>2
  <2>5. CASE r.op = "remove_pod" /\ Off(r.uid)
    <3>1. r.uid \in Pods
      BY <2>2, <2>5, RegionFields
    <3> QED  BY <2>5, <3>1
  <2>6. CASE r.op = "add_pod" /\ r.assumed = None /\ r.node = api[r.uid].node
    BY <2>1, <2>6
  <2> QED  BY <2>1, <2>3, <2>4, <2>5, <2>6 DEF WatchForm, Allowed
<1> QED  BY <1>2, <1>3, <1>4

LEMMA TameIsAllowed == ASSUME NEW r, Tame(r) PROVE Allowed(r)'
  BY DEF Allowed

\* What a task that takes no part in the step has to run.
LEMMA FormsStay ==
    ASSUME Tasked, Settled, NEW t \in Tasks, NEW ops \in Seq(Regions), Runs(t, ops),
           \A p \in Pods, u \in Tasks : u # t /\ Has(u, p)
              => pod_locations'[p] = pod_locations[p],
           \A p \in Pods, b \in Binders : b # t /\ Sits(b, Returned(p)) =>
              /\ api'[p].node = api[p].node
              /\ api[p].state # "none" =>
                    api'[p].state # "none" /\ (Somewhere(p)' => Somewhere(p))
    PROVE  /\ t # "net" => AllTame(todo["net"])'
           /\ t # "loop" => LoopForm'
           /\ \A b \in Binders : b # t => BinderForm(b)'
<1>1. \A u \in Tasks : u # t => todo'[u] = todo[u]
  BY RunsIs
<1>2. "net" \in Tasks /\ "loop" \in Tasks /\ Binders \subseteq Tasks
  BY DEF Tasks
<1>3. t # "net" => AllTame(todo["net"])'
  BY <1>1, <1>2 DEF Settled
<1>4. ASSUME NEW b \in Binders, b # t PROVE BinderForm(b)'
  <2>1. todo'[b] = todo[b] /\ b \in Tasks
    BY <1>1, <1>2, <1>4
  <2>2. BinderForm(b)
    BY DEF Settled
  <2> QED  BY <1>4, <2>1, <2>2, BinderStays
<1>5. ASSUME t # "loop" PROVE LoopForm'
  <2>1. todo'["loop"] = todo["loop"]
    BY <1>1, <1>2, <1>5
  <2>2. ASSUME NEW pod \in PodInfo, NEW n \in Nodes, pod_locations[pod.uid] = n,
               \/ todo["loop"] = << Finished, Spawned(pod, n) >>
               \/ todo["loop"] = << Spawned(pod, n) >>
        PROVE  LoopForm'
    <3>1. \E i \in DOMAIN todo["loop"] : todo["loop"][i] = Spawned(pod, n)
      <4>1. CASE todo["loop"] = << Finished, Spawned(pod, n) >>
        <5>1. 2 \in DOMAIN todo["loop"] /\ todo["loop"][2] = Spawned(pod, n)
          BY <4>1
        <5> QED  BY <5>1
      <4>2. CASE todo["loop"] = << Spawned(pod, n) >>
        <5>1. 1 \in DOMAIN todo["loop"] /\ todo["loop"][1] = Spawned(pod, n)
          BY <4>2
        <5> QED  BY <5>1
      <4> QED  BY <2>2, <4>1, <4>2
    <3>2. Owns(Spawned(pod, n), pod.uid) /\ pod.uid \in Pods
      BY DEF Owns, Spawned, Bearing, PodInfo
    <3>3. Has("loop", pod.uid)
      BY <3>1, <3>2 DEF Has, Bears
    <3>4. pod_locations'[pod.uid] = n
      BY <1>2, <1>5, <2>2, <3>2, <3>3
    <3> QED  BY <2>1, <2>2, <3>4 DEF LoopForm
  <2>3. LoopForm
    BY DEF Settled
  <2> QED  BY <2>1, <2>2, <2>3 DEF LoopForm
<1> QED  BY <1>3, <1>4, <1>5

\* The regions a binding cycle, the safety net, or the loop may be at.
LEMMA TameAtTheFront ==
    ASSUME Tasked, Settled, NEW t \in Tasks, t # "watch", t # "loop",
           todo[t] # << >>, Arg(t).op \notin {"bind", "remove_pod"}
    PROVE  AllTame(todo[t])
<1>1. todo[t] \in Seq(Regions)
  BY DEF Tasked
<1>2. CASE t = "net"
  BY <1>2 DEF Settled
<1>3. CASE t \in Binders
  <2>1. BinderForm(t)
    BY <1>3 DEF Settled
  <2>2. ASSUME NEW pod \in PodInfo, NEW n \in Nodes, todo[t] = << Asked(pod, n) >>
        PROVE  FALSE
    BY <2>2 DEF Asked, Arg
  <2>3. ASSUME NEW p, Head(todo[t]) = Returned(p)
        PROVE  FALSE
    BY <2>3 DEF Returned, Arg
  <2> QED  BY <2>1, <2>2, <2>3 DEF BinderForm
<1> QED  BY <1>2, <1>3 DEF Tasks

\* Nobody claims a place by a step that the loop takes no reservation up in.
LEMMA ClaimsStay ==
    ASSUME Tasked, NEW t \in Tasks, NEW ops \in Seq(Regions), Runs(t, ops),
           t = "loop" => AllTame(ops),
           \A p \in Pods : Unseen(p)' => Unseen(p) /\ api'[p].node = api[p].node,
           \A p \in Pods, n \in Nodes : pod_locations'[p] = n => Claims(p, n)
    PROVE  \A p \in Pods, n \in Nodes : Claims(p, n)' => Claims(p, n)
<1> SUFFICES ASSUME NEW p \in Pods, NEW n \in Nodes, Claims(p, n)' PROVE Claims(p, n)
  OBVIOUS
<1>1. CASE pod_locations'[p] = n
  BY <1>1
<1>2. CASE Unseen(p)' /\ api'[p].node = n
  BY <1>2 DEF Claims
<1>3. CASE Sits("loop", Reserve(p, n))'
  <2>1. PICK j \in DOMAIN todo'["loop"] : todo'["loop"][j] = Reserve(p, n)
    BY <1>3 DEF Sits, Reserve
  <2>2. "loop" \in Tasks
    BY DEF Tasks
  <2>3. \/ t = "loop" /\ \E i \in DOMAIN ops : ops[i] = Reserve(p, n)
        \/ \E i \in DOMAIN todo["loop"] : todo["loop"][i] = Reserve(p, n)
    BY <2>1, <2>2, StillThere
  <2>4. ~Tame(Reserve(p, n))
    BY DEF Reserve, Tame, Plain
  <2>5. Sits("loop", Reserve(p, n))
    BY <2>3, <2>4 DEF AllTame, Sits
  <2> QED  BY <2>5 DEF Claims
<1> QED  BY <1>1, <1>2, <1>3 DEF Claims

LEMMA LightKeeps ==
    ASSUME Tasked, Settled, NEW t \in Tasks, NEW ops \in Seq(Regions), Runs(t, ops),
           AllTame(ops),
           todo[t] # << >> => Indifferent(Arg(t)) /\ (Arg(t).op = "done" => ops = << >>),
           UNCHANGED <<api, pod_locations>>,
           \A p \in Pods : assumed'[p] \in {assumed[p], None},
           Ordered',
           \A p \in Pods : Passes(t, ops, p),
           \A p \in Pods : (Informed(p)' <=> Informed(p)) /\ (ToldGone(p)' <=> ToldGone(p))
    PROVE  Settles
<1>1. /\ todo'[t] = ops \o Rest(t) /\ Rest(t) \in Seq(Regions)
      /\ \A u \in Tasks : u # t => todo'[u] = todo[u]
  BY RunsIs
<1>2. \A p \in Pods : /\ Alone(p)'
                      /\ Somewhere(p)' => Somewhere(p)
                      /\ \A u \in Tasks : u # t => (Has(u, p)' <=> Has(u, p))
  BY Passed DEF Settled
<1>3. \A p \in Pods : /\ Confirming(p)' <=> Confirming(p)
                      /\ Leaving(p) => Leaving(p)'
                      /\ Reserved(p) => Reserved(p)'
  <2>1. \A i \in DOMAIN ops : ops[i].op # "add_pod"
    BY DEF AllTame, Tame, Plain
  <2> QED  BY <2>1, WitnessesStay
<1>4. \A p \in Pods : Account(p)'
  BY <1>2, <1>3, AccountStays DEF Settled
<1>5. AllTame(todo[t]) => AllTame(todo[t])'
  BY <1>1, FrontAndRest, JoinedRegions
<1>6. /\ t # "net" => AllTame(todo["net"])'
      /\ t # "loop" => LoopForm'
      /\ \A b \in Binders : b # t => BinderForm(b)'
  BY <1>2, FormsStay
<1>7. t # "loop" /\ t # "watch" => AllTame(todo[t])'
  <2>1. CASE todo[t] = << >>
    BY <2>1, <1>5, AllTameEmpty
  <2>2. ASSUME todo[t] # << >>, t # "watch", t # "loop" PROVE AllTame(todo[t])
    BY <2>2, IndifferentIs, TameAtTheFront
  <2> QED  BY <2>1, <2>2, <1>5
<1>8. WatchForm'
  <2>1. \A p \in Pods : Off(p) => Off(p)'
    BY <1>3 DEF Off
  <2>2. \A i \in DOMAIN ops : Allowed(ops[i])'
    BY TameIsAllowed DEF AllTame
  <2> QED  BY <2>1, <2>2, WatchStays DEF Settled
<1>9. AllTame(todo["net"])' /\ \A b \in Binders : BinderForm(b)'
  <2>1. \A b \in Binders : b # "watch" /\ b # "loop"
    BY NamesAssumption
  <2> QED  BY <2>1, <1>6, <1>7 DEF BinderForm
<1>10. LoopForm'
  <2>1. CASE t # "loop"
    BY <2>1, <1>6
  <2>2. CASE t = "loop"
    <3>1. CASE AllTame(todo[t])
      BY <3>1, <2>2, <1>5 DEF LoopForm
    <3>2. ASSUME NEW pod \in PodInfo, todo[t] = << [op |-> "cycle", pod |-> pod] >>
          PROVE  LoopForm'
      <4>1. Rest(t) = << >>
        BY <3>2 DEF Rest
      <4>2. AllTame(todo[t])'
        BY <4>1, <1>1, AllTameEmpty, JoinedRegions
      <4> QED  BY <4>2, <2>2 DEF LoopForm
    <3>3. ASSUME NEW pod \in PodInfo, NEW n \in Nodes,
                 todo[t] = << Reserve(pod.uid, n), Finished, Spawned(pod, n) >>
          PROVE  FALSE
      <4>1. Arg(t) = Reserve(pod.uid, n) /\ todo[t] # << >>
        BY <3>3 DEF Arg
      <4> QED  BY <4>1, IndifferentIs DEF Reserve
    <3>4. ASSUME NEW pod \in PodInfo, NEW n \in Nodes,
                 todo[t] = << Finished, Spawned(pod, n) >>, pod_locations[pod.uid] = n
          PROVE  LoopForm'
      <4>1. Arg(t) = Finished /\ todo[t] # << >> /\ Rest(t) = << Spawned(pod, n) >>
        BY <3>4 DEF Arg, Rest
      <4>2. ops = << >>
        BY <4>1 DEF Finished
      <4>3. todo'["loop"] = << Spawned(pod, n) >>
        BY <4>1, <4>2, <1>1, <2>2
      <4> QED  BY <4>3, <3>4 DEF LoopForm
    <3>5. ASSUME NEW pod \in PodInfo, NEW n \in Nodes, todo[t] = << Spawned(pod, n) >>
          PROVE  FALSE
      <4>1. Arg(t) = Spawned(pod, n) /\ todo[t] # << >>
        BY <3>5 DEF Arg
      <4> QED  BY <4>1, IndifferentIs DEF Spawned
    <3> QED  BY <2>2, <3>1, <3>2, <3>3, <3>4, <3>5 DEF Settled, LoopForm
  <2> QED  BY <2>1, <2>2
<1>11. \A p \in Pods : Unseen(p)' => Unseen(p) /\ api'[p].node = api[p].node
  BY <1>3 DEF Unseen
<1>12. \A p \in Pods, n \in Nodes : Claims(p, n)' => Claims(p, n)
  <2>1. \A p \in Pods, n \in Nodes : pod_locations'[p] = n => Claims(p, n)
    BY DEF Claims
  <2> QED  BY <2>1, <1>11, ClaimsStay
<1>13. Settled'
  BY <1>2, <1>4, <1>8, <1>9, <1>10 DEF Settled
<1> QED  BY <1>2, <1>11, <1>12, <1>13 DEF Settles, Follows

-----------------------------------------------------------------------------
(* The queue's steps, and the cache's that count nobody *)

LEMMA FrontIsHad ==
    ASSUME Tasked, NEW t \in Tasks, NEW p, AtHand(t, p), Alone(p)
    PROVE  Has(t, p) /\ ~Shelved(p)
  BY FrontAndRest DEF Alone

LEMMA OrderedStays == Ordered /\ UNCHANGED <<apiVars, watchVars>> => Ordered'
  BY DEF Ordered, apiVars, watchVars, NewPod, NewsOf, IsAt

LEMMA QuietStep ==
    ASSUME Tasked, Settled, NEW t \in Tasks, NEW ops \in Seq(Regions), Runs(t, ops),
           AllTame(ops),
           todo[t] # << >> => Indifferent(Arg(t)) /\ (Arg(t).op = "done" => ops = << >>),
           UNCHANGED <<apiVars, watchVars, pod_locations>>,
           \A p \in Pods : assumed'[p] \in {assumed[p], None},
           \A p \in Pods : Passes(t, ops, p)
    PROVE  Settles
<1>1. UNCHANGED <<api, pod_stream>>
  BY DEF apiVars, watchVars
<1>2. Ordered'
  BY OrderedStays DEF Settled
<1>3. \A p \in Pods : (Informed(p)' <=> Informed(p)) /\ (ToldGone(p)' <=> ToldGone(p))
  BY <1>1 DEF Informed, ToldGone
<1> QED  BY <1>1, <1>2, <1>3, LightKeeps

\* A task that puts the pod it holds on a shelf.
LEMMA PutAway ==
    ASSUME Tasked, Settled, NEW t \in Tasks, NEW op, op \in Plain \ {"done"}, At(t, op),
           Goto(t, << >>), NEW pod, \A p : AtHand(t, p) <=> p = pod.uid,
           \A p \in Pods : OneShelf(p) =>
              OneShelf(p)' /\ (Shelved(p)' => Shelved(p) \/ p = pod.uid),
           UNCHANGED <<apiVars, watchVars, cacheVars>>
    PROVE  Settles
<1>1. todo[t] # << >> /\ Arg(t).op = op /\ Runs(t, << >>) /\ << >> \in Seq(Regions)
  BY DEF At, Arg, Runs
<1>2. \A p : ~Bears(<< >>, p) /\ Once(<< >>, p)
  BY DEF Bears, Once
<1>3. \A p \in Pods : Passes(t, << >>, p)
  BY <1>2 DEF Passes, Settled, Alone
<1>4. Indifferent(Arg(t)) /\ Arg(t).op # "done"
  BY <1>1 DEF Indifferent, Tame
<1>5. UNCHANGED <<pod_locations, assumed>>
  BY DEF cacheVars
<1> QED  BY <1>1, <1>3, <1>4, <1>5, AllTameEmpty, QuietStep

LEMMA AddSettles ==
    ASSUME IInv, Settled, NEW t \in Tasks, Add(t)
    PROVE  Settles
<1>1. At(t, "add") /\ "add" \in Bearing /\ "add" \in Plain \ {"done"} /\ Goto(t, << >>)
  BY DEF Add, Bearing, PodOps, Plain
<1>2. PICK pod \in PodInfo :
        Arg(t).pod = pod /\ \A p : AtHand(t, p) <=> p = pod.uid
  BY <1>1, FrontIs DEF IInv, Shape
<1>3. Tasked /\ Queues /\ UNCHANGED <<apiVars, watchVars, cacheVars, pod_stream, mirror>>
  BY DEF Add, IInv, Shape, apiVars, watchVars
<1>4. Unless(pod)
  BY <1>2, <1>3, FrontIsHad DEF Settled, Unless, PodInfo
<1>5. \A p \in Pods : OneShelf(p) =>
         OneShelf(p)' /\ (Shelved(p)' => Shelved(p) \/ p = pod.uid)
  <2>1. CASE pre_enqueue(pod)
    BY <2>1, <1>2, <1>4, PushedOnShelf DEF Add
  <2>2. CASE ~pre_enqueue(pod)
    BY <2>2, <1>2, <1>3, <1>4, ParkedOnShelf DEF Add
  <2> QED  BY <2>1, <2>2
<1> QED  BY <1>1, <1>2, <1>3, <1>5, PutAway

LEMMA PushSettles ==
    ASSUME IInv, Settled, NEW t \in Tasks, Push(t)
    PROVE  Settles
<1>1. /\ At(t, "push_active") /\ "push_active" \in Bearing
      /\ "push_active" \in Plain \ {"done"} /\ Goto(t, << >>)
  BY DEF Push, Bearing, PodOps, Plain
<1>2. PICK pod \in PodInfo :
        Arg(t).pod = pod /\ \A p : AtHand(t, p) <=> p = pod.uid
  BY <1>1, FrontIs DEF IInv, Shape
<1>3. Tasked /\ Queues /\ UNCHANGED <<apiVars, watchVars, cacheVars, pod_stream, mirror>>
  BY DEF Push, IInv, Shape, apiVars, watchVars
<1>4. Unless(pod)
  BY <1>2, <1>3, FrontIsHad DEF Settled, Unless, PodInfo
<1>5. \A p \in Pods : OneShelf(p) =>
         OneShelf(p)' /\ (Shelved(p)' => Shelved(p) \/ p = pod.uid)
  BY <1>2, <1>4, PushedOnShelf DEF Push
<1> QED  BY <1>1, <1>2, <1>3, <1>5, PutAway

LEMMA ParkRejectedSettles ==
    ASSUME IInv, Settled, NEW t \in Tasks, ParkRejected(t)
    PROVE  Settles
<1>1. /\ At(t, "park") /\ "park" \in Bearing
      /\ "park" \in Plain \ {"done"} /\ Goto(t, << >>)
  BY DEF ParkRejected, Bearing, PodOps, Plain
<1>2. PICK pod \in PodInfo :
        Arg(t).pod = pod /\ \A p : AtHand(t, p) <=> p = pod.uid
  BY <1>1, FrontIs DEF IInv, Shape
<1>3. Tasked /\ Queues /\ UNCHANGED <<apiVars, watchVars, cacheVars, pod_stream, mirror>>
  BY DEF ParkRejected, IInv, Shape, apiVars, watchVars
<1>4. Unless(pod)
  BY <1>2, <1>3, FrontIsHad DEF Settled, Unless, PodInfo
<1>5. \A p \in Pods : OneShelf(p) =>
         OneShelf(p)' /\ (Shelved(p)' => Shelved(p) \/ p = pod.uid)
  BY <1>2, <1>3, <1>4, ParkedOnShelf DEF ParkRejected
<1> QED  BY <1>1, <1>2, <1>3, <1>5, PutAway

LEMMA PushBackoffSettles ==
    ASSUME IInv, Settled, NEW t \in Tasks, PushBackoff(t)
    PROVE  Settles
<1>1. /\ At(t, "push_backoff") /\ "push_backoff" \in Bearing
      /\ "push_backoff" \in Plain \ {"done"} /\ Goto(t, << >>)
  BY DEF PushBackoff, Bearing, PodOps, Plain
<1>2. PICK pod \in PodInfo :
        Arg(t).pod = pod /\ \A p : AtHand(t, p) <=> p = pod.uid
  BY <1>1, FrontIs DEF IInv, Shape
<1>3. Tasked /\ Queues /\ UNCHANGED <<apiVars, watchVars, cacheVars, pod_stream, mirror>>
  BY DEF PushBackoff, IInv, Shape, apiVars, watchVars
<1>4. Unless(pod)
  BY <1>2, <1>3, FrontIsHad DEF Settled, Unless, PodInfo
<1>5. \A p \in Pods : OneShelf(p) =>
         OneShelf(p)' /\ (Shelved(p)' => Shelved(p) \/ p = pod.uid)
  <2>1. /\ backoff' = [backoff EXCEPT ![pod] = @ + 1]
        /\ UNCHANGED <<active, unschedulable, in_flight>>
    BY <1>2 DEF PushBackoff
  <2> QED  BY <2>1, <1>3, <1>4, PutBackOnShelf
<1> QED  BY <1>1, <1>2, <1>3, <1>5, PutAway

\* A task that goes on with the pod it is at, or with none.
LEMMA GoesOn ==
    ASSUME Tasked, Settled, NEW t \in Tasks, NEW ops \in Seq(Regions), Runs(t, ops),
           AllTame(ops),
           todo[t] # << >> => Indifferent(Arg(t)) /\ (Arg(t).op = "done" => ops = << >>),
           UNCHANGED <<apiVars, watchVars, pod_locations>>,
           UNCHANGED <<active, unschedulable, backoff>>,
           \A p \in Pods : assumed'[p] \in {assumed[p], None},
           \A p \in Pods : Once(ops, p) /\ (Bears(ops, p) => AtHand(t, p))
    PROVE  Settles
<1>1. UNCHANGED <<pod_stream, mirror, active, unschedulable, backoff>>
  BY DEF apiVars, watchVars
<1>2. \A p \in Pods : Passes(t, ops, p)
  BY <1>1, PassesOn DEF Settled
<1> QED  BY <1>2, QuietStep

LEMMA OneRegion ==
    ASSUME NEW r \in Regions
    PROVE  /\ << r >> \in Seq(Regions)
           /\ \A p : Once(<< r >>, p) /\ (Bears(<< r >>, p) <=> Owns(r, p))
           /\ Tame(r) => AllTame(<< r >>)
<1>1. << r >> \in Seq(Regions) /\ DOMAIN << r >> = {1} /\ << r >>[1] = r
  OBVIOUS
<1> QED  BY <1>1 DEF Once, Bears, AllTame

LEMMA NoRegion ==
    /\ << >> \in Seq(Regions) /\ AllTame(<< >>)
    /\ \A p : Once(<< >>, p) /\ ~Bears(<< >>, p)
  BY DEF Once, Bears, AllTame

LEMMA Signalling ==
    ASSUME NEW ev \in Signals
    PROVE  /\ move_all(ev) \in Seq(Regions) /\ AllTame(move_all(ev))
           /\ \A p : Once(move_all(ev), p) /\ ~Bears(move_all(ev), p)
           /\ \A i \in DOMAIN move_all(ev) : move_all(ev)[i].op \in {"record", "sweep"}
<1> DEFINE m == move_all(ev)
<1>1. m \in Seq(Regions)
  BY OtherHandlers, EndingsAreRegions
<1>2. /\ DOMAIN m = {1, 2}
      /\ m[1].op = "record" /\ m[2].op = "sweep"
  BY DEF move_all
<1>3. \A i \in DOMAIN m : m[i].op \in {"record", "sweep"}
  BY <1>2
<1> HIDE DEF m
<1>4. AllTame(m) /\ \A p : Once(m, p) /\ ~Bears(m, p)
  BY <1>3 DEF AllTame, Tame, Plain, Once, Bears, Owns, Bearing, PodOps
<1> QED  BY <1>1, <1>3, <1>4 DEF m

LEMMA Finishing ==
    /\ done \in Seq(Regions) /\ AllTame(done)
    /\ \A p : Once(done, p) /\ ~Bears(done, p)
<1>1. [op |-> "done"] \in Regions
  BY DEF Regions
<1>2. Tame([op |-> "done"]) /\ \A p : ~Owns([op |-> "done"], p)
  BY DEF Tame, Plain, Owns, Bearing, PodOps
<1> QED  BY <1>1, <1>2, OneRegion DEF done

\* The handlers that queue a pod, or park it.
LEMMA Queueing ==
    ASSUME NEW pod \in PodInfo, NEW plugins \in SUBSET Plugins,
           NEW ops \in {add(pod), push(pod), retry(pod), park(pod, plugins),
                        << [op |-> "park", pod |-> pod, plugins |-> plugins] >>}
    PROVE  /\ ops \in Seq(Regions) /\ AllTame(ops)
           /\ \A p : Once(ops, p) /\ (Bears(ops, p) <=> p = pod.uid)
<1>1. PICK r \in Regions : ops = << r >> /\ Tame(r) /\ r.op \in Bearing /\ r.pod = pod
  <2>1. \/ \E op \in {"add", "push_active", "push_backoff"} :
              ops = << [op |-> op, pod |-> pod] >>
        \/ \E op \in {"replay", "park"} :
              ops = << [op |-> op, pod |-> pod, plugins |-> plugins] >>
    BY DEF add, push, retry, park
  <2>2. ASSUME NEW op \in {"add", "push_active", "push_backoff"}
        PROVE  [op |-> op, pod |-> pod] \in Regions /\ Tame([op |-> op, pod |-> pod])
               /\ op \in Bearing
    BY DEF Regions, Tame, Plain, Bearing, PodOps
  <2>3. ASSUME NEW op \in {"replay", "park"}
        PROVE  /\ [op |-> op, pod |-> pod, plugins |-> plugins] \in Regions
               /\ Tame([op |-> op, pod |-> pod, plugins |-> plugins])
               /\ op \in Bearing
    BY DEF Regions, Tame, Plain, Bearing
  <2> QED  BY <2>1, <2>2, <2>3
<1> QED  BY <1>1, OneRegion DEF Owns

LEMMA ReplaySettles ==
    ASSUME IInv, Settled, NEW t \in Tasks, Replay(t)
    PROVE  Settles
<1>1. At(t, "replay") /\ "replay" \in Bearing
  BY DEF Replay, Bearing
<1>2. PICK pod \in PodInfo :
        /\ Arg(t).pod = pod /\ \A p : AtHand(t, p) <=> p = pod.uid
        /\ Arg(t) \in Regions /\ Arg(t).op = "replay"
  BY <1>1, FrontIs DEF IInv, Shape
<1>3. PICK plugins \in SUBSET Plugins : Arg(t).plugins = plugins
  BY <1>2, RegionFields
<1> DEFINE ps == << [op |-> "park", pod |-> pod, plugins |-> plugins] >>
<1>5. Goto(t, retry(pod)) \/ Goto(t, ps)
  BY <1>2, <1>3 DEF Replay
<1>6. PICK ops \in {retry(pod), ps} : Goto(t, ops)
  BY <1>5
<1> HIDE DEF ps
<1>7. /\ ops \in Seq(Regions) /\ AllTame(ops)
      /\ \A p : Once(ops, p) /\ (Bears(ops, p) <=> p = pod.uid)
  BY <1>6, Queueing DEF ps
<1>8. /\ UNCHANGED <<apiVars, watchVars, pod_locations, assumed>>
      /\ UNCHANGED <<active, unschedulable, backoff>> /\ Tasked
      /\ todo[t] # << >>
  BY <1>1 DEF Replay, At, cacheVars, queueVars, IInv, Shape
<1>9. Indifferent(Arg(t)) /\ Arg(t).op # "done" /\ Runs(t, ops)
  BY <1>2, <1>6, <1>8 DEF Indifferent, Tame, Plain, Runs
<1> QED  BY <1>2, <1>7, <1>8, <1>9, GoesOn

\* A step that is over with a region nobody is held by.
LEMMA DoneWith ==
    ASSUME IInv, Settled, NEW t \in Tasks, NEW op \in Plain, op \notin Bearing,
           At(t, op), Goto(t, << >>),
           UNCHANGED <<apiVars, watchVars, pod_locations>>,
           UNCHANGED <<active, unschedulable, backoff>>,
           \A p \in Pods : assumed'[p] \in {assumed[p], None}
    PROVE  Settles
<1>1. /\ todo[t] # << >> /\ Arg(t).op = op /\ Runs(t, << >>) /\ Tasked
      /\ Indifferent(Arg(t))
  BY DEF At, Arg, Runs, Indifferent, Tame, IInv, Shape
<1> QED  BY <1>1, NoRegion, GoesOn

LEMMA RecordSettles ==
    ASSUME IInv, Settled, NEW t \in Tasks, Record(t)
    PROVE  Settles
<1>1. At(t, "record") /\ "record" \notin Bearing /\ "record" \in Plain
  BY DEF Record, Bearing, PodOps, Plain
<1>2. UNCHANGED <<pod_locations, assumed>>
  BY DEF Record, cacheVars
<1> QED  BY <1>1, <1>2, DoneWith DEF Record

LEMMA ForgetSettles ==
    ASSUME IInv, Settled, NEW t \in Tasks, Forget(t)
    PROVE  Settles
<1>1. At(t, "forget") /\ "forget" \notin Bearing /\ "forget" \in Plain
  BY DEF Forget, Bearing, PodOps, Plain
<1>2. \A p \in Pods : assumed'[p] \in {assumed[p], None}
  BY DEF Forget, IInv, Shape, Cached
<1>3. UNCHANGED <<active, unschedulable, backoff, pod_locations>>
  BY DEF Forget, queueVars
<1> QED  BY <1>1, <1>2, <1>3, DoneWith DEF Forget

LEMMA UpsertNodeSettles ==
    ASSUME IInv, Settled, UpsertNode
    PROVE  Settles
<1>1. /\ At("watch", "upsert_node") /\ "upsert_node" \notin Bearing
      /\ "upsert_node" \in Plain /\ "watch" \in Tasks
  BY DEF UpsertNode, Bearing, PodOps, Plain, Tasks
<1>2. UNCHANGED <<active, unschedulable, backoff, pod_locations, assumed>>
  BY DEF UpsertNode, queueVars
<1> QED  BY <1>1, <1>2, DoneWith DEF UpsertNode

LEMMA DoneSettles ==
    ASSUME IInv, Settled, Done
    PROVE  Settles
<1>1. /\ At("loop", "done") /\ "done" \notin Bearing /\ "done" \in Plain
      /\ "loop" \in Tasks
  BY DEF Done, Bearing, PodOps, Plain, Tasks
<1>2. UNCHANGED <<pod_locations, assumed>>
  BY DEF Done, cacheVars
<1> QED  BY <1>1, <1>2, DoneWith DEF Done

\* The loop gives up on the pod of this cycle.
LEMMA GivesUpSettles ==
    ASSUME IInv, Settled, Reject \/ ReserveRejects \/ FailCycle
    PROVE  Settles
<1>1. /\ At("loop", "cycle") /\ "loop" \in Tasks
  BY DEF Reject, ReserveRejects, FailCycle, Tasks
<1>2. PICK pod \in PodInfo : /\ Arg("loop").pod = pod
                            /\ \A p : AtHand("loop", p) <=> p = pod.uid
  BY <1>1, FrontIs DEF IInv, Shape, Bearing
<1>0. PICK plugins \in SUBSET Plugins :
        Goto("loop", park(pod, plugins) \o done) \/ Goto("loop", retry(pod) \o done)
  <2>1. {"NodeResourcesFit"} \in SUBSET Plugins /\ {"VolumeBinding"} \in SUBSET Plugins
    BY DEF Plugins
  <2> QED  BY <2>1, <1>2 DEF Reject, ReserveRejects, FailCycle
<1>3. PICK ops : /\ ops = park(pod, plugins) \/ ops = retry(pod)
                 /\ todo' = [todo EXCEPT !["loop"] = (ops \o done) \o Tail(@)]
  BY <1>0 DEF Goto
<1>4. /\ ops \in Seq(Regions) /\ AllTame(ops)
      /\ \A p : Once(ops, p) /\ (Bears(ops, p) <=> p = pod.uid)
  BY <1>3, Queueing
<1>5. PICK all : all = ops \o done
  OBVIOUS
<1>6. /\ all \in Seq(Regions) /\ AllTame(all)
      /\ \A p : Once(all, p) /\ (Bears(all, p) <=> p = pod.uid)
  BY <1>4, <1>5, Finishing, JoinedRegions
<1>7. /\ UNCHANGED <<apiVars, watchVars, pod_locations, assumed>>
      /\ UNCHANGED <<active, unschedulable, backoff>> /\ Tasked
      /\ todo["loop"] # << >> /\ Arg("loop").op = "cycle"
  BY <1>1 DEF Reject, ReserveRejects, FailCycle, At, Arg, cacheVars, queueVars, IInv, Shape
<1>8. Indifferent(Arg("loop")) /\ Arg("loop").op # "done" /\ Runs("loop", all)
  BY <1>3, <1>5, <1>7 DEF Indifferent, Runs, Goto
<1> QED  BY <1>1, <1>2, <1>6, <1>7, <1>8, GoesOn

\* Parked pods are taken out, each by one of the regions that follow.
LEMMA TakenUp ==
    ASSUME Queues, NEW out \in SUBSET Pods, NEW ops,
           \A p \in out : unschedulable[p] # None,
           unschedulable' = [p \in Pods |-> IF p \in out THEN None ELSE unschedulable[p]],
           UNCHANGED <<active, backoff, in_flight, pod_stream, mirror>>,
           ops = [i \in 1 .. Cardinality(out) |-> ops[i]],
           \A i \in 1 .. Cardinality(out) :
              /\ ops[i].op \in {"add", "push_backoff"}
              /\ ops[i] = [op |-> ops[i].op, pod |-> unschedulable[SetToSeq(out)[i]].pod],
           \A p \in Pods : OneShelf(p)
    PROVE  /\ ops \in Seq(Regions) /\ AllTame(ops)
           /\ \A t \in Tasks, p \in Pods : Passes(t, ops, p)
<1> DEFINE n == Cardinality(out)
           s == SetToSeq(out)
<1>1. IsFiniteSet(out)
  BY FiniteAssumption, FS_Subset
<1>2. n \in Nat /\ s \in [1 .. n -> out] /\ \A i, j \in 1 .. n : s[i] = s[j] => i = j
  BY <1>1, SetToSeqLists, ListedOnce
<1>3. \A p \in out : unschedulable[p].pod \in PodInfo /\ unschedulable[p].pod.uid = p
  BY DEF Queues, Entry
<1>4. ops \in Seq(Regions)
  BY TakenOut DEF Safe
<1>5. DOMAIN ops = 1 .. n
  OBVIOUS
<1>6. ASSUME NEW i \in 1 .. n
      PROVE  Tame(ops[i]) /\ s[i] \in out /\ \A p : Owns(ops[i], p) <=> p = s[i]
  <2>1. PICK pod \in PodInfo : unschedulable[s[i]].pod = pod /\ pod.uid = s[i]
    BY <1>2, <1>3
  <2>2. PICK op \in {"add", "push_backoff"} : ops[i].op = op
    OBVIOUS
  <2>3. ops[i] = [op |-> op, pod |-> pod]
    BY <2>1, <2>2
  <2>4. s[i] \in out
    BY <1>2
  <2> HIDE DEF s
  <2> QED  BY <2>1, <2>2, <2>3, <2>4 DEF Tame, Plain, Owns, Bearing, PodOps
<1> HIDE DEF s
<1>7. AllTame(ops)
  BY <1>5, <1>6 DEF AllTame
<1>8. \A p : /\ Once(ops, p) /\ (Bears(ops, p) => p \in out)
  BY <1>2, <1>5, <1>6 DEF Once, Bears
<1>9. Waiting' = Waiting /\ Entries' = Entries /\ Uids(active)' = Uids(active)
      /\ \A p : Announced(p)' <=> Announced(p)
  BY DEF Waiting, Entries, Announced, FirstNews
<1>10. ASSUME NEW p \in Pods
       PROVE  /\ OneShelf(p)' /\ (Shelved(p)' => Shelved(p))
              /\ p \in out => Shelved(p) /\ ~Shelved(p)'
  <2>1. /\ unschedulable'[p] # None => unschedulable[p] # None
        /\ p \in out => unschedulable[p] # None /\ unschedulable'[p] = None
    OBVIOUS
  <2>2. OneShelf(p)
    OBVIOUS
  <2> QED  BY <2>1, <2>2, <1>9, ShelvesShrink DEF OneShelf, Shelved, Queued
<1> QED  BY <1>4, <1>7, <1>8, <1>10 DEF Passes

LEMMA SweepSettles ==
    ASSUME IInv, Settled, NEW t \in Tasks, Sweep(t)
    PROVE  Settles
<1>1. At(t, "sweep")
  BY DEF Sweep
<1>2. todo[t] # << >> /\ Arg(t).op = "sweep" /\ Indifferent(Arg(t))
  BY <1>1 DEF At, Arg, Indifferent, Tame, Plain
<1>3. PICK out : out = Woken(Arg(t).event)
  OBVIOUS
<1>4. out \in SUBSET Pods /\ \A p \in out : unschedulable[p] # None
  BY <1>3 DEF Woken
<1>5. PICK ops : ops = InTurn(out, LAMBDA p : return(unschedulable[p].pod))
  OBVIOUS
<1>6. ops = [i \in 1 .. Cardinality(out) |->
               Head(return(unschedulable[SetToSeq(out)[i]].pod))]
  BY <1>5 DEF InTurn
<1>7. /\ ops = [i \in 1 .. Cardinality(out) |-> ops[i]]
      /\ \A i \in 1 .. Cardinality(out) :
           /\ ops[i].op \in {"add", "push_backoff"}
           /\ ops[i] = [op |-> ops[i].op, pod |-> unschedulable[SetToSeq(out)[i]].pod]
  BY <1>6 DEF return, retry, add
<1>8. /\ unschedulable' = [p \in Pods |-> IF p \in out THEN None ELSE unschedulable[p]]
      /\ Goto(t, ops) /\ Runs(t, ops)
      /\ UNCHANGED <<active, backoff, in_flight, apiVars, watchVars, pod_stream, mirror>>
      /\ UNCHANGED <<pod_locations, assumed>>
      /\ Tasked /\ Queues /\ \A p \in Pods : OneShelf(p)
  BY <1>2, <1>3, <1>5 DEF Sweep, Runs, IInv, Shape, apiVars, watchVars, cacheVars, Settled, Alone
<1>9. /\ ops \in Seq(Regions) /\ AllTame(ops)
      /\ \A u \in Tasks, p \in Pods : Passes(u, ops, p)
  BY <1>4, <1>7, <1>8, TakenUp
<1> QED  BY <1>2, <1>8, <1>9, QuietStep

LEMMA FlushTimedOutSettles ==
    ASSUME IInv, Settled, FlushTimedOut
    PROVE  Settles
<1>1. PICK out \in SUBSET {p \in Pods : unschedulable[p] # None} \ {{}} :
        /\ unschedulable' = [p \in Pods |-> IF p \in out THEN None ELSE unschedulable[p]]
        /\ Begin("net", InTurn(out, LAMBDA p : retry(unschedulable[p].pod)))
  BY DEF FlushTimedOut
<1>2. out \in SUBSET Pods /\ \A p \in out : unschedulable[p] # None
  BY <1>1
<1>3. PICK ops : ops = InTurn(out, LAMBDA p : retry(unschedulable[p].pod))
  OBVIOUS
<1>4. ops = [i \in 1 .. Cardinality(out) |->
               Head(retry(unschedulable[SetToSeq(out)[i]].pod))]
  BY <1>3 DEF InTurn
<1>5. /\ ops = [i \in 1 .. Cardinality(out) |-> ops[i]]
      /\ \A i \in 1 .. Cardinality(out) :
           /\ ops[i].op \in {"add", "push_backoff"}
           /\ ops[i] = [op |-> ops[i].op, pod |-> unschedulable[SetToSeq(out)[i]].pod]
  BY <1>4 DEF retry
<1>6. /\ Begin("net", ops) /\ Runs("net", ops) /\ todo["net"] = << >> /\ "net" \in Tasks
      /\ UNCHANGED <<active, backoff, in_flight, apiVars, watchVars, pod_stream, mirror>>
      /\ UNCHANGED <<pod_locations, assumed>>
      /\ Tasked /\ Queues /\ \A p \in Pods : OneShelf(p)
  BY <1>1, <1>3 DEF FlushTimedOut, Begin, Runs, Tasks, IInv, Shape, apiVars, watchVars, cacheVars,
                    Settled, Alone
<1>7. /\ ops \in Seq(Regions) /\ AllTame(ops)
      /\ \A u \in Tasks, p \in Pods : Passes(u, ops, p)
  BY <1>1, <1>2, <1>5, <1>6, TakenUp
<1> QED  BY <1>6, <1>7, QuietStep

LEMMA DequeueBackoffSettles ==
    ASSUME IInv, Settled, NEW t \in Tasks, DequeueBackoff(t)
    PROVE  Settles
<1>1. At(t, "remove_backoff")
  BY DEF DequeueBackoff
<1>2. /\ todo[t] # << >> /\ Arg(t).op = "remove_backoff" /\ Indifferent(Arg(t))
      /\ Arg(t) \in Regions /\ Runs(t, << >>)
  BY <1>1, FrontIs DEF At, Arg, Indifferent, Tame, Plain, IInv, Shape, DequeueBackoff, Runs
<1>3. PICK u \in Pods : Arg(t).uid = u
  BY <1>2, RegionFields
<1>4. /\ backoff' = Kept(u) /\ Queues
      /\ UNCHANGED <<active, unschedulable, in_flight, apiVars, watchVars, pod_stream, mirror>>
      /\ UNCHANGED <<pod_locations, assumed>>
      /\ Tasked /\ Queues /\ \A p \in Pods : OneShelf(p)
  BY <1>3 DEF DequeueBackoff, IInv, Shape, apiVars, watchVars, cacheVars, Settled, Alone
<1>5. Queues'
  BY <1>4 DEF Queues, Kept
<1>6. \A e \in Entries' : e \in Entries
  <2> TAKE e \in Entries'
  <2>1. (\A x \in Entries : /\ x[1] \in PodInfo /\ x[2] \in 1 .. backoff[x[1]]
                            /\ x = <<x[1], x[2]>>)'
    BY <1>5, EntriesAre, PTL
  <2>2. e[1] \in PodInfo /\ e[2] \in 1 .. backoff'[e[1]] /\ e = <<e[1], e[2]>>
    BY <2>1
  <2>3. backoff \in [PodInfo -> Nat]
    BY <1>4 DEF Queues
  <2>4. e[2] \in 1 .. backoff[e[1]] /\ e[2] \in Nat
    BY <2>2, <2>3, <1>4 DEF Kept
  <2> QED  BY <2>2, <2>3, <2>4, EntriesFinite
<1>7. \A p : p \in Waiting' => p \in Waiting
  BY <1>4 DEF Waiting, Uids, Kept
<1>8. Uids(active)' = Uids(active) /\ \A p : Announced(p)' <=> Announced(p)
  BY <1>4 DEF Announced, FirstNews
<1>9. \A p \in Pods : Passes(t, << >>, p)
  <2> TAKE p \in Pods
  <2>1. OneShelf(p)
    BY <1>4
  <2>3. OneShelf(p)' /\ (Shelved(p)' => Shelved(p))
    BY <2>1, <1>4, <1>6, <1>7, <1>8, ShelvesShrink
  <2> QED  BY <2>3, NoRegion DEF Passes
<1> QED  BY <1>2, <1>4, <1>9, NoRegion, QuietStep

LEMMA DrainExpiredBackoffSettles ==
    ASSUME IInv, Settled, DrainExpiredBackoff
    PROVE  Settles
<1>0. /\ Queues /\ backoff \in [PodInfo -> Nat] /\ Tasked /\ "loop" \in Tasks
      /\ \A p \in Pods : OneShelf(p)
  BY DEF IInv, Shape, Queues, Tasks, Settled, Alone
<1>1. PICK ready \in SUBSET Entries \ {{}} :
        /\ backoff' = [pod \in PodInfo |->
                backoff[pod] - Cardinality({e \in ready : e[1] = pod})]
        /\ Begin("loop", InTurn(ready, LAMBDA e : push(e[1])))
  BY DEF DrainExpiredBackoff
<1>2. IsFiniteSet(ready)
  BY <1>0, <1>1, EntriesFinite, FS_Subset
<1> DEFINE n      == Cardinality(ready)
           s      == SetToSeq(ready)
           own(q) == {e \in ready : e[1] = q}
<1>3. /\ n \in Nat /\ s \in [1 .. n -> ready]
      /\ \A i, j \in 1 .. n : s[i] = s[j] => i = j
  BY <1>2, SetToSeqLists, ListedOnce
<1>4. PICK ops : ops = [i \in 1 .. n |-> [op |-> "push_active", pod |-> s[i][1]]]
  OBVIOUS
<1>5. Begin("loop", ops)
  <2>1. ops = InTurn(ready, LAMBDA e : push(e[1]))
    BY <1>4 DEF InTurn, push
  <2> QED  BY <2>1, <1>1
<1>6. ASSUME NEW i \in 1 .. n
      PROVE  /\ ops[i] \in Regions /\ Tame(ops[i]) /\ s[i] \in ready
             /\ \A p : Owns(ops[i], p) <=> p = s[i][1].uid
  <2>1. s[i][1] \in PodInfo /\ s[i] \in ready
    BY <1>0, <1>1, <1>3, EntriesFinite
  <2>2. ops[i] = [op |-> "push_active", pod |-> s[i][1]]
    BY <1>4
  <2> HIDE DEF s
  <2> QED  BY <2>1, <2>2 DEF Regions, Tame, Plain, Owns, PodOps, Bearing
<1>7. DOMAIN ops = 1 .. n /\ ops \in Seq(Regions) /\ AllTame(ops)
  <2>1. ops \in [1 .. n -> Regions] /\ DOMAIN ops = 1 .. n
    BY <1>4, <1>6
  <2> QED  BY <2>1, <1>3, <1>6 DEF AllTame
<1>8. ASSUME NEW q \in PodInfo
      PROVE  /\ Cardinality(own(q)) \in Nat /\ Cardinality(own(q)) <= backoff[q]
             /\ Cardinality(own(q)) = 0 => own(q) = {}
  <2> DEFINE row == {q} \X (1 .. backoff[q])
  <2>1. own(q) \in SUBSET row
    <3>1. \A x \in own(q) : x \in {q} \X (1 .. backoff[q])
      BY <1>0, <1>1, EntriesAre
    <3> QED  BY <3>1
  <2>2. IsFiniteSet({q}) /\ Cardinality({q}) = 1
    BY FS_Singleton
  <2>3. backoff[q] \in Nat
    BY <1>0
  <2>4. IsFiniteSet(1 .. backoff[q]) /\ Cardinality(1 .. backoff[q]) = backoff[q]
    BY ONLY <2>3, UpTo
  <2>5. IsFiniteSet(row) /\ Cardinality(row) = 1 * backoff[q]
    <3>1. /\ IsFiniteSet(row)
          /\ Cardinality(row) = Cardinality({q}) * Cardinality(1 .. backoff[q])
      BY <2>2, <2>4, FS_Product
    <3> QED  BY <3>1, <2>2, <2>4, Zenon
  <2>6. IsFiniteSet(own(q)) /\ Cardinality(own(q)) <= Cardinality(row)
    BY <2>1, <2>5, FS_Subset
  <2>7. Cardinality(own(q)) \in Nat
    BY <2>6, FS_CardinalityType
  <2>8. Cardinality(own(q)) = 0 => own(q) = {}
    BY <2>6, FS_EmptySet
  <2> HIDE DEF row
  <2>9. Cardinality(own(q)) <= backoff[q]
    BY <2>3, <2>5, <2>6
  <2> QED  BY <2>7, <2>8, <2>9
<1>9. PICK took : took = [q \in PodInfo |-> Cardinality(own(q))]
  OBVIOUS
<1>10. \A q \in PodInfo : /\ took[q] \in Nat /\ took[q] <= backoff[q]
                          /\ took[q] = 0 => own(q) = {}
                          /\ backoff'[q] = backoff[q] - took[q]
  BY <1>1, <1>8, <1>9
<1>11. /\ UNCHANGED <<active, unschedulable, in_flight, apiVars, watchVars, pod_stream, mirror>>
       /\ UNCHANGED <<pod_locations, assumed>>
  BY DEF DrainExpiredBackoff, apiVars, watchVars, cacheVars
<1>12. Queues' /\ backoff' \in [PodInfo -> Nat]
  <2>1. backoff' \in [PodInfo -> Nat]
    BY <1>0, <1>1, <1>10
  <2> QED  BY <2>1, <1>0, <1>11 DEF Queues
<1> HIDE DEF n, s
<1>13. \A e \in Entries' : e \in Entries /\ e[1] \in PodInfo /\ e[2] \in 1 .. backoff'[e[1]]
  <2> TAKE e \in Entries'
  <2>1. (\A x \in Entries : /\ x[1] \in PodInfo /\ x[2] \in 1 .. backoff[x[1]]
                            /\ x = <<x[1], x[2]>>)'
    BY <1>12, EntriesAre, PTL
  <2>2. e[1] \in PodInfo /\ e[2] \in 1 .. backoff'[e[1]] /\ e = <<e[1], e[2]>>
    BY <2>1
  <2>3. backoff[e[1]] \in Nat /\ took[e[1]] \in Nat /\ backoff'[e[1]] = backoff[e[1]] - took[e[1]]
    BY <1>0, <1>10, <2>2
  <2>4. e[2] \in 1 .. backoff[e[1]] /\ e[2] \in Nat
    BY <2>2, <2>3
  <2> QED  BY <2>2, <2>4, <1>0, EntriesFinite
<1>14. (\A q : q \in Waiting <=> \E e \in Entries : e[1].uid = q)'
  BY <1>12, WaitingIs, PTL
<1>15. \A q : q \in Waiting' => q \in Waiting
  BY <1>0, <1>13, <1>14, WaitingIs
<1>16. Uids(active)' = Uids(active) /\ \A p : Announced(p)' <=> Announced(p)
  BY <1>11 DEF Announced, FirstNews
<1>17. \A p : Bears(ops, p) => \E e \in ready : e[1].uid = p
  BY <1>6, <1>7 DEF Bears
<1>18. ASSUME NEW p \in Pods, Bears(ops, p) PROVE p \in Waiting /\ p \notin Waiting'
  <2>1. PICK e \in ready : e[1].uid = p
    BY <1>17, <1>18
  <2>2. e \in Entries /\ e[1] \in PodInfo
    BY <1>0, <1>1, EntriesFinite
  <2>3. p \in Waiting
    BY <2>1, <2>2, <1>0, WaitingIs
  <2>4. ASSUME NEW f \in Entries', f[1].uid = p PROVE FALSE
    <3>1. f \in Entries /\ f[1] \in PodInfo /\ f[2] \in 1 .. backoff'[f[1]]
      BY <2>4, <1>13
    <3>2. f = e
      BY <2>1, <2>2, <2>4, <3>1, <1>0 DEF OneShelf
    <3>3. own(f[1]) # {}
      BY <2>1, <3>2
    <3> HIDE DEF own
    <3>4. /\ took[f[1]] \in Nat /\ took[f[1]] # 0 /\ backoff[f[1]] \in Nat
          /\ backoff'[f[1]] = backoff[f[1]] - took[f[1]]
      BY <3>1, <3>3, <1>0, <1>10
    <3>5. backoff[f[1]] >= 2 /\ f[2] \in Nat
      BY <3>1, <3>4
    <3>6. <<f[1], 1>> \in Entries /\ <<f[1], 2>> \in Entries
      BY <3>1, <3>5, <1>0, EntriesFinite
    <3>7. <<f[1], 1>> = <<f[1], 2>>
      BY <3>6, <2>4, <1>0 DEF OneShelf
    <3> QED  BY <3>7
  <2> QED  BY <2>3, <2>4, <1>14
<1>19. ASSUME NEW p \in Pods PROVE Passes("loop", ops, p)
  <2>1. OneShelf(p)
    BY <1>0
  <2>3. OneShelf(p)' /\ (Shelved(p)' => Shelved(p))
    BY <2>1, <1>11, <1>13, <1>15, <1>16, ShelvesShrink
  <2>4. Once(ops, p)
    <3> SUFFICES ASSUME NEW i \in 1 .. n, NEW j \in 1 .. n,
                        Owns(ops[i], p), Owns(ops[j], p)
                 PROVE  i = j
      BY <1>7 DEF Once
    <3>1. s[i] \in Entries /\ s[j] \in Entries /\ s[i][1].uid = p /\ s[j][1].uid = p
      BY <1>1, <1>6
    <3>2. s[i] = s[j]
      BY <3>1, <2>1 DEF OneShelf
    <3> QED  BY <3>2, <1>3
  <2>5. Bears(ops, p) => Shelved(p) /\ ~Shelved(p)'
    <3>1. ASSUME Bears(ops, p) PROVE Shelved(p) /\ ~Shelved(p)'
      <4>1. p \in Waiting /\ p \notin Waiting'
        BY <1>18, <3>1
      <4>2. Queued(p) /\ ~Announced(p) /\ p \notin Uids(active) /\ unschedulable[p] = None
        BY <4>1, <2>1 DEF OneShelf, Queued
      <4> QED  BY <4>1, <4>2, <1>11, <1>16 DEF Shelved, Queued
    <3> QED  BY <3>1
  <2> QED  BY <2>3, <2>4, <2>5 DEF Passes
<1>20. Runs("loop", ops) /\ todo["loop"] = << >>
  BY <1>5 DEF Runs, Begin
<1> QED  BY <1>0, <1>7, <1>11, <1>19, <1>20, QuietStep

\* An update replaces the pod where it finds it, or takes out one that nothing
\* holds any longer.
LEMMA UpdateSettles ==
    ASSUME IInv, Settled, NEW t \in Tasks, Update(t)
    PROVE  Settles
<1>1. At(t, "update") /\ "update" \in Carrying /\ "update" \notin Bearing
  BY DEF Update, Carrying, PodOps, Bearing
<1>2. /\ Tasked /\ Queues /\ Cached /\ todo[t] # << >> /\ Arg(t).op = "update"
      /\ UNCHANGED <<backoff, in_flight, apiVars, watchVars, pod_stream, mirror>>
      /\ UNCHANGED <<pod_locations, assumed>> /\ \A p \in Pods : OneShelf(p)
  BY <1>1 DEF IInv, Shape, Update, At, Arg, apiVars, watchVars, cacheVars, Settled, Alone
<1>3. PICK pod \in PodInfo : Arg(t).pod = pod /\ pod.uid \in Pods
  BY <1>1, <1>2, ArgIs
<1>4. PICK u \in Pods : u = pod.uid
  BY <1>3
<1>5. Indifferent(Arg(t)) /\ Arg(t).op # "done"
  BY <1>2 DEF Indifferent, Tame, Plain
<1>6. Waiting' = Waiting /\ Entries' = Entries /\ \A p : Announced(p)' <=> Announced(p)
  BY <1>2 DEF Waiting, Entries, Announced, FirstNews
<1>7. ASSUME NEW ops \in Seq(Regions), Goto(t, ops), AllTame(ops),
             \A p \in Pods : Passes(t, ops, p)
      PROVE  Settles
  <2>1. Runs(t, ops)
    BY <1>2, <1>7 DEF Runs
  <2>2. \A p \in Pods : assumed'[p] \in {assumed[p], None}
    BY <1>2
  <2> QED  BY <2>1, <2>2, <1>2, <1>5, <1>7, QuietStep
<1>8. CASE /\ unschedulable[u] # None
           /\ unschedulable' = [unschedulable EXCEPT ![u] = None]
           /\ Goto(t, push(pod)) /\ UNCHANGED active
  <2>1. \A p \in Pods : /\ p # u => unschedulable'[p] = unschedulable[p]
                        /\ p = u => unschedulable'[p] = None
    BY <1>2, <1>8 DEF Queues
  <2>2. PICK ops : ops = push(pod)
    OBVIOUS
  <2>3. /\ ops \in Seq(Regions) /\ AllTame(ops)
        /\ \A p : Once(ops, p) /\ (Bears(ops, p) <=> p = u)
    <3>1. {} \in SUBSET Plugins
      OBVIOUS
    <3> QED  BY <3>1, <2>2, <1>4, Queueing
  <2>4. \A p \in Pods : Passes(t, ops, p)
    <3> TAKE p \in Pods
    <3>1. OneShelf(p)
      BY <1>2
    <3>2. OneShelf(p)' /\ (Shelved(p)' => Shelved(p))
      BY <3>1, <2>1, <1>6, <1>8, ShelvesShrink
    <3>3. p = u => Shelved(p) /\ ~Shelved(p)'
      BY <3>1, <2>1, <1>6, <1>8 DEF OneShelf, Shelved, Queued
    <3> QED  BY <3>2, <3>3, <2>3 DEF Passes
  <2> QED  BY <2>2, <2>3, <2>4, <1>7, <1>8
<1>9. CASE /\ unschedulable[u] # None
           /\ unschedulable' = [unschedulable EXCEPT ![u].pod = pod]
           /\ Goto(t, << >>) /\ UNCHANGED active
  <2>1. \A p \in Pods : unschedulable'[p] # None => unschedulable[p] # None
    BY <1>2, <1>9 DEF Queues
  <2>2. \A p \in Pods : Passes(t, << >>, p)
    <3> TAKE p \in Pods
    <3>1. OneShelf(p)
      BY <1>2
    <3>2. OneShelf(p)' /\ (Shelved(p)' => Shelved(p))
      BY <3>1, <2>1, <1>6, <1>9, ShelvesShrink
    <3> QED  BY <3>2, NoRegion DEF Passes
  <2> QED  BY <2>2, <1>7, <1>9, NoRegion, AllTameEmpty
<1>10. CASE /\ u \in Uids(active) /\ active' = Without(active, u) \cup {pod}
            /\ Goto(t, << >>) /\ UNCHANGED unschedulable
  <2>1. \A p \in Pods : p \in Uids(active)' => p \in Uids(active)
    BY <1>4, <1>10 DEF Uids, Without
  <2>2. \A p \in Pods : Passes(t, << >>, p)
    <3> TAKE p \in Pods
    <3>1. OneShelf(p)
      BY <1>2
    <3>2. OneShelf(p)' /\ (Shelved(p)' => Shelved(p))
      BY <3>1, <2>1, <1>6, <1>10, ShelvesShrink
    <3> QED  BY <3>2, NoRegion DEF Passes
  <2> QED  BY <2>2, <1>7, <1>10, NoRegion, AllTameEmpty
<1>11. CASE /\ Goto(t, << [op |-> "update_backoff", pod |-> pod] >>)
            /\ UNCHANGED <<active, unschedulable>>
  <2>1. PICK r : r = [op |-> "update_backoff", pod |-> pod]
    OBVIOUS
  <2>2. r \in Regions /\ Tame(r) /\ \A p : ~Owns(r, p)
    BY <2>1 DEF Regions, PodOps, Tame, Plain, Owns, Bearing
  <2>3. PICK ops : ops = << r >>
    OBVIOUS
  <2>4. ops \in Seq(Regions) /\ AllTame(ops) /\ \A p : Once(ops, p) /\ ~Bears(ops, p)
    BY <2>2, <2>3, OneRegion
  <2>5. \A p \in Pods : Passes(t, ops, p)
    BY <2>4, <1>2, <1>11, PassesOn DEF Settled
  <2> QED  BY <2>1, <2>3, <2>4, <2>5, <1>7, <1>11
<1> QED  BY <1>3, <1>4, <1>8, <1>9, <1>10, <1>11 DEF Update

\* ... and where it finds it nowhere, it is on record.
LEMMA UpdateBackoffSettles ==
    ASSUME IInv, Settled, NEW t \in Tasks, UpdateBackoff(t), "requeued" \notin mishaps'
    PROVE  Settles
<1>1. At(t, "update_backoff") /\ "update_backoff" \in Carrying
  BY DEF UpdateBackoff, Carrying, PodOps
<1>2. /\ Tasked /\ Queues /\ todo[t] # << >> /\ Arg(t).op = "update_backoff"
      /\ UNCHANGED <<active, unschedulable, in_flight, apiVars, watchVars, pod_stream, mirror>>
      /\ UNCHANGED <<pod_locations, assumed>> /\ \A p \in Pods : OneShelf(p)
  BY <1>1 DEF IInv, Shape, UpdateBackoff, At, Arg, apiVars, watchVars, cacheVars, Settled, Alone
<1>3. PICK pod \in PodInfo : Arg(t).pod = pod /\ pod.uid \in Pods
  BY <1>1, <1>2, ArgIs
<1>4. PICK u \in Pods : u = pod.uid
  BY <1>3
<1>5. Indifferent(Arg(t)) /\ Arg(t).op # "done"
  BY <1>2 DEF Indifferent, Tame, Plain
<1>6. /\ u \in Waiting /\ Goto(t, << >>)
      /\ backoff' = [Kept(u) EXCEPT ![pod] = Times(u)]
  BY <1>3, <1>4 DEF UpdateBackoff
<1>7. Times(u) = 1
  <2>1. PICK e \in Entries : e[1].uid = u
    BY <1>2, <1>6, WaitingIs
  <2>2. {f \in Entries : f[1].uid = u} = {e}
    BY <2>1, <1>2 DEF OneShelf
  <2> QED  BY <2>2, FS_Singleton DEF Times
<1>8. /\ backoff' \in [PodInfo -> Nat] /\ backoff'[pod] = 1
      /\ \A q \in PodInfo : /\ q.uid # u => backoff'[q] = backoff[q]
                            /\ q.uid = u /\ q # pod => backoff'[q] = 0
  BY <1>2, <1>4, <1>6, <1>7 DEF Queues, Kept
<1>9. Queues'
  BY <1>2, <1>8 DEF Queues
<1>10. ASSUME NEW e \in Entries' PROVE e \in Entries \/ e = <<pod, 1>>
  <2>1. (\A x \in Entries : /\ x[1] \in PodInfo /\ x[2] \in 1 .. backoff[x[1]]
                            /\ x = <<x[1], x[2]>>)'
    BY <1>9, EntriesAre, PTL
  <2>2. e[1] \in PodInfo /\ e[2] \in 1 .. backoff'[e[1]] /\ e = <<e[1], e[2]>>
    BY <2>1, <1>10
  <2>3. CASE e[1] = pod
    <3>1. e[2] = 1
      BY <2>2, <2>3, <1>8
    <3> QED  BY <3>1, <2>2, <2>3
  <2>4. CASE e[1] # pod /\ e[1].uid = u
    BY <2>2, <2>4, <1>8
  <2>5. CASE e[1].uid # u
    <3>1. backoff \in [PodInfo -> Nat]
      BY <1>2 DEF Queues
    <3>2. e[2] \in 1 .. backoff[e[1]] /\ e[2] \in Nat
      BY <3>1, <2>2, <2>5, <1>8
    <3> QED  BY <3>1, <3>2, <2>2, EntriesFinite
  <2> QED  BY <2>3, <2>4, <2>5
<1>11. ASSUME NEW e \in Entries', e[1].uid = u PROVE e = <<pod, 1>>
  <2>1. (\A x \in Entries : /\ x[1] \in PodInfo /\ x[2] \in 1 .. backoff[x[1]]
                            /\ x = <<x[1], x[2]>>)'
    BY <1>9, EntriesAre, PTL
  <2>2. e[1] \in PodInfo /\ e[2] \in 1 .. backoff'[e[1]] /\ e = <<e[1], e[2]>>
    BY <2>1, <1>11
  <2>3. e[1] = pod
    BY <2>2, <1>8, <1>11
  <2>4. e[2] = 1
    BY <2>2, <2>3, <1>8
  <2> QED  BY <2>2, <2>3, <2>4
<1>12. (\A q : q \in Waiting <=> \E e \in Entries : e[1].uid = q)'
  BY <1>9, WaitingIs, PTL
<1>13. \A q : q \in Waiting' => q \in Waiting
  <2> TAKE q
  <2> HAVE q \in Waiting'
  <2>1. PICK e \in Entries' : e[1].uid = q
    BY <1>12
  <2>2. CASE e \in Entries
    BY <2>1, <2>2, <1>2, WaitingIs
  <2>3. CASE e = <<pod, 1>>
    BY <2>1, <2>3, <1>4, <1>6
  <2> QED  BY <2>2, <2>3, <1>10
<1>14. \A p : Announced(p)' <=> Announced(p)
  BY <1>2 DEF Announced, FirstNews
<1>15. \A p \in Pods : OneShelf(p)' /\ (Shelved(p)' => Shelved(p))
  <2> TAKE p \in Pods
  <2>1. OneShelf(p)
    BY <1>2
  <2>2. CASE p # u
    <3>1. \A e \in Entries' : e[1].uid = p => e \in Entries
      BY <2>2, <1>4, <1>10
    <3> QED  BY <3>1, <2>1, <1>2, <1>13, <1>14, ShelvesShrink
  <2>3. CASE p = u
    <3>1. \A e, f \in Entries' : e[1].uid = p /\ f[1].uid = p => e = f
      BY <2>3, <1>11
    <3>2. Queued(p)' => Queued(p)
      BY <1>2, <1>13 DEF Queued
    <3>3. OneShelf(p)'
      BY <3>1, <3>2, <2>1, <1>2, <1>13, <1>14 DEF OneShelf
    <3> QED  BY <3>2, <3>3, <1>14 DEF Shelved
  <2> QED  BY <2>2, <2>3
<1>16. \A p \in Pods : Passes(t, << >>, p)
  BY <1>15, NoRegion DEF Passes
<1>17. Runs(t, << >>)
  BY <1>2, <1>6 DEF Runs
<1>18. \A p \in Pods : assumed'[p] \in {assumed[p], None}
  BY <1>2
<1> QED  BY <1>2, <1>5, <1>16, <1>17, <1>18, NoRegion, AllTameEmpty, QuietStep

LEMMA HandleVolumeSettles ==
    ASSUME IInv, Settled, HandleVolume
    PROVE  Settles
<1>1. PICK ops : ops = move_all("VolumeChanged")
  OBVIOUS
<1>2. /\ ops \in Seq(Regions) /\ AllTame(ops)
      /\ \A p : Once(ops, p) /\ ~Bears(ops, p)
  BY <1>1, Signalling DEF Signals
<1>3. /\ Runs("watch", ops) /\ todo["watch"] = << >> /\ "watch" \in Tasks /\ Tasked
      /\ UNCHANGED <<apiVars, watchVars, pod_locations, assumed>>
      /\ UNCHANGED <<active, unschedulable, backoff>>
  BY <1>1 DEF HandleVolume, Runs, Begin, Tasks, IInv, Shape, queueVars, cacheVars
<1> QED  BY <1>2, <1>3, GoesOn

-----------------------------------------------------------------------------
(* The watches *)

\* the event that the watch takes up is none of p's, or else p has been heard of
Reads(p) == \/ mirror'[p] = mirror[p] /\ ~NewsOf(Head(pod_stream), p)
            \/ ~Announced(p)'

\* The stream without its first event.
LEMMA StreamShrinks ==
    ASSUME Api, pod_stream # << >>, pod_stream' = Tail(pod_stream),
           UNCHANGED <<active, unschedulable, backoff>>, NEW p, Reads(p)
    PROVE  /\ OneShelf(p) => OneShelf(p)' /\ (Shelved(p)' => Shelved(p))
           /\ OneShelf(p) /\ NewPod(Head(pod_stream), p) /\ mirror[p] = None
                => Shelved(p) /\ ~Shelved(p)'
           /\ Informed(p)' => Informed(p)
           /\ Informed(p) => Informed(p)' \/ Confirms(Head(pod_stream), p)
           /\ ToldGone(p)' => ToldGone(p)
           /\ ToldGone(p) => \/ ToldGone(p)'
                             \/ /\ Head(pod_stream).type = "Delete"
                                /\ Head(pod_stream).uid = p
<1>1. /\ 1 \in DOMAIN pod_stream /\ pod_stream[1] = Head(pod_stream)
      /\ \A k \in DOMAIN pod_stream' : /\ k + 1 \in DOMAIN pod_stream
                                       /\ pod_stream'[k] = pod_stream[k + 1]
      /\ \A k \in DOMAIN pod_stream : k # 1 => /\ k - 1 \in DOMAIN pod_stream'
                                               /\ pod_stream'[k - 1] = pod_stream[k]
      /\ DOMAIN pod_stream \subseteq Nat \ {0} /\ DOMAIN pod_stream' \subseteq Nat \ {0}
  BY Shifted
<1>2. ASSUME Announced(p)' PROVE Announced(p)
  <2>1. mirror[p] = None /\ ~NewsOf(pod_stream[1], p)
    BY <1>1, <1>2 DEF Announced, Reads
  <2>2. PICK k \in DOMAIN pod_stream' :
           /\ NewPod(pod_stream'[k], p)
           /\ \A j \in 1 .. (k - 1) : ~NewsOf(pod_stream'[j], p)
    BY <1>2 DEF Announced, FirstNews
  <2>3. /\ k + 1 \in DOMAIN pod_stream /\ k \in Nat \ {0}
        /\ pod_stream'[k] = pod_stream[k + 1]
    BY <1>1
  <2>4. DOMAIN pod_stream = 1 .. Len(pod_stream) /\ Len(pod_stream) \in Nat
    BY DEF Api
  <2>5. ASSUME NEW j \in 1 .. k PROVE ~NewsOf(pod_stream[j], p)
    <3>1. CASE j = 1
      BY <3>1, <2>1
    <3>2. CASE j # 1
      <4>1. j \in DOMAIN pod_stream /\ j - 1 \in 1 .. (k - 1)
        BY ONLY <2>3, <2>4, <2>5, <3>2
      <4>2. pod_stream'[j - 1] = pod_stream[j]
        BY <4>1, <3>2, <1>1
      <4> QED  BY <4>1, <4>2, <2>2
    <3> QED  BY <3>1, <3>2
  <2>6. (k + 1) - 1 = k
    BY <2>3
  <2>7. FirstNews(k + 1, p)
    BY <2>2, <2>3, <2>5, <2>6 DEF FirstNews
  <2> QED  BY <2>1, <2>3, <2>7 DEF Announced
<1>3. Waiting' = Waiting /\ Entries' = Entries /\ Uids(active)' = Uids(active)
  BY DEF Waiting, Entries
<1>4. ASSUME OneShelf(p) PROVE OneShelf(p)' /\ (Shelved(p)' => Shelved(p))
  BY <1>2, <1>3, <1>4, ShelvesShrink DEF OneShelf
<1>5. ASSUME OneShelf(p), NewPod(Head(pod_stream), p), mirror[p] = None
      PROVE  Shelved(p) /\ ~Shelved(p)'
  <2>1. Announced(p)
    <3>1. FirstNews(1, p)
      BY <1>1, <1>5 DEF FirstNews
    <3> QED  BY <3>1, <1>1, <1>5 DEF Announced
  <2>2. ~Announced(p)'
    BY <1>5 DEF NewPod, NewsOf, Reads
  <2>3. ~Queued(p) /\ (Queued(p)' <=> Queued(p))
    BY <2>1, <1>3, <1>5 DEF OneShelf, Queued
  <2> QED  BY <2>1, <2>2, <2>3 DEF Shelved
<1>6. /\ Informed(p)' => Informed(p)
      /\ ToldGone(p)' => ToldGone(p)
  BY <1>1 DEF Informed, ToldGone
<1>7. ASSUME Informed(p) PROVE Informed(p)' \/ Confirms(Head(pod_stream), p)
  <2>1. PICK k \in DOMAIN pod_stream : Confirms(pod_stream[k], p)
    BY <1>7 DEF Informed
  <2>2. CASE k # 1
    BY <2>1, <2>2, <1>1 DEF Informed
  <2>3. CASE k = 1
    BY <2>1, <2>3, <1>1
  <2> QED  BY <2>2, <2>3
<1>8. ASSUME ToldGone(p)
      PROVE  \/ ToldGone(p)'
             \/ Head(pod_stream).type = "Delete" /\ Head(pod_stream).uid = p
  <2>1. PICK k \in DOMAIN pod_stream : pod_stream[k].type = "Delete" /\ pod_stream[k].uid = p
    BY <1>8 DEF ToldGone
  <2>2. CASE k # 1
    <3>1. pod_stream'[k - 1] = pod_stream[k] /\ k - 1 \in DOMAIN pod_stream'
      BY <2>2, <1>1
    <3> QED  BY <3>1, <2>1 DEF ToldGone
  <2>3. CASE k = 1
    BY <2>1, <2>3, <1>1
  <2> QED  BY <2>2, <2>3
<1> QED  BY <1>4, <1>5, <1>6, <1>7, <1>8

\* What is told stays in order when the first event has been heard.
LEMMA OrderGoesOn ==
    ASSUME IInv, Ordered, pod_stream # << >>, pod_stream' = Tail(pod_stream),
           UNCHANGED <<api, node_stream>>,
           \A p \in Pods : api[p].state = "pending" /\ mirror'[p] = None
              => mirror[p] = None /\ ~NewsOf(Head(pod_stream), p),
           relisting' => \A p \in Pods : mirror'[p] # None => p \in seen'
    PROVE  Ordered'
<1>1. /\ 1 \in DOMAIN pod_stream /\ pod_stream[1] = Head(pod_stream)
      /\ \A k \in DOMAIN pod_stream' : /\ k + 1 \in DOMAIN pod_stream
                                       /\ pod_stream'[k] = pod_stream[k + 1]
      /\ \A k \in DOMAIN pod_stream : k # 1 => /\ k - 1 \in DOMAIN pod_stream'
                                               /\ pod_stream'[k - 1] = pod_stream[k]
      /\ DOMAIN pod_stream \subseteq Nat \ {0} /\ DOMAIN pod_stream' \subseteq Nat \ {0}
      /\ pod_stream \in Seq(PodEvents)
  BY Shifted DEF IInv, Shape, Api
<1>2. ASSUME NEW k \in DOMAIN pod_stream', NEW ev, ev = pod_stream'[k]
      PROVE  /\ ev.type = "Apply" /\ ev.node # None => ev.node = api[ev.uid].node
             /\ ev.type = "Apply" /\ ev.state = "terminating"
               => api[ev.uid].state \in {"terminating", "gone"}
             /\ ev.type = "Delete" =>
                   /\ api[ev.uid].state = "gone" /\ ev.node = api[ev.uid].node
                   /\ \A j \in DOMAIN pod_stream' : j > k => ~NewsOf(pod_stream'[j], ev.uid)
  <2>1. k + 1 \in DOMAIN pod_stream /\ ev = pod_stream[k + 1] /\ k \in Nat \ {0}
    BY <1>1, <1>2
  <2>2. /\ ev.type = "Apply" /\ ev.node # None => ev.node = api[ev.uid].node
        /\ ev.type = "Apply" /\ ev.state = "terminating"
               => api[ev.uid].state \in {"terminating", "gone"}
        /\ ev.type = "Delete" =>
              /\ api[ev.uid].state = "gone" /\ ev.node = api[ev.uid].node
              /\ \A j \in DOMAIN pod_stream : j > k + 1 => ~NewsOf(pod_stream[j], ev.uid)
    BY <2>1 DEF Ordered
  <2>4. ASSUME ev.type = "Delete", NEW j \in DOMAIN pod_stream', j > k
        PROVE  ~NewsOf(pod_stream'[j], ev.uid)
    <3>1. j + 1 \in DOMAIN pod_stream /\ pod_stream'[j] = pod_stream[j + 1] /\ j + 1 > k + 1
      BY <2>1, <2>4, <1>1
    <3> QED  BY <3>1, <2>2, <2>4
  <2> QED  BY <2>2, <2>4
<1>3. ~IsAt(1, "Init")'
  <2>1. ASSUME 1 \in DOMAIN pod_stream', pod_stream'[1].type = "Init" PROVE FALSE
    <3>1. IsAt(1 + 1, "Init") /\ 1 + 1 \in DOMAIN pod_stream
      BY <2>1, <1>1 DEF IsAt
    <3> QED  BY <3>1 DEF IInv, Relist
  <2> QED  BY <2>1 DEF IsAt
<1>4. \A k \in DOMAIN pod_stream' : LET ev == pod_stream'[k] IN
        /\ ev.type = "Apply" /\ ev.node # None => ev.node = api'[ev.uid].node
        /\ ev.type = "Apply" /\ ev.state = "terminating"
               => api'[ev.uid].state \in {"terminating", "gone"}
        /\ ev.type = "Delete" =>
              /\ api'[ev.uid].state = "gone" /\ ev.node = api'[ev.uid].node
              /\ \A j \in DOMAIN pod_stream' : j > k => ~NewsOf(pod_stream'[j], ev.uid)
  BY <1>2
<1>5. ASSUME NEW p \in Pods, api'[p].state = "pending", mirror'[p] = None
      PROVE  \E k \in DOMAIN pod_stream' : NewsOf(pod_stream'[k], p)
  <2>1. mirror[p] = None /\ ~NewsOf(pod_stream[1], p) /\ api[p].state = "pending"
    BY <1>1, <1>5
  <2>2. PICK k \in DOMAIN pod_stream : NewsOf(pod_stream[k], p)
    BY <2>1 DEF Ordered
  <2> QED  BY <2>1, <2>2, <1>1
<1>6. /\ relisting' => \A p \in Pods : mirror'[p] # None => p \in seen'
      /\ \A k \in DOMAIN node_stream' : node_stream'[k].type = "Apply"
  BY DEF Ordered
<1> QED  BY <1>3, <1>4, <1>5, <1>6 DEF Ordered

LEMMA HandleNodeSettles ==
    ASSUME IInv, Settled, HandleNode
    PROVE  Settles
<1>1. /\ Shape /\ node_stream # << >> /\ node_stream' = Tail(node_stream)
      /\ UNCHANGED <<api, api_nodes, pod_stream, watchVars, pod_locations, assumed>>
      /\ UNCHANGED <<active, unschedulable, backoff>>
      /\ "watch" \in Tasks /\ Tasked /\ node_stream \in Seq(NodeEvents)
  BY DEF HandleNode, IInv, queueVars, cacheVars, Tasks, Shape, Api
<1>2. PICK ev : ev = Head(node_stream)
  OBVIOUS
<1>3. /\ DOMAIN node_stream = 1 .. Len(node_stream) /\ Len(node_stream) \in Nat \ {0}
      /\ node_stream[1] = ev /\ ev \in NodeEvents
      /\ DOMAIN node_stream' = 1 .. Len(node_stream) - 1
      /\ \A k \in DOMAIN node_stream' : node_stream'[k] = node_stream[k + 1]
                                        /\ k + 1 \in DOMAIN node_stream
  BY <1>1, <1>2
<1>4. ev.type = "Apply" /\ ev.node \in Nodes
  BY <1>3 DEF Settled, Ordered, NodeEvents
<1>5. \A k \in DOMAIN node_stream' : node_stream'[k].type = "Apply"
  BY <1>3 DEF Settled, Ordered
<1>6. Ordered'
  BY <1>1, <1>5 DEF Settled, Ordered, watchVars, NewPod, NewsOf, IsAt
<1>7. PICK first : first = << [op |-> "upsert_node", node |-> ev.node] >>
  OBVIOUS
<1>8. /\ first \in Seq(Regions) /\ AllTame(first)
      /\ \A p : Once(first, p) /\ ~Bears(first, p)
  <2>1. [op |-> "upsert_node", node |-> ev.node] \in Regions
    BY <1>4 DEF Regions
  <2>2. /\ Tame([op |-> "upsert_node", node |-> ev.node])
        /\ \A p : ~Owns([op |-> "upsert_node", node |-> ev.node], p)
    BY DEF Tame, Plain, Owns, Bearing, PodOps
  <2> QED  BY <2>1, <2>2, <1>7, OneRegion
<1>9. PICK ops : ops = first \o move_all("NodeAdded")
  OBVIOUS
<1>10. /\ ops \in Seq(Regions) /\ AllTame(ops)
       /\ \A p : Once(ops, p) /\ ~Bears(ops, p)
  <2>1. "NodeAdded" \in Signals
    BY DEF Signals
  <2>2. PICK m : m = move_all("NodeAdded")
    OBVIOUS
  <2>3. /\ m \in Seq(Regions) /\ AllTame(m)
        /\ \A p : Once(m, p) /\ ~Bears(m, p)
    BY <2>1, <2>2, Signalling
  <2>4. PICK all : all = first \o m
    OBVIOUS
  <2>5. first \in Seq(Regions) /\ m \in Seq(Regions)
    BY <2>3, <1>8
  <2>6. all \in Seq(Regions)
    BY ONLY <2>4, <2>5
  <2>7. AllTame(all) /\ \A p : Once(all, p) /\ ~Bears(all, p)
    BY <2>3, <2>4, <1>8, JoinedRegions
  <2>8. all = ops
    BY <2>2, <2>4, <1>9
  <2> QED  BY <2>6, <2>7, <2>8
<1>11. Begin("watch", ops)
  BY <1>2, <1>4, <1>7, <1>9 DEF HandleNode
<1>12. Runs("watch", ops) /\ todo["watch"] = << >>
  BY <1>11 DEF Runs, Begin
<1>13. \A p \in Pods : Passes("watch", ops, p)
  BY <1>1, <1>10, PassesOn DEF Settled, watchVars
<1>14. \A p \in Pods : (Informed(p)' <=> Informed(p)) /\ (ToldGone(p)' <=> ToldGone(p))
  BY <1>1 DEF Informed, ToldGone
<1> QED  BY <1>1, <1>6, <1>10, <1>12, <1>13, <1>14, LightKeeps

\* An event that is no news of a pod.
LEMMA NoNews ==
    ASSUME IInv, Settled, pod_stream # << >>, pod_stream' = Tail(pod_stream),
           Head(pod_stream).type \in {"Init", "InitDone"},
           UNCHANGED <<api, node_stream, pod_locations, assumed>>,
           UNCHANGED <<active, unschedulable, backoff>>,
           Begin("watch", << >>),
           \A p \in Pods : mirror'[p] = mirror[p],
           relisting' => \A p \in Pods : mirror'[p] # None => p \in seen'
    PROVE  Settles
<1>1. /\ Api /\ Ordered /\ Tasked /\ "watch" \in Tasks
      /\ \A p \in Pods : ~NewsOf(Head(pod_stream), p)
  BY DEF IInv, Shape, Settled, Tasks, NewsOf
<1>2. Ordered'
  BY <1>1, OrderGoesOn
<1>3. ASSUME NEW p \in Pods
      PROVE  /\ Passes("watch", << >>, p)
             /\ Informed(p)' <=> Informed(p)
             /\ ToldGone(p)' <=> ToldGone(p)
  <2>1. OneShelf(p)
    BY DEF Settled, Alone
  <2>2. ~Confirms(Head(pod_stream), p) /\ Head(pod_stream).type # "Delete"
    BY DEF Confirms
  <2>3. /\ OneShelf(p)' /\ (Shelved(p)' => Shelved(p))
        /\ Informed(p)' <=> Informed(p)
        /\ ToldGone(p)' <=> ToldGone(p)
    BY <2>1, <2>2, <1>1, StreamShrinks DEF Reads
  <2> QED  BY <2>3, NoRegion DEF Passes
<1>4. Runs("watch", << >>) /\ todo["watch"] = << >>
  BY DEF Runs, Begin
<1>5. \A p \in Pods : assumed'[p] \in {assumed[p], None}
  OBVIOUS
<1>6. UNCHANGED <<api, pod_locations>>
  OBVIOUS
<1> QED  BY <1>1, <1>2, <1>3, <1>4, <1>5, <1>6, NoRegion, LightKeeps

LEMMA HandleInitSettles ==
    ASSUME IInv, Settled, HandleInit
    PROVE  Settles
<1>1. /\ pod_stream # << >> /\ pod_stream' = Tail(pod_stream)
      /\ Head(pod_stream).type = "Init"
      /\ UNCHANGED <<api, node_stream, pod_locations, assumed>>
      /\ UNCHANGED <<active, unschedulable, backoff, mirror>>
      /\ todo["watch"] = << >> /\ UNCHANGED todo /\ Api /\ Tasked
  BY DEF HandleInit, queueVars, cacheVars, IInv, Shape
<1>2. IsAt(1, "Init")
  BY <1>1, Shifted DEF IsAt
<1>3. \A p \in Pods : mirror'[p] = None
  BY <1>1, <1>2 DEF Settled, Ordered
<1>4. Begin("watch", << >>)
  BY <1>1 DEF Begin, Tasked
<1> QED  BY <1>1, <1>3, <1>4, NoNews

\* Every pod the watch knew came back in the list: nothing is removed.
LEMMA HandleInitDoneSettles ==
    ASSUME IInv, Settled, HandleInitDone
    PROVE  Settles
<1>1. /\ pod_stream # << >> /\ pod_stream' = Tail(pod_stream)
      /\ Head(pod_stream).type = "InitDone"
      /\ UNCHANGED <<api, node_stream, pod_locations, assumed>>
      /\ UNCHANGED <<active, unschedulable, backoff>>
      /\ relisting' = FALSE /\ Api /\ Tasked /\ Watching
  BY DEF HandleInitDone, queueVars, cacheVars, IInv, Shape
<1>2. 1 \in DOMAIN pod_stream /\ IsAt(1, "InitDone") /\ ~IsAt(1, "Init")
  BY <1>1, Shifted DEF IsAt
<1>3. relisting
  BY <1>2 DEF IInv, Relist
<1>4. PICK gone : gone = {p \in Pods : mirror[p] # None} \ seen
  OBVIOUS
<1>5. gone = {}
  BY <1>3, <1>4 DEF Settled, Ordered
<1>6. /\ mirror' = [p \in Pods |-> IF p \in gone THEN None ELSE mirror[p]]
      /\ Begin("watch", InTurn(gone, LAMBDA p : remove_deleted(p, mirror[p].node)))
  BY <1>4 DEF HandleInitDone
<1>7. Cardinality(gone) = 0
  BY <1>5, FS_EmptySet
<1>8. InTurn(gone, LAMBDA p : remove_deleted(p, mirror[p].node)) = << >>
  <2>1. 1 .. Cardinality(gone) = {}
    BY <1>7
  <2> QED  BY <2>1 DEF InTurn
<1>9. Begin("watch", << >>)
  BY <1>6, <1>8
<1>10. \A p \in Pods : mirror'[p] = mirror[p]
  BY <1>5, <1>6
<1> QED  BY <1>1, <1>9, <1>10, NoNews

-----------------------------------------------------------------------------
(* The scheduling loop and the cache *)

\* The loop takes up a cycle, or the regions of a pod that found a node.
LEMMA LoopTakes ==
    ASSUME Tasked, Settled, NEW ops \in Seq(Regions), Runs("loop", ops),
           todo["loop"] # << >> => Indifferent(Arg("loop")),
           UNCHANGED <<apiVars, watchVars, pod_locations, assumed>>,
           \A p \in Pods : Passes("loop", ops, p), LoopForm'
    PROVE  Follows
<1>1. "loop" \in Tasks /\ "watch" \in Tasks /\ UNCHANGED <<api, pod_stream>>
  BY DEF Tasks, apiVars, watchVars
<1>2. \A u \in Tasks : u # "loop" => todo'[u] = todo[u]
  BY <1>1, RunsIs
<1>3. \A p \in Pods : Alone(p)' /\ (Somewhere(p)' => Somewhere(p))
  BY <1>1, Passed DEF Settled
<1>4. \A p \in Pods : /\ Informed(p)' <=> Informed(p)
                      /\ ToldGone(p)' <=> ToldGone(p)
  BY <1>1 DEF Informed, ToldGone
<1>5. \A p \in Pods : /\ Confirming(p)' <=> Confirming(p)
                      /\ Leaving(p) => Leaving(p)'
                      /\ Reserved(p) => Reserved(p)'
  BY <1>1, <1>4, WitnessesStay
<1>6. \A p \in Pods : Account(p)'
  BY <1>1, <1>3, <1>5, AccountStays DEF Settled
<1>7. Ordered'
  BY OrderedStays DEF Settled
<1>8. AllTame(todo["net"])' /\ \A b \in Binders : BinderForm(b)'
  <2>1. \A b \in Binders : b # "loop"
    BY NamesAssumption
  <2>2. /\ \A p \in Pods : pod_locations'[p] = pod_locations[p]
        /\ \A p \in Pods : api'[p].node = api[p].node /\ api'[p].state = api[p].state
    BY <1>1
  <2> QED  BY <2>1, <2>2, <1>1, <1>3, FormsStay
<1>9. WatchForm'
  <2>1. \A p \in Pods : Off(p) => Off(p)'
    BY <1>1, <1>5 DEF Off
  <2> QED  BY <2>1, <1>1, WatchStays DEF Settled
<1>10. \A p \in Pods : Unseen(p)' => Unseen(p) /\ api'[p].node = api[p].node
  BY <1>1, <1>5 DEF Unseen
<1>11. Settled'
  BY <1>3, <1>6, <1>7, <1>8, <1>9 DEF Settled
<1> QED  BY <1>3, <1>10, <1>11 DEF Follows

LEMMA PopSettles ==
    ASSUME IInv, Settled, NEW u \in Pods, Pop(u)
    PROVE  Settles
<1>1. PICK pod \in active :
        /\ pod.uid = u
        /\ active' = active \ {pod}
        /\ Begin("loop", << [op |-> "cycle", pod |-> pod] >>)
  BY DEF Pop
<1>2. Queues /\ Tasked /\ pod \in PodInfo /\ \A p \in Pods : OneShelf(p)
  BY DEF IInv, Shape, Queues, Settled, Alone
<1>3. PICK ops : ops = << [op |-> "cycle", pod |-> pod] >>
  OBVIOUS
<1>4. /\ ops \in Seq(Regions)
      /\ \A p : Once(ops, p) /\ (Bears(ops, p) <=> p = u)
  <2>1. [op |-> "cycle", pod |-> pod] \in Regions
    BY <1>2 DEF Regions, PodOps
  <2>2. \A p : Owns([op |-> "cycle", pod |-> pod], p) <=> p = u
    BY <1>1 DEF Owns, Bearing, PodOps
  <2> QED  BY <2>1, <2>2, <1>3, OneRegion
<1>5. /\ UNCHANGED <<unschedulable, backoff, apiVars, watchVars, pod_stream, mirror>>
      /\ UNCHANGED <<pod_locations, assumed>>
  BY DEF Pop, apiVars, watchVars, cacheVars
<1>6. /\ \A p : p \in Uids(active)' => p \in Uids(active)
      /\ u \in Uids(active) /\ u \notin Uids(active)'
  BY <1>1, <1>2 DEF Uids, Queues
<1>7. /\ Waiting' = Waiting /\ Entries' = Entries
      /\ \A p : Announced(p)' <=> Announced(p)
  BY <1>5 DEF Waiting, Entries, Announced, FirstNews
<1>8. ASSUME NEW p \in Pods PROVE Passes("loop", ops, p)
  <2>1. OneShelf(p)
    BY <1>2
  <2>3. OneShelf(p)' /\ (Shelved(p)' => Shelved(p))
    BY <2>1, <1>5, <1>6, <1>7, ShelvesShrink
  <2>4. p = u => Shelved(p) /\ ~Shelved(p)'
    BY <2>1, <1>5, <1>6, <1>7 DEF OneShelf, Shelved, Queued
  <2> QED  BY <2>3, <2>4, <1>4 DEF Passes
<1>9. Begin("loop", ops) /\ Runs("loop", ops) /\ todo["loop"] = << >> /\ "loop" \in Tasks
  BY <1>1, <1>3 DEF Runs, Begin, Tasks
<1>10. LoopForm'
  <2>1. todo'["loop"] = ops
    BY <1>2, <1>9 DEF Tasked, Begin
  <2> QED  BY <2>1, <1>2, <1>3 DEF LoopForm
<1>11. Follows
  BY <1>2, <1>4, <1>5, <1>8, <1>9, <1>10, LoopTakes
<1>12. \A p \in Pods, n \in Nodes : Claims(p, n)' => Claims(p, n)
  <2>1. todo'["loop"] = ops
    BY <1>2, <1>9 DEF Tasked, Begin
  <2>2. \A p, n : ~Sits("loop", Reserve(p, n))'
    BY <2>1, <1>3 DEF Sits, Reserve
  <2> TAKE p \in Pods, n \in Nodes
  <2> HAVE Claims(p, n)'
  <2>3. pod_locations'[p] = n \/ (Unseen(p)' /\ api'[p].node = n)
    BY <2>2 DEF Claims
  <2>4. CASE pod_locations'[p] = n
    BY <2>4, <1>5 DEF Claims
  <2>5. CASE Unseen(p)' /\ api'[p].node = n
    BY <2>5, <1>11 DEF Follows, Claims
  <2> QED  BY <2>3, <2>4, <2>5
<1> QED  BY <1>11, <1>12 DEF Settles

\* Three handlers of one region each.
LEMMA ThreeInARow ==
    ASSUME NEW S, NEW a \in S, NEW b \in S, NEW c \in S
    PROVE  << a >> \o << b >> \o << c >> = << a, b, c >>
<1> DEFINE s == << a >> \o << b >> \o << c >>
           t == << a, b, c >>
<1>1. s \in Seq(S) /\ t \in Seq(S) /\ Len(s) = 3 /\ Len(t) = 3
  OBVIOUS
<1>2. s[1] = t[1] /\ s[2] = t[2] /\ s[3] = t[3]
  OBVIOUS
<1>3. \A i \in 1 .. 3 : s[i] = t[i]
  <2>1. \A i \in 1 .. 3 : i = 1 \/ i = 2 \/ i = 3
    OBVIOUS
  <2> QED  BY <1>2, <2>1
<1> HIDE DEF s, t
<1>4. s = t
  BY <1>1, <1>3, SeqEqual
<1> QED  BY <1>4 DEF s, t

\* The node the loop chose, and what it has to run then.
LEMMA ChoiceIs ==
    ASSUME IInv, Settled, Schedule
    PROVE  \E pod \in PodInfo, n \in Feasible, ops \in Seq(Regions) :
              /\ ops = << Reserve(pod.uid, n), Finished, Spawned(pod, n) >>
              /\ DOMAIN ops = 1 .. 3 /\ ops[1] = Reserve(pod.uid, n)
              /\ ops[2] = Finished /\ ops[3] = Spawned(pod, n)
              /\ pod.uid \in Pods /\ n \in Nodes
              /\ \A p : AtHand("loop", p) <=> p = pod.uid
              /\ todo["loop"] # << >> /\ Arg("loop").op = "cycle"
              /\ Goto("loop", ops) /\ todo'["loop"] = ops
<1>1. At("loop", "cycle") /\ "loop" \in Tasks /\ Tasked
  BY DEF Schedule, Tasks, IInv, Shape
<1>2. PICK pod \in PodInfo : /\ Arg("loop").pod = pod
                            /\ \A p : AtHand("loop", p) <=> p = pod.uid
  BY <1>1, FrontIs DEF IInv, Shape, Bearing
<1>3. PICK n \in Feasible :
         todo' = [todo EXCEPT !["loop"] = (assume(pod.uid, n) \o done
                     \o << [op |-> "spawn", pod |-> pod, node |-> n] >>) \o Tail(@)]
  BY <1>2 DEF Schedule, Goto
<1>4. PICK ops : ops = << Reserve(pod.uid, n), Finished, Spawned(pod, n) >>
  OBVIOUS
<1>5. pod.uid \in Pods /\ n \in Nodes
  BY <1>3 DEF PodInfo, IInv, Shape, Cached, Feasible
<1>6. /\ Reserve(pod.uid, n) \in Regions /\ Finished \in Regions /\ Spawned(pod, n) \in Regions
      /\ \A p : /\ ~Owns(Reserve(pod.uid, n), p) /\ ~Owns(Finished, p)
                /\ Owns(Spawned(pod, n), p) <=> p = pod.uid
  <2>1. Reserve(pod.uid, n) \in Regions
    BY <1>5 DEF Regions, Reserve
  <2>2. Finished \in Regions
    BY DEF Regions, Finished
  <2>3. Spawned(pod, n) \in Regions
    BY <1>5 DEF Regions, Spawned
  <2>4. \A p : /\ ~Owns(Reserve(pod.uid, n), p) /\ ~Owns(Finished, p)
               /\ Owns(Spawned(pod, n), p) <=> p = pod.uid
    BY DEF Reserve, Finished, Spawned, Owns, Bearing, PodOps
  <2> QED  BY <2>1, <2>2, <2>3, <2>4
<1>7. assume(pod.uid, n) \o done \o << [op |-> "spawn", pod |-> pod, node |-> n] >> = ops
  <2>1. /\ assume(pod.uid, n) = << Reserve(pod.uid, n) >> /\ done = << Finished >>
        /\ [op |-> "spawn", pod |-> pod, node |-> n] = Spawned(pod, n)
    BY DEF assume, done, Reserve, Finished, Spawned
  <2>2. << Reserve(pod.uid, n) >> \o << Finished >> \o << Spawned(pod, n) >>
           = << Reserve(pod.uid, n), Finished, Spawned(pod, n) >>
    BY <1>6, ThreeInARow
  <2> QED  BY ONLY <2>1, <2>2, <1>4
<1>8. /\ ops \in Seq(Regions) /\ DOMAIN ops = 1 .. 3
      /\ ops[1] = Reserve(pod.uid, n) /\ ops[2] = Finished /\ ops[3] = Spawned(pod, n)
  BY <1>4, <1>6
<1>9. /\ todo["loop"] # << >> /\ Arg("loop").op = "cycle" /\ Goto("loop", ops)
      /\ Runs("loop", ops)
  BY <1>1, <1>3, <1>7 DEF Schedule, At, Arg, Goto, Runs
<1>10. todo'["loop"] = ops
  <2>1. LoopForm /\ ~Tame(Arg("loop"))
    BY <1>9 DEF Settled, Tame, Plain
  <2>2. ~AllTame(todo["loop"])
    BY <2>1, <1>1, <1>9, FrontAndRest
  <2>3. ASSUME NEW q \in PodInfo, NEW m \in Nodes
        PROVE  /\ todo["loop"] # << Reserve(q.uid, m), Finished, Spawned(q, m) >>
               /\ todo["loop"] # << Finished, Spawned(q, m) >>
               /\ todo["loop"] # << Spawned(q, m) >>
    BY <1>9 DEF Reserve, Finished, Spawned, Arg
  <2>4. PICK q \in PodInfo : todo["loop"] = << [op |-> "cycle", pod |-> q] >>
    BY <2>1, <2>2, <2>3 DEF LoopForm
  <2>5. Rest("loop") = << >>
    BY <2>4 DEF Rest
  <2>6. todo'["loop"] = ops \o << >>
    BY <2>5, <1>1, <1>8, <1>9, RunsIs
  <2>7. todo'["loop"] = ops
    BY <2>6, <1>8
  <2> QED  BY <2>7
<1> QED  BY <1>2, <1>4, <1>5, <1>8, <1>9, <1>10

LEMMA ScheduleSettles ==
    ASSUME IInv, Settled, Schedule
    PROVE  Follows
<1>1. "loop" \in Tasks /\ Tasked
  BY DEF Tasks, IInv, Shape
<1>2. PICK pod \in PodInfo, n \in Feasible, ops \in Seq(Regions) :
         /\ ops = << Reserve(pod.uid, n), Finished, Spawned(pod, n) >>
         /\ DOMAIN ops = 1 .. 3 /\ ops[1] = Reserve(pod.uid, n)
         /\ ops[2] = Finished /\ ops[3] = Spawned(pod, n)
         /\ pod.uid \in Pods /\ n \in Nodes
         /\ \A p : AtHand("loop", p) <=> p = pod.uid
         /\ todo["loop"] # << >> /\ Arg("loop").op = "cycle"
         /\ Goto("loop", ops) /\ todo'["loop"] = ops
  BY ChoiceIs
<1>3. \A p : Once(ops, p) /\ (Bears(ops, p) <=> p = pod.uid)
  <2>1. \A i \in DOMAIN ops : i = 1 \/ i = 2 \/ i = 3
    BY <1>2
  <2>2. \A p : /\ ~Owns(Reserve(pod.uid, n), p) /\ ~Owns(Finished, p)
               /\ Owns(Spawned(pod, n), p) <=> p = pod.uid
    BY DEF Reserve, Finished, Spawned, Owns, Bearing, PodOps
  <2>3. \A p : \A i \in DOMAIN ops : Owns(ops[i], p) <=> i = 3 /\ p = pod.uid
    BY <2>1, <2>2, <1>2
  <2>4. 3 \in DOMAIN ops
    BY <1>2
  <2> QED  BY <2>3, <2>4 DEF Once, Bears
<1>4. /\ UNCHANGED <<apiVars, watchVars, pod_locations, assumed>>
      /\ UNCHANGED <<pod_stream, mirror, active, unschedulable, backoff>>
  BY DEF Schedule, queueVars, cacheVars, apiVars, watchVars
<1>5. Indifferent(Arg("loop")) /\ Runs("loop", ops)
  BY <1>2 DEF Indifferent, Runs
<1>6. \A p \in Pods : Passes("loop", ops, p)
  BY <1>1, <1>2, <1>3, <1>4, <1>5, PassesOn DEF Settled
<1>7. LoopForm'
  BY <1>2 DEF LoopForm
<1> QED  BY <1>1, <1>2, <1>4, <1>5, <1>6, <1>7, LoopTakes

\* what a region will do to the cache, for the watch
Gives(r, p) == r.op = "add_pod" /\ r.uid = p
Takes(r, p) == \/ r = Returned(p)
               \/ r.op = "remove" /\ \E j \in DOMAIN r.then : r.then[j] = Returned(p)

\* Who will be counted, and who will not be any longer, after a step.
LEMMA WhatFollows ==
    ASSUME Tasked, NEW t \in Tasks, NEW ops \in Seq(Regions), Runs(t, ops), NEW p,
           todo[t] # << >> => ~Gives(Arg(t), p),
           t = "watch" => \A i \in DOMAIN ops : ~Gives(ops[i], p),
           Informed(p)' <=> Informed(p), ToldGone(p)' <=> ToldGone(p),
           todo[t] # << >> /\ Takes(Arg(t), p)
              => Leaving(p)' \/ \E i \in DOMAIN ops : Takes(ops[i], p)
    PROVE  /\ Confirming(p)' <=> Confirming(p)
           /\ Leaving(p) => Leaving(p)'
<1>1. /\ \A u \in Tasks : \A i \in DOMAIN todo[u] :
            \/ u = t /\ todo[t] # << >> /\ i = 1 /\ todo[u][i] = Arg(t)
            \/ \E j \in DOMAIN todo'[u] : todo'[u][j] = todo[u][i]
      /\ \A u \in Tasks : \A j \in DOMAIN todo'[u] :
            \/ u = t /\ \E i \in DOMAIN ops : ops[i] = todo'[u][j]
            \/ \E i \in DOMAIN todo[u] : todo[u][i] = todo'[u][j]
      /\ \A i \in DOMAIN ops : \E j \in DOMAIN todo'[t] : todo'[t][j] = ops[i]
  BY StillThere
<1>2. "watch" \in Tasks
  BY DEF Tasks
<1>3. Confirming(p)' <=> Confirming(p)
  BY <1>1, <1>2 DEF Confirming, Gives
<1>4. /\ Leaving(p)  <=> ToldGone(p) \/ \E i \in DOMAIN todo["watch"] : Takes(todo["watch"][i], p)
      /\ Leaving(p)' <=> ToldGone(p)' \/ \E i \in DOMAIN todo'["watch"] : Takes(todo'["watch"][i], p)
  BY DEF Leaving, Takes
<1>5. ASSUME NEW i \in DOMAIN todo["watch"], Takes(todo["watch"][i], p)
      PROVE  Leaving(p)'
  <2>1. CASE \E j \in DOMAIN todo'["watch"] : todo'["watch"][j] = todo["watch"][i]
    BY <2>1, <1>4, <1>5
  <2>2. CASE t = "watch" /\ todo[t] # << >> /\ todo["watch"][i] = Arg(t)
    BY <2>2, <1>1, <1>4, <1>5
  <2> QED  BY <2>1, <2>2, <1>1, <1>2
<1> QED  BY <1>3, <1>4, <1>5

\* The reservations that outlive a step.
LEMMA StillReserved ==
    ASSUME Tasked, NEW t \in Tasks, NEW ops \in Seq(Regions), Runs(t, ops), NEW p, Reserved(p),
           todo[t] # << >> => ~Owns(Arg(t), p) /\ (t \in Binders => Arg(t) # Returned(p))
    PROVE  Reserved(p)'
<1>1. \A u \in Tasks : \A i \in DOMAIN todo[u] :
            \/ u = t /\ todo[t] # << >> /\ i = 1 /\ todo[u][i] = Arg(t)
            \/ \E j \in DOMAIN todo'[u] : todo'[u][j] = todo[u][i]
  BY StillThere
<1>2. "loop" \in Tasks /\ Binders \subseteq Tasks
  BY DEF Tasks
<1>3. ASSUME NEW i \in DOMAIN todo["loop"], todo["loop"][i].op = "spawn",
             todo["loop"][i].pod.uid = p
      PROVE  Reserved(p)'
  <2>1. Owns(todo["loop"][i], p)
    BY <1>3 DEF Owns, Bearing
  <2>2. PICK j \in DOMAIN todo'["loop"] : todo'["loop"][j] = todo["loop"][i]
    BY <2>1, <1>1, <1>2
  <2> QED  BY <2>2, <1>3 DEF Reserved
<1>4. ASSUME NEW b \in Binders, NEW i \in DOMAIN todo[b],
             todo[b][i].op = "bind" /\ todo[b][i].pod.uid = p
      PROVE  Reserved(p)'
  <2>1. Owns(todo[b][i], p)
    BY <1>4 DEF Owns, Bearing
  <2>2. PICK j \in DOMAIN todo'[b] : todo'[b][j] = todo[b][i]
    BY <2>1, <1>1, <1>2
  <2> QED  BY <2>2, <1>4 DEF Reserved
<1>5. ASSUME NEW b \in Binders, NEW i \in DOMAIN todo[b], todo[b][i] = Returned(p)
      PROVE  Reserved(p)'
  <2>1. PICK j \in DOMAIN todo'[b] : todo'[b][j] = todo[b][i]
    BY <1>1, <1>2, <1>5
  <2> QED  BY <2>1, <1>5 DEF Reserved, Returned
<1> QED  BY <1>3, <1>4, <1>5 DEF Reserved

\* A task takes up regions, the API server looking on.
LEMMA TaskActs ==
    ASSUME Tasked, Settled, NEW t \in Tasks \ {"net"}, NEW ops \in Seq(Regions), Runs(t, ops),
           UNCHANGED api, Ordered', \A p \in Pods : Passes(t, ops, p),
           \A p \in Pods, u \in Tasks : u # t /\ Has(u, p)
              => pod_locations'[p] = pod_locations[p],
           \A i \in DOMAIN ops : t = "watch" => Allowed(ops[i])',
           t = "loop" => LoopForm', t \in Binders => BinderForm(t)',
           \A p \in Pods : (Off(p) => Off(p)') /\ Account(p)',
           t = "loop" => AllTame(ops),
           \A p \in Pods : Unseen(p)' => Unseen(p),
           \A p \in Pods, n \in Nodes : pod_locations'[p] = n => Claims(p, n)
    PROVE  Settles
<1>1. \A p \in Pods : Alone(p)' /\ (Somewhere(p)' => Somewhere(p))
  BY Passed DEF Settled
<1>2. /\ AllTame(todo["net"])'
      /\ t # "loop" => LoopForm'
      /\ \A b \in Binders : b # t => BinderForm(b)'
  BY <1>1, FormsStay
<1>3. WatchForm'
  BY WatchStays DEF Settled
<1>4. Settled'
  BY <1>1, <1>2, <1>3 DEF Settled
<1>5. \A p \in Pods : Unseen(p)' => Unseen(p) /\ api'[p].node = api[p].node
  OBVIOUS
<1>6. \A p \in Pods, n \in Nodes : Claims(p, n)' => Claims(p, n)
  BY <1>5, ClaimsStay
<1> QED  BY <1>1, <1>4, <1>5, <1>6 DEF Settles, Follows

\* The cache takes a pod out: one that the watch knows to be gone, or one whose
\* binding cycle has failed.
LEMMA RemovePodSettles ==
    ASSUME IInv, Settled, NEW t \in Tasks, RemovePod(t)
    PROVE  Settles
<1>1. PICK r : r = Arg(t)
  OBVIOUS
<1>2. /\ Tasked /\ Api /\ Cached /\ todo[t] \in Seq(Regions) /\ todo[t] # << >>
      /\ r.op = "remove_pod" /\ Runs(t, << >>) /\ << >> \in Seq(Regions)
      /\ pod_locations' = [pod_locations EXCEPT ![r.uid] = None]
      /\ assumed' = [assumed EXCEPT ![r.uid] = None]
      /\ UNCHANGED <<apiVars, watchVars, api, pod_stream, mirror, active, unschedulable, backoff>>
  BY <1>1 DEF IInv, Shape, RemovePod, At, Arg, Runs, Tasked, apiVars, watchVars, queueVars
<1>3. PICK q \in Pods : r = Returned(q) /\ r.uid = q
  <2>1. r \in Regions
    BY <1>1, <1>2 DEF Arg
  <2>2. r \in Endings
    BY <2>1, <1>2 DEF Regions, PodOps
  <2> QED  BY <2>2, <1>2 DEF Endings, Returned
<1>4. /\ \A p \in Pods : p # q => /\ pod_locations'[p] = pod_locations[p]
                                  /\ assumed'[p] = assumed[p]
      /\ pod_locations'[q] = None /\ assumed'[q] = None
  BY <1>2, <1>3 DEF Cached
<1>5. Ordered'
  BY <1>2, OrderedStays DEF Settled
<1>6. \A p \in Pods : Passes(t, << >>, p)
  BY <1>2, NoRegion, PassesOn DEF Settled
<1>7. \A p \in Pods : Somewhere(p)' => Somewhere(p)
  BY <1>2, <1>6, Passed DEF Settled
<1>8. \A p \in Pods : (Informed(p)' <=> Informed(p)) /\ (ToldGone(p)' <=> ToldGone(p))
  BY <1>2 DEF Informed, ToldGone
<1>9. \A p : /\ ~Gives(r, p) /\ ~Owns(r, p)
             /\ Takes(r, p) => p = q
  BY <1>2, <1>3 DEF Gives, Takes, Owns, Bearing, PodOps, Returned
<1>10. \A p \in Pods : p # q => /\ Confirming(p)' <=> Confirming(p)
                                /\ Leaving(p) => Leaving(p)'
                                /\ Reserved(p) => Reserved(p)'
  <2> SUFFICES ASSUME NEW p \in Pods, p # q
               PROVE  /\ Confirming(p)' <=> Confirming(p)
                      /\ Leaving(p) => Leaving(p)'
                      /\ Reserved(p) => Reserved(p)'
    OBVIOUS
  <2>1. /\ ~Gives(Arg(t), p) /\ ~Owns(Arg(t), p) /\ ~Takes(Arg(t), p)
        /\ Arg(t) # Returned(p)
    BY <1>1, <1>3, <1>9 DEF Returned
  <2>2. \A i \in DOMAIN << >> : ~Gives(<< >>[i], p)
    OBVIOUS
  <2>3. /\ Confirming(p)' <=> Confirming(p)
        /\ Leaving(p) => Leaving(p)'
    BY <2>1, <2>2, <1>2, <1>8, WhatFollows
  <2>4. Reserved(p) => Reserved(p)'
    BY <2>1, <1>2, StillReserved
  <2> QED  BY <2>3, <2>4
<1>11. \A p \in Pods : p # q => Account(p)'
  BY <1>2, <1>4, <1>7, <1>10, AccountStays DEF Settled
<1> HIDE DEF Settled
<1>12. t # "net" /\ t # "loop"
  <2>1. ~Tame(r)
    BY <1>2 DEF Tame, Plain
  <2>2. ~AllTame(todo[t])
    BY <2>1, <1>1, <1>2, FrontAndRest
  <2>3. t # "net"
    BY <2>2 DEF Settled
  <2>4. ASSUME NEW pod \in PodInfo, NEW n \in Nodes
        PROVE  /\ todo[t] # << [op |-> "cycle", pod |-> pod] >>
               /\ todo[t] # << Reserve(pod.uid, n), Finished, Spawned(pod, n) >>
               /\ todo[t] # << Finished, Spawned(pod, n) >>
               /\ todo[t] # << Spawned(pod, n) >>
    BY <1>1, <1>2 DEF Reserve, Finished, Spawned, Arg
  <2>5. ASSUME t = "loop" PROVE FALSE
    <3>1. LoopForm
      BY DEF Settled
    <3>2. ~AllTame(todo["loop"])
      BY <2>2, <2>5
    <3>3. \A pod \in PodInfo, n \in Nodes :
             /\ todo["loop"] # << [op |-> "cycle", pod |-> pod] >>
             /\ todo["loop"] # << Reserve(pod.uid, n), Finished, Spawned(pod, n) >>
             /\ todo["loop"] # << Finished, Spawned(pod, n) >>
             /\ todo["loop"] # << Spawned(pod, n) >>
      BY <2>4, <2>5
    <3>4. \A pod \in PodInfo : todo["loop"] # << [op |-> "cycle", pod |-> pod] >>
      BY <1>1, <1>2, <2>5 DEF Arg
    <3> QED  BY <3>1, <3>2, <3>3, <3>4 DEF LoopForm
  <2> QED  BY <2>3, <2>5
<1>20. \A p \in Pods, n \in Nodes : pod_locations'[p] = n => Claims(p, n)
  <2>1. \A n \in Nodes : n # None
    BY NamesAssumption
  <2> QED  BY <2>1, <1>4 DEF Claims
<1>21. \A p \in Pods : p # q => (Unseen(p)' => Unseen(p))
  BY <1>2, <1>4, <1>10 DEF Unseen
<1>13. CASE t = "watch"
  <2>1. Off(q)
    <3>1. Allowed(r)
      BY <1>1, <1>2, <1>13, FrontAndRest DEF Settled, WatchForm
    <3> QED  BY <3>1, <1>2, <1>3 DEF Allowed, Tame, Plain
  <2>2. \A i \in DOMAIN << >> : ~Gives(<< >>[i], q)
    OBVIOUS
  <2>3. Confirming(q)' => Confirming(q)
    <3>1. \A j \in DOMAIN todo'["watch"] :
             \E i \in DOMAIN todo["watch"] : todo["watch"][i] = todo'["watch"][j]
      <4>1. todo'[t] = << >> \o Rest(t) /\ Rest(t) \in Seq(Regions)
        BY <1>2, RunsIs
      <4>2. todo'[t] = Rest(t)
        BY <4>1
      <4>3. \A i \in DOMAIN Rest(t) : i + 1 \in DOMAIN todo[t] /\ Rest(t)[i] = todo[t][i + 1]
        BY <1>2, FrontAndRest
      <4> QED  BY <4>2, <4>3, <1>13
    <3> QED  BY <3>1, <1>8 DEF Confirming
  <2>4. api[q].state = "gone" /\ api[q].node # None /\ ~Confirming(q)'
    BY <2>1, <2>3 DEF Off
  <2>5. Account(q)'
    BY <2>4, <1>2, <1>4, <1>7 DEF Settled, Account
  <2>6. \A p \in Pods : Off(p) => Off(p)'
    BY <2>3, <1>2, <1>10 DEF Off
  <2>7. \A p \in Pods, u \in Tasks : Has(u, p) => pod_locations'[p] = pod_locations[p]
    BY <2>4, <1>4 DEF Settled, Account, Somewhere
  <2>8. t # "loop" /\ t \notin Binders /\ t # "net"
    BY <1>13, NamesAssumption
  <2>9. \A i \in DOMAIN << >> : t = "watch" => Allowed(<< >>[i])'
    OBVIOUS
  <2>10. \A p \in Pods : Unseen(p)' => Unseen(p)
    BY <2>4, <1>21 DEF Unseen
  <2> QED  BY <2>5, <2>6, <2>7, <2>8, <2>9, <2>10, <1>2, <1>5, <1>6, <1>11, <1>20, TaskActs
<1>14. CASE t \in Binders
  <2>1. /\ AllTame(Tail(todo[t])) /\ api[q].node = None /\ api[q].state # "none"
        /\ Somewhere(q) => Has(t, q)
    <3>1. BinderForm(t)
      BY <1>14 DEF Settled
    <3>2. ~AllTame(todo[t])
      <4>1. ~Tame(r)
        BY <1>2 DEF Tame, Plain
      <4> QED  BY <4>1, <1>1, <1>2, FrontAndRest
    <3>3. ASSUME NEW pod \in PodInfo, NEW n \in Nodes, todo[t] = << Asked(pod, n) >>
          PROVE  FALSE
      BY <3>3, <1>1, <1>2 DEF Asked, Arg
    <3>4. PICK p \in Pods :
             /\ todo[t] # << >> /\ Head(todo[t]) = Returned(p) /\ AllTame(Tail(todo[t]))
             /\ api[p].node = None /\ api[p].state # "none" /\ (Somewhere(p) => Has(t, p))
      BY <3>1, <3>2, <3>3 DEF BinderForm
    <3>5. p = q
      <4>1. Returned(p) = Returned(q)
        BY <3>4, <1>1, <1>3 DEF Arg
      <4> QED  BY <4>1 DEF Returned
    <3> QED  BY <3>4, <3>5
  <2>2. BinderForm(t)'
    <3>1. todo'[t] = << >> \o Rest(t) /\ Rest(t) = Tail(todo[t]) /\ Rest(t) \in Seq(Regions)
      BY <1>2, RunsIs DEF Rest
    <3>2. todo'[t] = Tail(todo[t])
      BY <3>1
    <3> QED  BY <3>2, <2>1 DEF BinderForm
  <2>3. Account(q)'
    BY <2>1, <1>2, <1>4, <1>7 DEF Settled, Account, Api
  <2>4. \A p \in Pods, u \in Tasks : u # t /\ Has(u, p) => pod_locations'[p] = pod_locations[p]
    BY <2>1, <1>4 DEF Settled, Alone, Somewhere
  <2>5. \A p \in Pods : Off(p) => Off(p)'
    BY <2>1, <1>2, <1>10 DEF Off
  <2>6. t # "loop" /\ t # "watch"
    BY <1>14, NamesAssumption
  <2>7. \A i \in DOMAIN << >> : t = "watch" => Allowed(<< >>[i])'
    OBVIOUS
  <2>8. \A p \in Pods : Unseen(p)' => Unseen(p)
    BY <2>1, <1>2, <1>21 DEF Unseen
  <2> QED  BY <2>2, <2>3, <2>4, <2>5, <2>6, <2>7, <2>8, <1>2, <1>5, <1>6, <1>11, <1>12, <1>20,
              TaskActs
<1> QED  BY <1>12, <1>13, <1>14 DEF Tasks

\* A handler takes a pod from the queues, and goes on with the cache.
LEMMA DequeueSettles ==
    ASSUME IInv, Settled, NEW t \in Tasks, Dequeue(t)
    PROVE  Settles
<1>1. PICK r : r = Arg(t)
  OBVIOUS
<1>2. PICK ops : ops = << [op |-> "remove_backoff", uid |-> r.uid] >> \o r.then
  OBVIOUS
<1>3. /\ Tasked /\ Api /\ Queues /\ todo[t] \in Seq(Regions) /\ todo[t] # << >>
      /\ r \in Regions /\ r.op = "remove" /\ Goto(t, ops)
      /\ active' = Without(active, r.uid)
      /\ unschedulable' = [unschedulable EXCEPT ![r.uid] = None]
      /\ UNCHANGED <<apiVars, watchVars, backoff, api, pod_stream, mirror, pod_locations, assumed>>
  BY <1>1, <1>2 DEF IInv, Shape, Dequeue, At, Arg, Tasked, apiVars, watchVars, cacheVars
<1>4. Runs(t, ops) /\ r.uid \in Pods /\ r.then \in Seq(Endings)
  BY <1>3, RegionFields DEF Runs
<1>5. PICK first : first = << [op |-> "remove_backoff", uid |-> r.uid] >>
  OBVIOUS
<1>6. /\ first \in Seq(Regions) /\ AllTame(first)
      /\ \A p : Once(first, p) /\ ~Bears(first, p)
  <2>1. [op |-> "remove_backoff", uid |-> r.uid] \in Regions
    BY <1>4 DEF Regions
  <2>2. /\ Tame([op |-> "remove_backoff", uid |-> r.uid])
        /\ \A p : ~Owns([op |-> "remove_backoff", uid |-> r.uid], p)
    BY DEF Tame, Plain, Owns, Bearing, PodOps
  <2> QED  BY <2>1, <2>2, <1>5, OneRegion
<1>7. /\ r.then \in Seq(Regions)
      /\ \A p : ~Bears(r.then, p) /\ Once(r.then, p)
      /\ \A i \in DOMAIN r.then : r.then[i] \in Endings
  <2>1. r.then \in Seq(Regions) /\ \A i \in DOMAIN r.then : r.then[i] \in Endings
    BY <1>4, EndingsAreRegions
  <2>2. \A e \in Endings : \A p : ~Owns(e, p)
    BY DEF Endings, Owns, Bearing, PodOps
  <2> QED  BY <2>1, <2>2 DEF Bears, Once
<1>8. /\ ops \in Seq(Regions) /\ \A p : Once(ops, p) /\ ~Bears(ops, p)
      /\ \A x : In(x, ops) <=> In(x, first) \/ In(x, r.then)
  <2>1. PICK b : b = r.then
    OBVIOUS
  <2>2. ops = first \o b /\ b \in Seq(Regions)
    BY <2>1, <1>2, <1>5, <1>7
  <2>3. ops \in Seq(Regions) /\ \A x : In(x, ops) <=> In(x, first) \/ In(x, b)
    BY <2>2, <1>6, Halves, PartsOf
  <2>4. \A p : Once(ops, p) /\ ~Bears(ops, p)
    BY <2>1, <2>2, <1>6, <1>7, JoinedRegions
  <2> QED  BY <2>1, <2>3, <2>4
<1>9. \A p \in Pods : Passes(t, ops, p)
  <2> TAKE p \in Pods
  <2>1. OneShelf(p)
    BY DEF Settled, Alone
  <2>3. /\ Announced(p)' => Announced(p)
        /\ p \in Uids(active)' => p \in Uids(active)
        /\ unschedulable'[p] # None => unschedulable[p] # None
        /\ p \in Waiting' => p \in Waiting
        /\ \A e \in Entries' : e[1].uid = p => e \in Entries
    BY <1>3, <1>4 DEF Announced, FirstNews, Uids, Without, Queues, Waiting, Entries
  <2>4. OneShelf(p)' /\ (Shelved(p)' => Shelved(p))
    BY <2>1, <2>3, ShelvesShrink
  <2> QED  BY <2>4, <1>8 DEF Passes
<1>10. CASE Tame(r)
  <2>1. r.then = << >>
    BY <1>3, <1>10 DEF Tame, Plain
  <2>2. DOMAIN r.then = {}
    BY <2>1
  <2>3. AllTame(ops)
    BY <2>2, <1>6, <1>8 DEF AllTame, In
  <2>4. Indifferent(Arg(t)) /\ Arg(t).op # "done"
    BY <1>1, <1>3, <1>10 DEF Indifferent
  <2>5. \A p \in Pods : assumed'[p] \in {assumed[p], None}
    BY <1>3
  <2> QED  BY <2>3, <2>4, <2>5, <1>3, <1>4, <1>8, <1>9, QuietStep
<1>11. CASE ~Tame(r)
  <2>1. ~AllTame(todo[t])
    BY <1>1, <1>3, <1>11, FrontAndRest
  <2>2. Arg(t).op = "remove" /\ "loop" \in Tasks
    BY <1>1, <1>3 DEF Tasks
  <2>3. t # "loop"
    <3>1. LoopForm
      BY DEF Settled
    <3>2. t = "loop" => \A pod \in PodInfo, n \in Nodes :
             /\ todo["loop"] # << [op |-> "cycle", pod |-> pod] >>
             /\ todo["loop"] # << Reserve(pod.uid, n), Finished, Spawned(pod, n) >>
             /\ todo["loop"] # << Finished, Spawned(pod, n) >>
             /\ todo["loop"] # << Spawned(pod, n) >>
      BY <2>2 DEF Reserve, Finished, Spawned, Arg
    <3>3. t = "loop" => \A pod \in PodInfo : todo["loop"] # << [op |-> "cycle", pod |-> pod] >>
      BY <2>2 DEF Arg
    <3> QED  BY <2>1, <3>1, <3>2, <3>3 DEF LoopForm
  <2>4. t = "watch"
    BY <2>1, <2>2, <2>3, <1>3, TameAtTheFront
  <2>5. Allowed(r)
    BY <1>1, <1>3, <2>4, FrontAndRest DEF Settled, WatchForm
  <2>6. \A j \in DOMAIN r.then : r.then[j].op = "remove_pod" => Off(r.then[j].uid)
    BY <2>5, <1>3, <1>11 DEF Allowed
  <2>7. \A p \in Pods : (Informed(p)' <=> Informed(p)) /\ (ToldGone(p)' <=> ToldGone(p))
    BY <1>3 DEF Informed, ToldGone
  <2>8. \A p : /\ ~Gives(r, p) /\ ~Owns(r, p) /\ r # Returned(p)
               /\ \A i \in DOMAIN ops : ~Gives(ops[i], p)
    <3>1. \A p : ~Gives(r, p) /\ ~Owns(r, p) /\ r # Returned(p)
      BY <1>3 DEF Gives, Owns, Bearing, PodOps, Returned
    <3>2. \A e \in Endings : e.op # "add_pod"
      BY DEF Endings
    <3>3. \A j \in DOMAIN first : first[j].op # "add_pod"
      BY <1>6 DEF AllTame, Tame, Plain
    <3>4. \A x : In(x, ops) => x.op # "add_pod"
      BY <3>2, <3>3, <1>7, <1>8 DEF In
    <3>5. \A p : \A i \in DOMAIN ops : ~Gives(ops[i], p)
      BY <3>4 DEF Gives, In
    <3> QED  BY <3>1, <3>5
  <2>9. \A p \in Pods : /\ Confirming(p)' <=> Confirming(p)
                        /\ Leaving(p) => Leaving(p)'
                        /\ Reserved(p) => Reserved(p)'
    <3> SUFFICES ASSUME NEW p \in Pods
                 PROVE  /\ Confirming(p)' <=> Confirming(p)
                        /\ Leaving(p) => Leaving(p)'
                        /\ Reserved(p) => Reserved(p)'
      OBVIOUS
    <3>1. Takes(r, p) => \E i \in DOMAIN ops : Takes(ops[i], p)
      <4>1. Takes(r, p) => In(Returned(p), r.then)
        BY <2>8 DEF Takes, In
      <4>2. Takes(r, p) => In(Returned(p), ops)
        BY <4>1, <1>8
      <4> QED  BY <4>2 DEF In, Takes
    <3>2. /\ Confirming(p)' <=> Confirming(p)
          /\ Leaving(p) => Leaving(p)'
      BY <3>1, <2>7, <2>8, <1>1, <1>3, <1>4, <1>8, WhatFollows
    <3>3. Reserved(p) => Reserved(p)'
      BY <2>8, <1>1, <1>3, <1>4, <1>8, StillReserved
    <3> QED  BY <3>2, <3>3
  <2>10. \A p \in Pods : Off(p) => Off(p)'
    BY <2>9, <1>3 DEF Off
  <2>11. \A p \in Pods : Somewhere(p)' => Somewhere(p)
    BY <1>3, <1>4, <1>8, <1>9, Passed DEF Settled
  <2>12. \A p \in Pods : Account(p)'
    BY <2>9, <2>11, <1>3, AccountStays DEF Settled
  <2>13. Ordered'
    BY <1>3, OrderedStays DEF Settled
  <2>14. \A i \in DOMAIN ops : Allowed(ops[i])'
    <3> SUFFICES ASSUME NEW i \in DOMAIN ops PROVE Allowed(ops[i])'
      OBVIOUS
    <3>0. In(ops[i], first) \/ In(ops[i], r.then)
      BY <1>8 DEF In
    <3>1. CASE \E j \in DOMAIN first : ops[i] = first[j]
      BY <3>1, <1>6 DEF AllTame, Allowed
    <3>2. CASE \E j \in DOMAIN r.then : ops[i] = r.then[j]
      <4>1. PICK j \in DOMAIN r.then : ops[i] = r.then[j]
        BY <3>2
      <4>2. PICK e \in Endings : e = r.then[j]
        BY <4>1, <1>7
      <4>3. CASE e.op = "remove_pod"
        <5>1. e.uid \in Pods /\ Off(e.uid)
          BY <2>6, <4>1, <4>2, <4>3 DEF Endings
        <5> QED  BY <5>1, <4>1, <4>2, <4>3, <2>10 DEF Allowed
      <4>4. CASE e.op # "remove_pod"
        <5>1. Tame(e)
          BY <4>4 DEF Endings, Tame, Plain
        <5> QED  BY <5>1, <4>1, <4>2 DEF Allowed
      <4> QED  BY <4>3, <4>4
    <3> QED  BY <3>0, <3>1, <3>2 DEF In
  <2>15. t # "net" /\ t # "loop" /\ t \notin Binders
    BY <2>4, NamesAssumption
  <2>16. \A p \in Pods, u \in Tasks : u # t /\ Has(u, p) => pod_locations'[p] = pod_locations[p]
    BY <1>3
  <2>17. \A i \in DOMAIN ops : t = "watch" => Allowed(ops[i])'
    BY <2>14
  <2>18. /\ \A p \in Pods : Unseen(p)' => Unseen(p)
         /\ \A p \in Pods, n \in Nodes : pod_locations'[p] = n => Claims(p, n)
    BY <2>9, <1>3 DEF Unseen, Claims
  <2> QED  BY <2>10, <2>12, <2>13, <2>15, <2>16, <2>17, <2>18, <1>3, <1>4, <1>8, <1>9, TaskActs
<1> QED  BY <1>10, <1>11

\* The cache takes a pod in: one that found a node, or one that the watch was
\* told is bound.
LEMMA AddPodSettles ==
    ASSUME IInv, Settled, NEW t \in Tasks, AddPod(t), Clean'
    PROVE  Settles
<1>1. PICK r : r = Arg(t)
  OBVIOUS
<1>2. /\ Tasked /\ Api /\ Cached /\ todo[t] \in Seq(Regions) /\ todo[t] # << >>
      /\ r \in Regions /\ r.op = "add_pod" /\ Runs(t, << >>) /\ << >> \in Seq(Regions)
      /\ UNCHANGED <<apiVars, watchVars, api, pod_stream, mirror, active, unschedulable, backoff>>
      /\ assumed' = [assumed EXCEPT ![r.uid] = r.assumed]
  BY <1>1 DEF IInv, Shape, AddPod, At, Arg, Runs, Tasked, apiVars, watchVars, queueVars
<1>3. PICK q \in Pods : q = r.uid
  BY <1>2, RegionFields
<1>4. PICK n \in Nodes : n = r.node
  BY <1>2, RegionFields
<1>5. n \in nodes /\ pod_locations' = [pod_locations EXCEPT ![q] = n]
  BY <1>1, <1>3, <1>4 DEF AddPod, Clean, Parted
<1>6. /\ \A p \in Pods : p # q => /\ pod_locations'[p] = pod_locations[p]
                                  /\ assumed'[p] = assumed[p]
      /\ pod_locations'[q] = n /\ assumed'[q] = r.assumed
  BY <1>2, <1>3, <1>5 DEF Cached
<1>7. Ordered'
  BY <1>2, OrderedStays DEF Settled
<1>8. \A p \in Pods : Passes(t, << >>, p)
  BY <1>2, NoRegion, PassesOn DEF Settled
<1>9. \A p \in Pods : Somewhere(p)' => Somewhere(p)
  BY <1>2, <1>8, Passed DEF Settled
<1>10. \A p \in Pods : (Informed(p)' <=> Informed(p)) /\ (ToldGone(p)' <=> ToldGone(p))
  BY <1>2 DEF Informed, ToldGone
<1>11. \A p : /\ ~Owns(r, p) /\ ~Takes(r, p) /\ r # Returned(p)
              /\ Gives(r, p) => p = q
  BY <1>2, <1>3 DEF Gives, Takes, Owns, Bearing, PodOps, Returned
<1>12. \A p \in Pods : /\ p # q => (Confirming(p)' <=> Confirming(p))
                       /\ p # q => (Leaving(p) => Leaving(p)')
                       /\ Reserved(p) => Reserved(p)'
  <2> SUFFICES ASSUME NEW p \in Pods
               PROVE  /\ p # q => (Confirming(p)' <=> Confirming(p))
                      /\ p # q => (Leaving(p) => Leaving(p)')
                      /\ Reserved(p) => Reserved(p)'
    OBVIOUS
  <2>1. /\ ~Owns(Arg(t), p) /\ ~Takes(Arg(t), p) /\ Arg(t) # Returned(p)
        /\ p # q => ~Gives(Arg(t), p)
    BY <1>1, <1>11
  <2>2. \A i \in DOMAIN << >> : ~Gives(<< >>[i], p)
    OBVIOUS
  <2>3. p # q => /\ Confirming(p)' <=> Confirming(p)
                 /\ Leaving(p) => Leaving(p)'
    BY <2>1, <2>2, <1>2, <1>10, WhatFollows
  <2>4. Reserved(p) => Reserved(p)'
    BY <2>1, <1>2, StillReserved
  <2> QED  BY <2>3, <2>4
<1>13. \A p \in Pods : p # q => Account(p)'
  BY <1>2, <1>6, <1>9, <1>12, AccountStays DEF Settled
<1>14. ~AllTame(todo[t])
  <2>1. ~Tame(r)
    BY <1>2 DEF Tame, Plain
  <2> QED  BY <2>1, <1>1, <1>2, FrontAndRest
<1>15. /\ todo'[t] = Rest(t) /\ Rest(t) = Tail(todo[t])
       /\ \A u \in Tasks : u # t => todo'[u] = todo[u]
  <2>1. /\ todo'[t] = << >> \o Rest(t) /\ Rest(t) = Tail(todo[t]) /\ Rest(t) \in Seq(Regions)
        /\ \A u \in Tasks : u # t => todo'[u] = todo[u]
    BY <1>2, RunsIs DEF Rest
  <2> QED  BY <2>1
<1> HIDE DEF Settled
<1>16. t = "watch" \/ t = "loop"
  <2>1. t # "watch" /\ t # "loop" => AllTame(todo[t])
    BY <1>1, <1>2, TameAtTheFront
  <2> QED  BY <2>1, <1>14
<1>20. \A p \in Pods : Unseen(p)' => Unseen(p)
  <2>1. n # None
    BY NamesAssumption
  <2> QED  BY <2>1, <1>2, <1>6, <1>12 DEF Unseen
<1>21. Claims(q, n) => \A p \in Pods, m \in Nodes : pod_locations'[p] = m => Claims(p, m)
  <2>1. \A p \in Pods, m \in Nodes : p # q /\ pod_locations'[p] = m => Claims(p, m)
    BY <1>6 DEF Claims
  <2> QED  BY <2>1, <1>6
<1>17. CASE t = "watch"
  <2>1. n = api[q].node /\ assumed'[q] = None
    <3>1. Allowed(r)
      BY <1>1, <1>2, <1>17, FrontAndRest DEF Settled, WatchForm
    <3> QED  BY <3>1, <1>2, <1>3, <1>4, <1>6 DEF Allowed, Tame, Plain
  <2>2. n # None /\ Confirming(q)
    <3>1. Confirming(q)
      BY <1>1, <1>2, <1>3, <1>17, FrontAndRest DEF Confirming
    <3> QED  BY <3>1, NamesAssumption
  <2>3. Leaving(q) => Leaving(q)'
    <3>1. \A j \in DOMAIN todo["watch"] : Takes(todo["watch"][j], q)
             => \E i \in DOMAIN todo'["watch"] : todo'["watch"][i] = todo["watch"][j]
      <4>1. \A j \in DOMAIN todo[t] : \/ todo[t][j] = r
                                   \/ \E i \in DOMAIN todo'[t] : todo'[t][i] = todo[t][j]
        BY <1>1, <1>2, StillThere
      <4> QED  BY <4>1, <1>11, <1>17
    <3> QED  BY <3>1, <1>10 DEF Leaving, Takes
  <2>4. Account(q) /\ (Leaving(q) \/ api[q].state # "gone")
    BY <2>1, <2>2 DEF Settled, Account
  <2>5. Account(q)'
    <3>1. /\ api[q].node # None /\ api[q].state \in {"bound", "gone"} /\ ~Somewhere(q)
          /\ api[q].state = "gone" => Leaving(q)
      BY <2>1, <2>2, <2>4 DEF Settled, Account
    <3> QED  BY <3>1, <2>1, <2>2, <2>3, <1>2, <1>6, <1>9 DEF Account
  <2>6. \A p \in Pods : Off(p) => Off(p)'
    BY <2>2, <1>2, <1>12 DEF Off
  <2>7. \A p \in Pods, u \in Tasks : u # t /\ Has(u, p) => pod_locations'[p] = pod_locations[p]
    BY <2>1, <2>2, <1>6 DEF Settled, Account, Somewhere
  <2>8. t # "loop" /\ t \notin Binders /\ t # "net"
    BY <1>17, NamesAssumption
  <2>9. \A i \in DOMAIN << >> : t = "watch" => Allowed(<< >>[i])'
    OBVIOUS
  <2>10. Claims(q, n)
    <3>1. pod_locations[q] = None \/ pod_locations[q] = n
      BY <2>1, <2>2 DEF Settled, Account
    <3>2. CASE pod_locations[q] = None
      <4>1. Unseen(q)
        BY <3>2, <2>1, <2>2 DEF Unseen
      <4> QED  BY <4>1, <2>1 DEF Claims
    <3> QED  BY <3>1, <3>2 DEF Claims
  <2> QED  BY <2>5, <2>6, <2>7, <2>8, <2>9, <2>10, <1>2, <1>7, <1>8, <1>13, <1>20, <1>21,
              TaskActs
<1>18. CASE t = "loop"
  <2>1. PICK pod \in PodInfo, m \in Nodes :
              todo["loop"] = << Reserve(pod.uid, m), Finished, Spawned(pod, m) >>
    <3>1. \A pod \in PodInfo, m \in Nodes :
             /\ todo["loop"] # << [op |-> "cycle", pod |-> pod] >>
             /\ todo["loop"] # << Finished, Spawned(pod, m) >>
             /\ todo["loop"] # << Spawned(pod, m) >>
      BY <1>1, <1>2, <1>18 DEF Finished, Spawned, Arg
    <3>2. \A pod \in PodInfo : todo["loop"] # << [op |-> "cycle", pod |-> pod] >>
      BY <1>1, <1>2, <1>18 DEF Arg
    <3>3. LoopForm /\ ~AllTame(todo["loop"])
      BY <1>14, <1>18 DEF Settled
    <3> QED  BY <3>1, <3>2, <3>3 DEF LoopForm
  <2>2. r = Reserve(pod.uid, m)
    BY <2>1, <1>1, <1>18 DEF Arg
  <2>3. pod.uid = q /\ m = n /\ r.assumed = n
    BY <2>2, <1>3, <1>4 DEF Reserve
  <2>4. todo'["loop"] = << Finished, Spawned(pod, n) >>
    <3>1. \A a, b, c : Tail(<< a, b, c >>) = << b, c >>
      OBVIOUS
    <3>2. todo'["loop"] = Tail(todo["loop"])
      BY <1>15, <1>18
    <3> QED  BY ONLY <3>1, <3>2, <2>1, <2>3
  <2>5. LoopForm'
    BY <2>3, <2>4, <1>6 DEF LoopForm
  <2>6. Has("loop", q) /\ Reserved(q)'
    <3>1. 3 \in DOMAIN todo["loop"] /\ todo["loop"][3] = Spawned(pod, m)
      BY <2>1
    <3>2. 2 \in DOMAIN todo'["loop"] /\ todo'["loop"][2] = Spawned(pod, n)
      BY <2>4
    <3>3. Owns(Spawned(pod, m), q)
      BY <2>3 DEF Owns, Spawned, Bearing
    <3>4. Spawned(pod, n).op = "spawn" /\ Spawned(pod, n).pod.uid = q
      BY <2>3 DEF Spawned
    <3> QED  BY <3>1, <3>2, <3>3, <3>4 DEF Has, Bears, Reserved
  <2>7. "loop" \in Tasks /\ Somewhere(q)
    BY <2>6 DEF Tasks, Somewhere
  <2>8. api[q].node = None /\ api[q].state # "none"
    BY <2>7 DEF Settled, Account
  <2>9. Account(q)'
    BY <2>3, <2>6, <2>8, <1>2, <1>6, NamesAssumption DEF Account, Api
  <2>10. \A p \in Pods : Off(p) => Off(p)'
    BY <2>8, <1>2, <1>12 DEF Off
  <2>11. \A p \in Pods, u \in Tasks : u # t /\ Has(u, p) => pod_locations'[p] = pod_locations[p]
    BY <2>6, <2>7, <1>6, <1>18 DEF Settled, Alone
  <2>12. t # "watch" /\ t \notin Binders /\ t # "net"
    BY <1>18, NamesAssumption
  <2>13. \A i \in DOMAIN << >> : t = "watch" => Allowed(<< >>[i])'
    OBVIOUS
  <2>14. Claims(q, n)
    <3>1. 1 \in DOMAIN todo["loop"] /\ todo["loop"][1] = Reserve(q, n)
      BY <2>1, <2>3
    <3> QED  BY <3>1 DEF Claims, Sits
  <2> QED  BY <2>5, <2>9, <2>10, <2>11, <2>12, <2>13, <2>14, <1>2, <1>7, <1>8, <1>13, <1>20,
              <1>21, AllTameEmpty, TaskActs
<1> QED  BY <1>16, <1>17, <1>18

-----------------------------------------------------------------------------
(* Binding cycles *)

\* Who holds the pod that a binding cycle is about to give back.
LEMMA GivenBack ==
    ASSUME Tasked, Settled, NEW b \in Binders, NEW p \in Pods, Sits(b, Returned(p))
    PROVE  api[p].node = None /\ (Somewhere(p) => Has(b, p))
<1>1. todo[b] \in Seq(Regions) /\ b \in Tasks
  BY DEF Tasked, Tasks
<1>2. ~Tame(Returned(p))
  BY DEF Tame, Plain, Returned
<1>3. ~AllTame(todo[b])
  BY <1>2 DEF AllTame, Sits
<1>4. ASSUME NEW pod \in PodInfo, NEW n \in Nodes, todo[b] = << Asked(pod, n) >>
      PROVE  FALSE
  <2>1. DOMAIN todo[b] = {1} /\ todo[b][1] = Asked(pod, n)
    BY <1>4
  <2>2. Asked(pod, n) # Returned(p)
    BY DEF Asked, Returned
  <2> QED  BY <2>1, <2>2 DEF Sits
<1>5. BinderForm(b)
  BY DEF Settled
<1>6. PICK q \in Pods :
         /\ todo[b] # << >> /\ Head(todo[b]) = Returned(q) /\ AllTame(Tail(todo[b]))
         /\ api[q].node = None /\ api[q].state # "none" /\ (Somewhere(q) => Has(b, q))
  BY <1>3, <1>4, <1>5 DEF BinderForm
<1>7. \A i \in DOMAIN todo[b] : i = 1 \/ Tame(todo[b][i])
  <2>1. Rest(b) = Tail(todo[b])
    BY <1>6 DEF Rest
  <2>2. AllTame(Rest(b))
    BY <2>1, <1>6
  <2> QED  BY <2>2, <1>1, FrontAndRest DEF AllTame
<1>8. todo[b][1] = Returned(q)
  BY <1>1, <1>6
<1>9. Returned(p) = Returned(q)
  BY <1>2, <1>7, <1>8 DEF Sits
<1>10. p = q
  BY <1>9 DEF Returned
<1> QED  BY <1>6, <1>10

\* A binding cycle that has its answer still to come.
LEMMA AtTheServer ==
    ASSUME IInv, Settled, NEW b \in Binders, At(b, "bind")
    PROVE  \E pod \in PodInfo, n \in Nodes :
              /\ todo[b] = << Asked(pod, n) >> /\ Rest(b) = << >> /\ Arg(b) = Asked(pod, n)
              /\ pod_locations[pod.uid] = n /\ pod.uid \in Pods
              /\ \A p : AtHand(b, p) <=> p = pod.uid
              /\ Has(b, pod.uid) /\ Somewhere(pod.uid)
              /\ api[pod.uid].node = None /\ api[pod.uid].state # "none"
<1>1. todo[b] # << >> /\ Arg(b).op = "bind" /\ Tasked /\ b \in Tasks
  BY DEF At, Arg, IInv, Shape, Tasks
<1>2. ~AllTame(todo[b])
  <2>1. ~Tame(Arg(b))
    BY <1>1 DEF Tame, Plain
  <2> QED  BY <2>1, <1>1, FrontAndRest
<1>3. \A p : Head(todo[b]) # Returned(p)
  BY <1>1 DEF Returned, Arg
<1>4. PICK pod \in PodInfo, n \in Nodes :
            todo[b] = << Asked(pod, n) >> /\ pod_locations[pod.uid] = n
  BY <1>2, <1>3 DEF Settled, BinderForm
<1>5. Rest(b) = << >> /\ Arg(b) = Asked(pod, n) /\ pod.uid \in Pods
  BY <1>4 DEF Rest, Arg, PodInfo
<1>6. \A p : AtHand(b, p) <=> p = pod.uid
  BY <1>1, <1>5 DEF AtHand, Owns, Asked, Bearing
<1>7. Has(b, pod.uid) /\ Somewhere(pod.uid)
  BY <1>1, <1>6, FrontAndRest DEF Somewhere
<1>8. api[pod.uid].node = None /\ api[pod.uid].state # "none"
  BY <1>5, <1>7 DEF Settled, Account
<1> QED  BY <1>4, <1>5, <1>6, <1>7, <1>8

\* A binding cycle that failed: the pod's place is given back first.
LEMMA GivesBack ==
    ASSUME IInv, Settled, NEW b \in Binders, At(b, "bind"),
           NEW rest \in Seq(Regions), AllTame(rest),
           \A p : Once(rest, p) /\ (Bears(rest, p) => p = Arg(b).pod.uid),
           NEW ops, ops = << Returned(Arg(b).pod.uid) >> \o rest, Goto(b, ops),
           UNCHANGED <<apiVars, watchVars, active, unschedulable, backoff>>,
           UNCHANGED <<pod_locations, assumed>>
    PROVE  Settles
<1>1. PICK pod \in PodInfo, n \in Nodes :
         /\ todo[b] = << Asked(pod, n) >> /\ Rest(b) = << >> /\ Arg(b) = Asked(pod, n)
         /\ pod_locations[pod.uid] = n /\ pod.uid \in Pods
         /\ \A p : AtHand(b, p) <=> p = pod.uid
         /\ Has(b, pod.uid) /\ Somewhere(pod.uid)
         /\ api[pod.uid].node = None /\ api[pod.uid].state # "none"
  BY AtTheServer
<1>2. PICK q \in Pods : q = pod.uid /\ q = Arg(b).pod.uid
  BY <1>1 DEF Asked
<1>3. /\ Tasked /\ b \in Tasks /\ todo[b] # << >> /\ Runs(b, ops)
      /\ UNCHANGED <<api, pod_stream, mirror>>
      /\ \A p : ~Gives(Arg(b), p) /\ ~Takes(Arg(b), p) /\ Arg(b) # Returned(p)
  BY <1>1 DEF IInv, Shape, Tasks, Runs, apiVars, watchVars, Asked, Gives, Takes, Returned
<1>4. PICK first : first = << Returned(q) >>
  OBVIOUS
<1>5. /\ first \in Seq(Regions) /\ ops = first \o rest
      /\ \A p : Once(first, p) /\ ~Bears(first, p)
  <2>1. Returned(q) \in Regions /\ \A p : ~Owns(Returned(q), p)
    BY DEF Returned, Regions, Endings, Owns, Bearing, PodOps
  <2> QED  BY <2>1, <1>2, <1>4, OneRegion
<1>6. /\ ops \in Seq(Regions)
      /\ \A p : Once(ops, p) /\ (Bears(ops, p) <=> Bears(rest, p))
  <2>1. PICK all : all = first \o rest
    OBVIOUS
  <2>2. first \in Seq(Regions) /\ rest \in Seq(Regions)
    BY <1>5
  <2>3. all \in Seq(Regions)
    BY ONLY <2>1, <2>2
  <2>4. \A p : /\ Bears(all, p) <=> Bears(rest, p)
               /\ Once(all, p)
    BY <2>1, <1>5, JoinedRegions
  <2>5. all = ops
    BY <2>1, <1>5
  <2> QED  BY <2>3, <2>4, <2>5
<1>7. \A p \in Pods : Passes(b, ops, p)
  BY <1>1, <1>2, <1>3, <1>6, PassesOn DEF Settled
<1>8. todo'[b] = ops
  <2>1. todo'[b] = ops \o << >>
    BY <1>1, <1>3, <1>6, RunsIs
  <2> QED  BY <2>1, <1>6
<1>9. ops # << >> /\ Head(ops) = Returned(q) /\ Tail(ops) = rest
  BY <1>4, <1>5
<1>10. \A p \in Pods : /\ Alone(p)' /\ (Somewhere(p)' => Somewhere(p))
                       /\ \A u \in Tasks : u # b => (Has(u, p)' <=> Has(u, p))
  BY <1>3, <1>6, <1>7, Passed DEF Settled
<1>11. Somewhere(q)' => Has(b, q)'
  <2>1. ~Shelved(q) /\ \A u \in Tasks : u # b => ~Has(u, q)
    BY <1>1, <1>2, <1>3 DEF Settled, Alone
  <2>2. ~Shelved(q)'
    BY <2>1, <1>3, ShelvesStay
  <2> QED  BY <2>1, <2>2, <1>10 DEF Somewhere
<1>12. BinderForm(b)'
  <2>1. /\ todo'[b] # << >> /\ Head(todo'[b]) = Returned(q) /\ AllTame(Tail(todo'[b]))
        /\ api'[q].node = None /\ api'[q].state # "none" /\ (Somewhere(q)' => Has(b, q)')
    BY <1>1, <1>2, <1>3, <1>8, <1>9, <1>11
  <2> QED  BY <2>1 DEF BinderForm
<1>13. b # "watch" /\ b # "loop" /\ b # "net"
  BY NamesAssumption
<1>14. \A p \in Pods : (Informed(p)' <=> Informed(p)) /\ (ToldGone(p)' <=> ToldGone(p))
  BY <1>3 DEF Informed, ToldGone
<1>15. \A p \in Pods : /\ Confirming(p)' <=> Confirming(p)
                       /\ Leaving(p) => Leaving(p)'
  BY <1>3, <1>6, <1>13, <1>14, WhatFollows
<1>16. \A p \in Pods : Reserved(p) => Reserved(p)'
  <2>1. ASSUME NEW p \in Pods, p # q, Reserved(p) PROVE Reserved(p)'
    <3>1. ~Owns(Arg(b), p) /\ Arg(b) # Returned(p)
      BY <2>1, <1>1, <1>2, <1>3 DEF AtHand
    <3> QED  BY <3>1, <2>1, <1>3, <1>6, StillReserved
  <2>2. Reserved(q)'
    <3>1. 1 \in DOMAIN ops /\ ops[1] = Returned(q)
      BY <1>6, <1>9
    <3> QED  BY <3>1, <1>8 DEF Reserved
  <2> QED  BY <2>1, <2>2
<1>17. \A p \in Pods : Account(p)'
  BY <1>3, <1>10, <1>15, <1>16, AccountStays DEF Settled
<1>18. \A p \in Pods : Off(p) => Off(p)'
  BY <1>3, <1>15 DEF Off
<1>19. Ordered'
  BY <1>3, OrderedStays DEF Settled
<1>20. /\ \A p \in Pods : Unseen(p)' => Unseen(p)
       /\ \A p \in Pods, m \in Nodes : pod_locations'[p] = m => Claims(p, m)
  BY <1>3, <1>15 DEF Unseen, Claims
<1> QED  BY <1>3, <1>6, <1>7, <1>12, <1>13, <1>17, <1>18, <1>19, <1>20, TaskActs

LEMMA BindRefusedSettles ==
    ASSUME IInv, Settled, NEW b \in Binders,
           BindRefused(b) \/ BindFails(b) \/ PreBindRejects(b)
    PROVE  Settles
<1>1. At(b, "bind")
  BY DEF BindRefused, BindFails, PreBindRejects
<1>2. PICK pod \in PodInfo, n \in Nodes :
         /\ Arg(b) = Asked(pod, n) /\ pod.uid \in Pods
         /\ api[pod.uid].node = None /\ api[pod.uid].state # "none"
  BY <1>1, AtTheServer
<1>3. /\ Arg(b).pod = pod /\ api[pod.uid].state # "bound"
      /\ UNCHANGED <<apiVars, watchVars, active, unschedulable, backoff>>
      /\ UNCHANGED <<pod_locations, assumed>>
  BY <1>2 DEF Asked, BindRefused, BindFails, PreBindRejects, queueVars, cacheVars,
              IInv, Shape, Api
<1>4. PICK first, a1, a2, a3, m :
         /\ first = << Returned(pod.uid) >> /\ a1 = remove(pod.uid) /\ a2 = retry(pod)
         /\ a3 = park(pod, {"VolumeBinding"}) /\ m = move_all("PodDeleted")
  OBVIOUS
<1>5. release(pod.uid) = first
  BY <1>4 DEF release, Returned
<1>6. /\ Cancelled(pod) = (first \o a1) \o m
      /\ Failed(pod) = (first \o a2) \o m
      /\ Rejected(pod) = (first \o a3) \o m
  BY <1>4, <1>5 DEF Cancelled, Failed, Rejected
<1>7. PICK a \in {a1, a2, a3} : Goto(b, (first \o a) \o m)
  <2>1. BindRefused(b) => Goto(b, Cancelled(pod)) \/ Goto(b, Failed(pod))
    BY <1>3 DEF BindRefused
  <2>2. BindFails(b) => Goto(b, Failed(pod))
    BY <1>3 DEF BindFails
  <2>3. PreBindRejects(b) => Goto(b, Rejected(pod))
    BY <1>3 DEF PreBindRejects
  <2> QED  BY <2>1, <2>2, <2>3, <1>6 DEF Goto
<1>8. /\ a \in Seq(Regions) /\ AllTame(a)
      /\ \A p : Once(a, p) /\ (Bears(a, p) => p = pod.uid)
  <2>1. CASE a = a1
    <3>1. [op |-> "remove", uid |-> pod.uid, then |-> << >>] \in Regions
      <4>1. << >> \in Seq(Endings)
        OBVIOUS
      <4> QED  BY <4>1, <1>2 DEF Regions
    <3>2. /\ Tame([op |-> "remove", uid |-> pod.uid, then |-> << >>])
          /\ \A p : ~Owns([op |-> "remove", uid |-> pod.uid, then |-> << >>], p)
      BY DEF Tame, Owns, Bearing, PodOps
    <3>3. a = << [op |-> "remove", uid |-> pod.uid, then |-> << >>] >>
      BY <2>1, <1>4 DEF remove, dequeue
    <3> QED  BY <3>1, <3>2, <3>3, OneRegion
  <2>2. CASE a = a2
    BY <2>2, <1>4, Queueing
  <2>3. CASE a = a3
    <3>1. {"VolumeBinding"} \in SUBSET Plugins
      BY DEF Plugins
    <3> QED  BY <2>3, <3>1, <1>4, Queueing
  <2> QED  BY <2>1, <2>2, <2>3
<1>9. /\ m \in Seq(Regions) /\ AllTame(m)
      /\ \A p : Once(m, p) /\ ~Bears(m, p)
  <2>1. "PodDeleted" \in Signals
    BY DEF Signals
  <2> QED  BY <2>1, <1>4, Signalling
<1>10. PICK rest : rest = a \o m
  OBVIOUS
<1>11. /\ rest \in Seq(Regions) /\ AllTame(rest)
       /\ \A p : Once(rest, p) /\ (Bears(rest, p) => p = pod.uid)
  <2>1. rest \in Seq(Regions)
    BY <1>8, <1>9, <1>10
  <2> QED  BY <2>1, <1>8, <1>9, <1>10, JoinedRegions
<1>12. (first \o a) \o m = first \o rest
  <2>1. first \in Seq(Regions)
    <3>1. Returned(pod.uid) \in Regions
      BY <1>2 DEF Returned, Regions, Endings
    <3> QED  BY <3>1, <1>4
  <2>2. a \in Seq(Regions) /\ m \in Seq(Regions)
    BY <1>8, <1>9
  <2> QED  BY ONLY <2>1, <2>2, <1>10, ConcatAssociative
<1>13. PICK ops : ops = first \o rest /\ Goto(b, ops)
  BY <1>7, <1>12
<1> QED  BY <1>1, <1>3, <1>4, <1>11, <1>13, GivesBack

\* The loop hands the pod to a binding cycle.
LEMMA SpawnSettles ==
    ASSUME IInv, Settled, Spawn
    PROVE  Settles
<1>1. /\ At("loop", "spawn") /\ Tasked /\ "loop" \in Tasks /\ "watch" \in Tasks /\ "net" \in Tasks
      /\ UNCHANGED <<apiVars, watchVars, api, pod_stream, mirror, active, unschedulable, backoff>>
      /\ UNCHANGED <<pod_locations, assumed>>
  BY DEF Spawn, IInv, Shape, Tasks, apiVars, watchVars, queueVars, cacheVars
<1>2. todo["loop"] # << >> /\ Arg("loop").op = "spawn"
  BY <1>1 DEF At, Arg
<1>3. PICK pod \in PodInfo, n \in Nodes :
         todo["loop"] = << Spawned(pod, n) >> /\ pod_locations[pod.uid] = n
  <2>1. ~AllTame(todo["loop"])
    <3>1. ~Tame(Arg("loop"))
      BY <1>2 DEF Tame, Plain
    <3> QED  BY <3>1, <1>1, <1>2, FrontAndRest
  <2>2. \A q \in PodInfo, m \in Nodes :
           /\ todo["loop"] # << Reserve(q.uid, m), Finished, Spawned(q, m) >>
           /\ todo["loop"] # << Finished, Spawned(q, m) >>
    BY <1>2 DEF Reserve, Finished, Arg
  <2>3. \A q \in PodInfo : todo["loop"] # << [op |-> "cycle", pod |-> q] >>
    BY <1>2 DEF Arg
  <2> QED  BY <2>1, <2>2, <2>3 DEF Settled, LoopForm
<1>4. Arg("loop") = Spawned(pod, n) /\ pod.uid \in Pods /\ Tail(todo["loop"]) = << >>
  BY <1>3 DEF Arg, PodInfo
<1>5. PICK q \in Pods : q = pod.uid
  BY <1>4
<1>6. PICK b \in Binders :
         /\ todo[b] = << >>
         /\ todo' = [todo EXCEPT !["loop"] = << >>, ![b] = << Asked(pod, n) >>]
  <2>1. PICK b \in Binders : b = (CHOOSE c \in Binders : todo[c] = << >>) /\ todo[b] = << >>
    BY DEF Spawn
  <2>2. todo' = [todo EXCEPT !["loop"] = Tail(@),
                   ![b] = << [op |-> "bind", pod |-> Arg("loop").pod, node |-> Arg("loop").node] >>]
    BY <2>1 DEF Spawn
  <2>3. Arg("loop").pod = pod /\ Arg("loop").node = n
    BY <1>4 DEF Spawned
  <2> QED  BY <2>1, <2>2, <2>3, <1>4 DEF Asked
<1>7. b \in Tasks /\ b # "loop" /\ b # "watch" /\ b # "net"
  BY NamesAssumption DEF Tasks
<1>8. /\ todo'["loop"] = << >> /\ todo'[b] = << Asked(pod, n) >>
      /\ \A u \in Tasks : u # "loop" /\ u # b => todo'[u] = todo[u]
      /\ todo' \in [Tasks -> Seq(Regions)]
  <2>1. Asked(pod, n) \in Regions
    BY DEF Asked, Regions
  <2>2. PICK x : x = << Asked(pod, n) >>
    OBVIOUS
  <2>3. x \in Seq(Regions) /\ << >> \in Seq(Regions)
    BY <2>1, <2>2
  <2>4. todo \in [Tasks -> Seq(Regions)] /\ todo' = [todo EXCEPT !["loop"] = << >>, ![b] = x]
    BY <2>2, <1>1, <1>6 DEF Tasked
  <2>5. /\ todo'["loop"] = << >> /\ todo'[b] = x
        /\ \A u \in Tasks : u # "loop" /\ u # b => todo'[u] = todo[u]
    BY <2>4, <1>1, <1>7
  <2>6. todo' \in [Tasks -> Seq(Regions)]
    BY <2>3, <2>4
  <2> QED  BY <2>2, <2>5, <2>6
<1>9. \A p : /\ ~Has(b, p) /\ (Has("loop", p) <=> p = q)
             /\ ~Has("loop", p)' /\ (Has(b, p)' <=> p = q)
             /\ \A u \in Tasks : u # "loop" /\ u # b => (Has(u, p)' <=> Has(u, p))
  <2>1. \A p : (Owns(Asked(pod, n), p) <=> p = q) /\ (Owns(Spawned(pod, n), p) <=> p = q)
    BY <1>5 DEF Owns, Asked, Spawned, Bearing
  <2>2. \A p : (Bears(<< Asked(pod, n) >>, p) <=> p = q)
               /\ (Bears(<< Spawned(pod, n) >>, p) <=> p = q) /\ ~Bears(<< >>, p)
    BY <2>1 DEF Bears
  <2> QED  BY <2>2, <1>3, <1>6, <1>8 DEF Has
<1>10. \A p : Shelved(p)' <=> Shelved(p)
  BY <1>1, ShelvesStay
<1>11. \A p \in Pods : Alone(p)'
  <2> SUFFICES ASSUME NEW p \in Pods PROVE Alone(p)'
    OBVIOUS
  <2>1. Alone(p)
    BY DEF Settled
  <2>2. OneShelf(p)'
    BY <2>1, <1>1, ShelvesStay DEF Alone
  <2>3. \A t \in Tasks : Once(todo[t], p)'
    <3>1. Once(<< >>, p) /\ Once(<< Asked(pod, n) >>, p)
      BY DEF Once
    <3> QED  BY <3>1, <2>1, <1>8 DEF Alone, Once
  <2>4. \A t \in Tasks : Has(t, p)' => ~Shelved(p)'
    BY <2>1, <1>1, <1>9, <1>10 DEF Alone
  <2>5. \A t, u \in Tasks : Has(t, p)' /\ Has(u, p)' => t = u
    BY <2>1, <1>1, <1>7, <1>9 DEF Alone
  <2> QED  BY <2>2, <2>3, <2>4, <2>5 DEF Alone
<1>12. \A p : Somewhere(p)' => Somewhere(p)
  BY <1>1, <1>9, <1>10 DEF Somewhere
<1>13. \A p : /\ Confirming(p)' <=> Confirming(p)
              /\ Leaving(p) => Leaving(p)'
  BY <1>1, <1>7, <1>8 DEF Confirming, Leaving, Informed, ToldGone
<1>14. \A p \in Pods : Reserved(p) => Reserved(p)'
  <2> SUFFICES ASSUME NEW p \in Pods, Reserved(p) PROVE Reserved(p)'
    OBVIOUS
  <2>1. CASE p = q
    <3>1. 1 \in DOMAIN todo'[b] /\ todo'[b][1].op = "bind" /\ todo'[b][1].pod.uid = p
      BY <2>1, <1>5, <1>8 DEF Asked
    <3> QED  BY <3>1 DEF Reserved
  <2>2. CASE p # q
    <3>1. ~\E i \in DOMAIN todo["loop"] : todo["loop"][i].op = "spawn" /\ todo["loop"][i].pod.uid = p
      BY <2>2, <1>3, <1>5 DEF Spawned
    <3>2. PICK c \in Binders : \E i \in DOMAIN todo[c] :
             \/ todo[c][i].op = "bind" /\ todo[c][i].pod.uid = p
             \/ todo[c][i] = Returned(p)
      BY <3>1 DEF Reserved
    <3>3. c # b /\ c # "loop" /\ c \in Tasks
      BY <3>2, <1>6, NamesAssumption DEF Tasks
    <3>4. todo'[c] = todo[c]
      BY <3>3, <1>8
    <3> QED  BY <3>2, <3>4 DEF Reserved, Returned
  <2> QED  BY <2>1, <2>2
<1>15. \A p \in Pods : Account(p)'
  BY <1>1, <1>12, <1>13, <1>14, AccountStays DEF Settled
<1>16. Ordered'
  BY <1>1, OrderedStays DEF Settled
<1>17. LoopForm' /\ AllTame(todo["net"])'
  BY <1>1, <1>7, <1>8, AllTameEmpty DEF LoopForm, Settled
<1>18. \A c \in Binders : BinderForm(c)'
  <2> SUFFICES ASSUME NEW c \in Binders PROVE BinderForm(c)'
    OBVIOUS
  <2>1. CASE c = b
    BY <2>1, <1>1, <1>3, <1>8 DEF BinderForm
  <2>2. CASE c # b
    <3>1. c \in Tasks /\ c # "loop" /\ BinderForm(c)
      BY NamesAssumption DEF Settled, Tasks
    <3>2. todo'[c] = todo[c]
      BY <2>2, <3>1, <1>8
    <3>3. \A p \in Pods : pod_locations'[p] = pod_locations[p] /\ api'[p].node = api[p].node
                            /\ api'[p].state = api[p].state
      BY <1>1
    <3> QED  BY <3>1, <3>2, <3>3, <1>1, <1>12, BinderStays
  <2> QED  BY <2>1, <2>2
<1>19. WatchForm'
  <2>1. \A p : Off(p)' <=> Off(p)
    BY <1>1, <1>13 DEF Off
  <2>2. todo'["watch"] = todo["watch"]
    BY <1>1, <1>7, <1>8
  <2>3. \A r : Allowed(r)' <=> Allowed(r)
    BY <2>1, <1>1 DEF Allowed
  <2>4. \A i \in DOMAIN todo["watch"] : Allowed(todo["watch"][i])
    BY DEF Settled, WatchForm
  <2>5. PICK w : w = todo["watch"] /\ w = todo'["watch"]
    BY <2>2
  <2>6. \A i \in DOMAIN w : Allowed(w[i])'
    BY <2>3, <2>4, <2>5
  <2> QED  BY <2>5, <2>6 DEF WatchForm, Allowed
<1>20. Settled'
  BY <1>11, <1>15, <1>16, <1>17, <1>18, <1>19 DEF Settled
<1>21. \A p \in Pods : Unseen(p)' => Unseen(p) /\ api'[p].node = api[p].node
  BY <1>1, <1>13 DEF Unseen
<1>22. \A p \in Pods, m \in Nodes : Claims(p, m)' => Claims(p, m)
  <2>1. \A p, m : ~Sits("loop", Reserve(p, m))'
    BY <1>8 DEF Sits
  <2> QED  BY <2>1, <1>1, <1>21 DEF Claims
<1> QED  BY <1>12, <1>20, <1>21, <1>22 DEF Settles, Follows

-----------------------------------------------------------------------------
(* The API server *)

\* the first that is heard of p
NewTo(ev, p) == /\ NewPod(ev, p) /\ mirror[p] = None
                /\ \A k \in DOMAIN pod_stream : ~NewsOf(pod_stream[k], p)

\* The stream with one more event at its end.
LEMMA StreamGrows ==
    ASSUME Api, NEW ev \in News, pod_stream' = Append(pod_stream, ev), UNCHANGED mirror,
           NEW p
    PROVE  /\ Informed(p)' <=> Informed(p) \/ Confirms(ev, p)
           /\ ToldGone(p)' <=> ToldGone(p) \/ (ev.type = "Delete" /\ ev.uid = p)
           /\ Announced(p)' <=> Announced(p) \/ NewTo(ev, p)
           /\ UNCHANGED <<active, unschedulable, backoff>> /\ OneShelf(p)
                 /\ (NewTo(ev, p) => ~Shelved(p))
              => OneShelf(p)' /\ (Shelved(p)' <=> Shelved(p) \/ NewTo(ev, p))
<1>0. PICK n : n = Len(pod_stream)
  OBVIOUS
<1>1. /\ n \in Nat /\ DOMAIN pod_stream = 1 .. n
      /\ DOMAIN pod_stream' = 1 .. (n + 1) /\ pod_stream'[n + 1] = ev
      /\ \A k \in 1 .. n : pod_stream'[k] = pod_stream[k]
  <2>1. pod_stream \in Seq(PodEvents) /\ ev \in PodEvents
    BY DEF Api, PodEvents
  <2> QED  BY <2>1, <1>0
<1>2. /\ \A k \in DOMAIN pod_stream' : (k = n + 1 /\ pod_stream'[k] = ev)
            \/ (k \in DOMAIN pod_stream /\ pod_stream'[k] = pod_stream[k])
      /\ \A k \in DOMAIN pod_stream : k \in DOMAIN pod_stream' /\ pod_stream'[k] = pod_stream[k]
      /\ n + 1 \in DOMAIN pod_stream' /\ pod_stream'[n + 1] = ev
  BY <1>1
<1>3. Informed(p)' <=> Informed(p) \/ Confirms(ev, p)
  BY <1>2 DEF Informed
<1>4. ToldGone(p)' <=> ToldGone(p) \/ (ev.type = "Delete" /\ ev.uid = p)
  BY <1>2 DEF ToldGone
<1>5. Announced(p)' <=> Announced(p) \/ NewTo(ev, p)
  <2>1. \A k \in 1 .. n : FirstNews(k, p)' <=> FirstNews(k, p)
    <3> TAKE k \in 1 .. n
    <3>1. \A j \in 1 .. (k - 1) : j \in 1 .. n
      BY <1>1
    <3>2. NewPod(pod_stream'[k], p) <=> NewPod(pod_stream[k], p)
      BY <1>1
    <3>3. \A j \in 1 .. (k - 1) : NewsOf(pod_stream'[j], p) <=> NewsOf(pod_stream[j], p)
      BY <3>1, <1>1
    <3> QED  BY <3>2, <3>3 DEF FirstNews
  <2>2. FirstNews(n + 1, p)' /\ mirror[p] = None <=> NewTo(ev, p)
    <3>1. PICK m : m = n + 1 /\ m - 1 = n
      BY <1>1
    <3>2. FirstNews(n + 1, p)' <=> /\ NewPod(pod_stream'[n + 1], p)
                                  /\ \A j \in 1 .. n : ~NewsOf(pod_stream'[j], p)
      <4>1. FirstNews(m, p)' <=> /\ NewPod(pod_stream'[m], p)
                                 /\ \A j \in 1 .. (m - 1) : ~NewsOf(pod_stream'[j], p)
        BY DEF FirstNews
      <4> QED  BY <4>1, <3>1
    <3>3. \A j \in 1 .. n : NewsOf(pod_stream'[j], p) <=> NewsOf(pod_stream[j], p)
      BY <1>1
    <3> QED  BY <3>2, <3>3, <1>1 DEF NewTo
  <2>3. \A k : k \in DOMAIN pod_stream' <=> k \in 1 .. n \/ k = n + 1
    BY <1>1
  <2>4. Announced(p)' <=> mirror[p] = None /\ \E k \in DOMAIN pod_stream' : FirstNews(k, p)'
    BY DEF Announced
  <2> QED  BY <2>1, <2>2, <2>3, <2>4, <1>1 DEF Announced
<1>6. ASSUME UNCHANGED <<active, unschedulable, backoff>>, OneShelf(p),
             NewTo(ev, p) => ~Shelved(p)
      PROVE  OneShelf(p)' /\ (Shelved(p)' <=> Shelved(p) \/ NewTo(ev, p))
  <2>1. /\ Queued(p)' <=> Queued(p)
        /\ Uids(active)' = Uids(active) /\ Waiting' = Waiting /\ Entries' = Entries
    BY <1>6 DEF Queued, Waiting, Entries
  <2>2. Shelved(p)' <=> Shelved(p) \/ NewTo(ev, p)
    BY <2>1, <1>5 DEF Shelved
  <2>3. Announced(p)' => ~Queued(p)'
    BY <2>1, <1>5, <1>6 DEF OneShelf, Shelved
  <2>5. /\ p \in Uids(active) => p \notin Waiting /\ unschedulable[p] = None
        /\ p \in Waiting => unschedulable[p] = None
        /\ \A e, f \in Entries : e[1].uid = p /\ f[1].uid = p => e = f
    BY <1>6 DEF OneShelf
  <2>6. OneShelf(p)'
    BY <2>1, <2>3, <2>5, <1>6 DEF OneShelf
  <2> QED  BY <2>2, <2>6
<1> QED  BY <1>3, <1>4, <1>5, <1>6

\* What is told stays in order when a pod that is not gone is written.
LEMMA OrderGrows ==
    ASSUME IInv, Ordered, NEW ev \in News, NEW q \in Pods, q = ev.uid,
           pod_stream' = Append(pod_stream, ev), UNCHANGED <<node_stream, watchVars>>,
           \A p \in Pods : p # q => api'[p] = api[p],
           api[q].state # "gone", api[q].node # None => api'[q].node = api[q].node,
           api[q].state = "terminating" => api'[q].state \in {"terminating", "gone"},
           ev.node = api'[q].node, ev.state = api'[q].state,
           ev.type = "Delete" => api'[q].state = "gone"
    PROVE  Ordered'
<1> DEFINE n == Len(pod_stream)
<1>1. /\ n \in Nat /\ DOMAIN pod_stream = 1 .. n
      /\ DOMAIN pod_stream' = 1 .. (n + 1) /\ pod_stream'[n + 1] = ev
      /\ \A k \in 1 .. n : pod_stream'[k] = pod_stream[k] /\ pod_stream[k] \in PodEvents
  <2>1. pod_stream \in Seq(PodEvents) /\ ev \in PodEvents
    BY DEF IInv, Shape, Api, PodEvents
  <2> QED  BY <2>1
<1> HIDE DEF n
<1>2. UNCHANGED <<mirror, relisting, seen>>
  BY DEF watchVars
<1>3. ASSUME NEW k \in 1 .. n, NEW x, x = pod_stream[k]
      PROVE  /\ x.type = "Apply" /\ x.node # None => x.node = api'[x.uid].node
             /\ x.type = "Apply" /\ x.state = "terminating"
                  => api'[x.uid].state \in {"terminating", "gone"}
             /\ x.type = "Delete" =>
                   /\ api'[x.uid].state = "gone" /\ x.node = api'[x.uid].node
                   /\ \A j \in DOMAIN pod_stream' : j > k => ~NewsOf(pod_stream'[j], x.uid)
  <2>1. /\ x.type = "Apply" /\ x.node # None => x.node = api[x.uid].node
        /\ x.type = "Apply" /\ x.state = "terminating"
              => api[x.uid].state \in {"terminating", "gone"}
        /\ x.type = "Delete" =>
              /\ api[x.uid].state = "gone" /\ x.node = api[x.uid].node
              /\ \A j \in DOMAIN pod_stream : j > k => ~NewsOf(pod_stream[j], x.uid)
    BY <1>1, <1>3 DEF Ordered
  <2>2. x.type \in {"Apply", "Delete"} => x.uid \in Pods
    BY <1>1, <1>3 DEF PodEvents, News
  <2>3. x.type = "Apply" /\ x.state = "terminating"
          => api'[x.uid].state \in {"terminating", "gone"}
    BY <2>1, <2>2
  <2>4. x.type = "Apply" /\ x.node # None => x.node = api'[x.uid].node
    BY <2>1, <2>2
  <2>5. ASSUME x.type = "Delete"
        PROVE  /\ api'[x.uid].state = "gone" /\ x.node = api'[x.uid].node
               /\ \A j \in DOMAIN pod_stream' : j > k => ~NewsOf(pod_stream'[j], x.uid)
    <3>1. x.uid # q /\ x.uid \in Pods
      BY <2>1, <2>2, <2>5
    <3>2. ~NewsOf(ev, x.uid)
      BY <3>1 DEF NewsOf
    <3> QED  BY <3>1, <3>2, <2>1, <2>5, <1>1
  <2> QED  BY <2>3, <2>4, <2>5
<1>4. /\ ev.type = "Apply" /\ ev.node # None => ev.node = api'[ev.uid].node
      /\ ev.type = "Apply" /\ ev.state = "terminating"
            => api'[ev.uid].state \in {"terminating", "gone"}
      /\ ev.type = "Delete" =>
            /\ api'[ev.uid].state = "gone" /\ ev.node = api'[ev.uid].node
            /\ \A j \in DOMAIN pod_stream' : j > n + 1 => ~NewsOf(pod_stream'[j], ev.uid)
  <2>1. \A j \in DOMAIN pod_stream' : ~(j > n + 1)
    BY <1>1
  <2> QED  BY <2>1
<1>5. \A k \in DOMAIN pod_stream' : LET x == pod_stream'[k] IN
        /\ x.type = "Apply" /\ x.node # None => x.node = api'[x.uid].node
        /\ x.type = "Apply" /\ x.state = "terminating"
              => api'[x.uid].state \in {"terminating", "gone"}
        /\ x.type = "Delete" =>
              /\ api'[x.uid].state = "gone" /\ x.node = api'[x.uid].node
              /\ \A j \in DOMAIN pod_stream' : j > k => ~NewsOf(pod_stream'[j], x.uid)
  <2> SUFFICES ASSUME NEW k \in DOMAIN pod_stream'
               PROVE  LET x == pod_stream'[k] IN
                        /\ x.type = "Apply" /\ x.node # None => x.node = api'[x.uid].node
                        /\ x.type = "Apply" /\ x.state = "terminating"
                              => api'[x.uid].state \in {"terminating", "gone"}
                        /\ x.type = "Delete" =>
                              /\ api'[x.uid].state = "gone" /\ x.node = api'[x.uid].node
                              /\ \A j \in DOMAIN pod_stream' : j > k => ~NewsOf(pod_stream'[j], x.uid)
    OBVIOUS
  <2>1. CASE k = n + 1
    BY <2>1, <1>1, <1>4
  <2>2. CASE k \in 1 .. n
    BY <2>2, <1>1, <1>3
  <2> QED  BY <2>1, <2>2, <1>1
<1>6. IsAt(1, "Init")' => IsAt(1, "Init")
  BY <1>1 DEF IsAt, News
<1>7. ASSUME NEW p \in Pods, api'[p].state = "pending", mirror'[p] = None
      PROVE  \E k \in DOMAIN pod_stream' : NewsOf(pod_stream'[k], p)
  <2>1. CASE p = q
    <3>1. NewsOf(pod_stream'[n + 1], q) /\ n + 1 \in DOMAIN pod_stream'
      BY <1>1 DEF NewsOf, News
    <3> QED  BY <3>1, <2>1
  <2>2. CASE p # q
    <3>1. api[p].state = "pending" /\ mirror[p] = None
      BY <2>2, <1>2, <1>7
    <3>2. PICK k \in DOMAIN pod_stream : NewsOf(pod_stream[k], p)
      BY <3>1 DEF Ordered
    <3> QED  BY <3>2, <1>1
  <2> QED  BY <2>1, <2>2
<1>8. /\ IsAt(1, "Init")' => \A p \in Pods : mirror'[p] = None
      /\ relisting' => \A p \in Pods : mirror'[p] # None => p \in seen'
      /\ \A k \in DOMAIN node_stream' : node_stream'[k].type = "Apply"
  BY <1>2, <1>6 DEF Ordered
<1> QED  BY <1>5, <1>7, <1>8 DEF Ordered

\* The server takes the binding.
LEMMA BindSettles ==
    ASSUME IInv, Settled, NEW b \in Binders, Bind(b)
    PROVE  Settles
<1>1. At(b, "bind") /\ b \in Tasks /\ Tasked /\ Api
  BY DEF Bind, ServerBinds, Tasks, IInv, Shape
<1>2. PICK pod \in PodInfo, n \in Nodes :
         /\ todo[b] = << Asked(pod, n) >> /\ Rest(b) = << >> /\ Arg(b) = Asked(pod, n)
         /\ pod_locations[pod.uid] = n /\ pod.uid \in Pods
         /\ \A p : AtHand(b, p) <=> p = pod.uid
         /\ Has(b, pod.uid) /\ Somewhere(pod.uid)
         /\ api[pod.uid].node = None /\ api[pod.uid].state # "none"
  BY <1>1, AtTheServer
<1>3. PICK q \in Pods : q = pod.uid /\ q = Arg(b).pod.uid /\ n = Arg(b).node
  BY <1>2 DEF Asked
<1>4. /\ api[q].state = "pending"
      /\ api' = [api EXCEPT ![q].state = "bound", ![q].node = n]
      /\ pod_stream' = Append(pod_stream, Event("Apply", q))
      /\ UNCHANGED <<node_stream, watchVars, active, unschedulable, backoff>>
      /\ UNCHANGED <<pod_locations, assumed>>
      /\ todo[b] # << >> /\ Runs(b, << >>) /\ << >> \in Seq(Regions)
  <2>1. /\ Bindable(Arg(b).pod.uid)
        /\ api' = [api EXCEPT ![Arg(b).pod.uid].state = "bound",
                              ![Arg(b).pod.uid].node = Arg(b).node]
        /\ pod_stream' = Append(pod_stream, Event("Apply", Arg(b).pod.uid))
    BY DEF Bind, ServerBinds
  <2>2. /\ q = Arg(b).pod.uid /\ n = Arg(b).node
    BY <1>3
  <2>3. /\ Bindable(q)
        /\ api' = [api EXCEPT ![q].state = "bound", ![q].node = n]
        /\ pod_stream' = Append(pod_stream, Event("Apply", q))
    BY ONLY <2>1, <2>2
  <2>4. /\ UNCHANGED <<node_stream, watchVars, active, unschedulable, backoff>>
        /\ UNCHANGED <<pod_locations, assumed>>
        /\ Goto(b, << >>)
    BY DEF Bind, ServerBinds, queueVars, cacheVars
  <2> QED  BY <2>3, <2>4, <1>2 DEF Runs, Bindable, Asked
<1>5. /\ \A p \in Pods : p # q => api'[p] = api[p]
      /\ api'[q].state = "bound" /\ api'[q].node = n /\ api'[q].gated \in BOOLEAN
  BY <1>4, <1>1 DEF Api, Pod
<1>6. PICK ev \in News : /\ ev = Event("Apply", q)
                        /\ ev.uid = q /\ ev.type = "Apply" /\ ev.node = n
                        /\ ev.state = "bound"
  <2>1. "bound" \in States
    BY DEF States
  <2>2. Event("Apply", q) = [type |-> "Apply", uid |-> q, gated |-> api'[q].gated,
                             node |-> api'[q].node, state |-> api'[q].state]
    BY DEF Event
  <2>3. Event("Apply", q) = [type |-> "Apply", uid |-> q, gated |-> api'[q].gated,
                             node |-> n, state |-> "bound"]
    BY <2>2, <1>5
  <2>4. Event("Apply", q) \in News
    BY <2>1, <2>3, <1>5 DEF News
  <2> QED  BY <2>3, <2>4
<1>7. n # None /\ api[q].node = None
  BY <1>2, <1>3, NamesAssumption
<1>8. \A p \in Pods : /\ ~NewTo(ev, p) /\ (Confirms(ev, p) <=> p = q)
  BY <1>6, <1>7 DEF NewTo, NewPod, Confirms
<1>9. Ordered'
  BY <1>4, <1>5, <1>6, <1>7, <1>8, OrderGrows DEF Settled
<1>10. \A p \in Pods : /\ Informed(p)' <=> Informed(p) \/ p = q
                       /\ ToldGone(p)' <=> ToldGone(p)
                       /\ OneShelf(p)' /\ (Shelved(p)' <=> Shelved(p))
  <2> SUFFICES ASSUME NEW p \in Pods
               PROVE  /\ Informed(p)' <=> Informed(p) \/ p = q
                      /\ ToldGone(p)' <=> ToldGone(p)
                      /\ OneShelf(p)' /\ (Shelved(p)' <=> Shelved(p))
    OBVIOUS
  <2>1. OneShelf(p)
    BY DEF Settled, Alone
  <2>2. pod_stream' = Append(pod_stream, ev) /\ UNCHANGED mirror
    BY <1>4, <1>6 DEF watchVars
  <2> QED  BY <2>1, <2>2, <1>1, <1>4, <1>6, <1>8, StreamGrows
<1>11. \A p \in Pods : Passes(b, << >>, p)
  BY <1>10, NoRegion DEF Passes
<1>12. \A p \in Pods : /\ Alone(p)' /\ (Somewhere(p)' => Somewhere(p))
                       /\ \A u \in Tasks : u # b => (Has(u, p)' <=> Has(u, p))
                       /\ Has(b, p)' <=> Bears(<< >>, p) \/ Bears(Rest(b), p)
  BY <1>1, <1>4, <1>11, Passed DEF Settled
<1>13. ~Somewhere(q)'
  <2>1. ~Shelved(q) /\ \A u \in Tasks : u # b => ~Has(u, q)
    BY <1>1, <1>2, <1>3 DEF Settled, Alone
  <2>2. ~Bears(Rest(b), q) /\ ~Bears(<< >>, q)
    BY <1>2, NoRegion
  <2> QED  BY <2>1, <2>2, <1>10, <1>12 DEF Somewhere
<1>14. \A p : ~Gives(Arg(b), p) /\ ~Takes(Arg(b), p) /\ Arg(b) # Returned(p)
  BY <1>2 DEF Asked, Gives, Takes, Returned
<1>15. \A p \in Pods : p # q => /\ Confirming(p)' <=> Confirming(p)
                                /\ Leaving(p) => Leaving(p)'
                                /\ Reserved(p) => Reserved(p)'
  <2> SUFFICES ASSUME NEW p \in Pods, p # q
               PROVE  /\ Confirming(p)' <=> Confirming(p)
                      /\ Leaving(p) => Leaving(p)'
                      /\ Reserved(p) => Reserved(p)'
    OBVIOUS
  <2>1. \A i \in DOMAIN << >> : ~Gives(<< >>[i], p)
    OBVIOUS
  <2>2. /\ Confirming(p)' <=> Confirming(p)
        /\ Leaving(p) => Leaving(p)'
    BY <2>1, <1>1, <1>4, <1>10, <1>14, WhatFollows
  <2>3. ~Owns(Arg(b), p)
    BY <1>2, <1>3, <1>4 DEF AtHand
  <2>4. Reserved(p) => Reserved(p)'
    BY <2>3, <1>1, <1>4, <1>14, StillReserved
  <2> QED  BY <2>2, <2>4
<1>16. \A p \in Pods : Account(p)'
  <2>1. \A p \in Pods : p # q => Account(p)'
    BY <1>4, <1>5, <1>12, <1>15, AccountStays DEF Settled
  <2>2. Account(q)'
    <3>1. Confirming(q)'
      BY <1>10 DEF Confirming
    <3>2. assumed'[q] # None => pod_locations'[q] # None
      BY <1>4 DEF Settled, Account
    <3>3. pod_locations'[q] = n
      BY <1>2, <1>3, <1>4
    <3> QED  BY <3>1, <3>2, <3>3, <1>5, <1>7, <1>13 DEF Account
  <2> QED  BY <2>1, <2>2
<1>17. b # "watch" /\ b # "loop" /\ b # "net"
  BY NamesAssumption
<1>18. /\ AllTame(todo["net"])' /\ LoopForm'
       /\ \A c \in Binders : c # b => BinderForm(c)'
  <2>1. \A p \in Pods, u \in Tasks : u # b /\ Has(u, p) => pod_locations'[p] = pod_locations[p]
    BY <1>4
  <2>2. \A p \in Pods, c \in Binders : c # b /\ Sits(c, Returned(p)) =>
              /\ api'[p].node = api[p].node
              /\ api[p].state # "none" =>
                    api'[p].state # "none" /\ (Somewhere(p)' => Somewhere(p))
    <3> SUFFICES ASSUME NEW p \in Pods, NEW c \in Binders, c # b, Sits(c, Returned(p))
                 PROVE  p # q
      BY <1>5, <1>12
    <3>1. Somewhere(p) => Has(c, p)
      BY <1>1, GivenBack
    <3>2. p = q => Has(c, q) /\ Has(b, q) /\ c \in Tasks
      BY <3>1, <1>2, <1>3 DEF Tasks
    <3> QED  BY <3>2, <1>1 DEF Settled, Alone
  <2> QED  BY <2>1, <2>2, <1>1, <1>4, <1>17, FormsStay
<1>19. BinderForm(b)'
  <2>1. todo'[b] = << >> \o << >>
    BY <1>1, <1>2, <1>4, RunsIs
  <2>2. todo'[b] = << >>
    BY <2>1
  <2> QED  BY <2>2, AllTameEmpty DEF BinderForm
<1>20. WatchForm'
  <2>1. \A p \in Pods : Off(p) => Off(p)'
    BY <1>4, <1>5, <1>15 DEF Off
  <2>2. \A i \in DOMAIN << >> : b = "watch" => Allowed(<< >>[i])'
    OBVIOUS
  <2>3. ASSUME NEW i \in DOMAIN todo["watch"], todo["watch"][i].op = "add_pod"
        PROVE  api'[todo["watch"][i].uid].node = api[todo["watch"][i].uid].node
    <3>1. PICK r : r = todo["watch"][i]
      OBVIOUS
    <3>2. r \in Regions /\ r.op = "add_pod"
      BY <3>1, <2>3, <1>1 DEF Tasked, Tasks
    <3>3. r.uid \in Pods /\ r.node \in Nodes
      BY <3>2, RegionFields
    <3>4. r.node = api[r.uid].node
      BY <3>1, <3>2 DEF Settled, WatchForm, Allowed, Tame, Plain
    <3>5. r.uid # q
      BY <3>3, <3>4, <1>7, NamesAssumption
    <3> QED  BY <3>1, <3>3, <3>5, <1>5
  <2> QED  BY <2>1, <2>2, <2>3, <1>1, <1>4, WatchStays DEF Settled
<1>21. Settled'
  BY <1>9, <1>12, <1>16, <1>18, <1>19, <1>20 DEF Settled
<1>22. \A p \in Pods : Unseen(p)' => Unseen(p) /\ api'[p].node = api[p].node
  <2>1. ~Unseen(q)'
    BY <1>2, <1>3, <1>4, <1>7 DEF Unseen
  <2>2. \A p \in Pods : p # q => (Unseen(p)' => Unseen(p) /\ api'[p].node = api[p].node)
    BY <1>4, <1>5, <1>15 DEF Unseen
  <2> QED  BY <2>1, <2>2
<1>23. \A p \in Pods, m \in Nodes : Claims(p, m)' => Claims(p, m)
  <2>1. \A p \in Pods, m \in Nodes : pod_locations'[p] = m => Claims(p, m)
    BY <1>4 DEF Claims
  <2> QED  BY <2>1, <1>1, <1>4, <1>17, <1>22, ClaimsStay
<1> QED  BY <1>12, <1>21, <1>22, <1>23 DEF Settles, Follows

-----------------------------------------------------------------------------
(* The news of a pod *)

WillGive(ops, p) == \E i \in DOMAIN ops : Gives(ops[i], p)
WillTake(ops, p) == \E i \in DOMAIN ops : Takes(ops[i], p)

\* Who will be counted after an event, and who will not be any longer.
LEMMA NewsFollowed ==
    ASSUME IInv, Settled, NEW ev, pod_stream # << >>, ev = Head(pod_stream),
           pod_stream' = Tail(pod_stream), UNCHANGED <<active, unschedulable, backoff>>,
           NEW ops \in Seq(Regions), Begin("watch", ops), NEW p \in Pods, Reads(p),
           WillGive(ops, p) <=> Confirms(ev, p)
    PROVE  /\ Confirming(p)' <=> Confirming(p)
           /\ Leaving(p) => \/ Leaving(p)'
                            \/ ev.type = "Delete" /\ ev.uid = p /\ ~WillTake(ops, p)
<1>1. Api /\ Tasked /\ "watch" \in Tasks /\ todo["watch"] = << >> /\ Runs("watch", ops)
  BY DEF IInv, Shape, Tasks, Begin, Runs
<1>2. /\ todo'["watch"] = ops \o Rest("watch") /\ Rest("watch") = << >>
  BY <1>1, RunsIs DEF Rest
<1>3. todo'["watch"] = ops
  BY <1>2
<1>4. /\ 1 \in DOMAIN pod_stream /\ pod_stream[1] = ev
  BY <1>1, Shifted
<1>5. /\ Confirming(p) <=> Informed(p)
      /\ Leaving(p) <=> ToldGone(p)
  <2>1. DOMAIN todo["watch"] = {}
    BY <1>1
  <2> QED  BY <2>1 DEF Confirming, Leaving
<1>6. /\ Confirming(p)' <=> Informed(p)' \/ WillGive(ops, p)
      /\ Leaving(p)' <=> ToldGone(p)' \/ WillTake(ops, p)
  BY <1>3 DEF Confirming, Leaving, WillGive, WillTake, Gives, Takes
<1>7. /\ Informed(p)' => Informed(p)
      /\ Informed(p) => Informed(p)' \/ Confirms(ev, p)
      /\ ToldGone(p) => ToldGone(p)' \/ (ev.type = "Delete" /\ ev.uid = p)
  BY <1>1, StreamShrinks
<1>8. Confirms(ev, p) => Informed(p)
  BY <1>4 DEF Informed
<1> QED  BY <1>5, <1>6, <1>7, <1>8

\* The watch takes up an event.
LEMMA NewsSettles ==
    ASSUME IInv, Settled, NEW ev, pod_stream # << >>, ev = Head(pod_stream),
           pod_stream' = Tail(pod_stream), UNCHANGED <<active, unschedulable, backoff>>,
           UNCHANGED <<api, node_stream, pod_locations, assumed>>, Ordered',
           NEW ops \in Seq(Regions), Begin("watch", ops),
           \A p \in Pods : Reads(p),
           \A p : Once(ops, p) /\ (Bears(ops, p) => NewPod(ev, p) /\ mirror[p] = None),
           \A i \in DOMAIN ops : Allowed(ops[i])',
           \A p \in Pods : WillGive(ops, p) <=> Confirms(ev, p),
           ev.type = "Delete" /\ api[ev.uid].node # None => WillTake(ops, ev.uid)
    PROVE  Settles
<1>1. Api /\ Tasked /\ "watch" \in Tasks \ {"net"} /\ todo["watch"] = << >> /\ Runs("watch", ops)
  BY DEF IInv, Shape, Tasks, Begin, Runs
<1>2. \A p \in Pods : /\ Confirming(p)' <=> Confirming(p)
                      /\ Leaving(p) /\ api[p].node # None => Leaving(p)'
  BY NewsFollowed
<1>3. \A p \in Pods : Passes("watch", ops, p)
  <2> TAKE p \in Pods
  <2>1. OneShelf(p)
    BY DEF Settled, Alone
  <2>2. /\ OneShelf(p)' /\ (Shelved(p)' => Shelved(p))
        /\ NewPod(ev, p) /\ mirror[p] = None => Shelved(p) /\ ~Shelved(p)'
    BY <2>1, <1>1, StreamShrinks
  <2> QED  BY <2>2 DEF Passes
<1>4. \A p \in Pods : Somewhere(p)' => Somewhere(p)
  BY <1>1, <1>3, Passed DEF Settled
<1>5. ASSUME NEW p \in Pods PROVE Account(p)'
  <2>1. Reserved(p) => Reserved(p)'
    BY <1>1, StillReserved
  <2>2. Account(p)
    BY DEF Settled
  <2>3. assumed'[p] \in {assumed[p], None} /\ api'[p] = api[p]
        /\ assumed'[p] = assumed[p] /\ pod_locations'[p] = pod_locations[p]
    OBVIOUS
  <2>4. CASE api[p].node # None
    BY <2>1, <2>2, <2>3, <2>4, <1>2, <1>4, AccountStays
  <2>5. CASE api[p].node = None
    BY <2>1, <2>2, <2>3, <2>5, <1>2, <1>4 DEF Account
  <2> QED  BY <2>4, <2>5
<1>6. \A p \in Pods : Off(p) => Off(p)'
  BY <1>2 DEF Off
<1>7. "watch" # "loop" /\ "watch" \notin Binders
  BY NamesAssumption
<1>8. \A p \in Pods, u \in Tasks : u # "watch" /\ Has(u, p)
               => pod_locations'[p] = pod_locations[p]
  OBVIOUS
<1>9. /\ \A p \in Pods : Unseen(p)' => Unseen(p)
      /\ \A p \in Pods, n \in Nodes : pod_locations'[p] = n => Claims(p, n)
  BY <1>2 DEF Unseen, Claims
<1> QED  BY <1>1, <1>3, <1>5, <1>6, <1>7, <1>8, <1>9, TaskActs

\* A pod that is, or is about to be, running leaves the queues for the cache.
LEMMA ConfirmSettles ==
    ASSUME IInv, Settled, NEW ev \in News, pod_stream # << >>, ev = Head(pod_stream),
           pod_stream' = Tail(pod_stream), UNCHANGED <<active, unschedulable, backoff>>,
           UNCHANGED <<api, node_stream, pod_locations, assumed>>, Ordered',
           \A p \in Pods : Reads(p),
           ev.type = "Apply", ev.node # None, ev.node = api[ev.uid].node,
           NEW tail, tail \in {move_all("PodBound"), << >>},
           NEW ops, ops = remove(ev.uid) \o confirm(ev.uid, ev.node) \o tail,
           Begin("watch", ops)
    PROVE  Settles
<1>1. ev.uid \in Pods /\ ev.node \in Nodes
  BY DEF News
<1>2. PICK r : r = [op |-> "remove", uid |-> ev.uid, then |-> << >>]
  OBVIOUS
<1>3. PICK c : c = [op |-> "add_pod", uid |-> ev.uid, node |-> ev.node, assumed |-> None]
  OBVIOUS
<1>4. r \in Regions /\ Tame(r) /\ \A p : ~Owns(r, p) /\ ~Gives(r, p)
  BY <1>1, <1>2 DEF Regions, Tame, Owns, Bearing, PodOps, Gives
<1>5. c \in Regions /\ Allowed(c)' /\ \A p : ~Owns(c, p) /\ (Gives(c, p) <=> p = ev.uid)
  <2>1. c \in Regions
    BY <1>1, <1>3 DEF Regions
  <2>2. c.op = "add_pod" /\ c.assumed = None /\ c.node = api'[c.uid].node /\ c.uid = ev.uid
    BY <1>3
  <2>3. Allowed(c)'
    BY <2>2 DEF Allowed
  <2> QED  BY <2>1, <2>2, <2>3 DEF Owns, Bearing, PodOps, Gives
<1>6. /\ tail \in Seq(Regions) /\ AllTame(tail)
      /\ \A p : Once(tail, p) /\ ~Bears(tail, p)
      /\ \A x, p : In(x, tail) => ~Gives(x, p)
  <2>1. "PodBound" \in Signals
    BY DEF Signals
  <2>2. CASE tail = move_all("PodBound")
    <3>1. \A i \in DOMAIN tail : tail[i].op \in {"record", "sweep"}
      BY <2>1, <2>2, Signalling
    <3>2. \A x, p : In(x, tail) => ~Gives(x, p)
      BY <3>1 DEF In, Gives
    <3> QED  BY <2>1, <2>2, <3>2, Signalling
  <2>3. CASE tail = << >>
    BY <2>3, NoRegion DEF In
  <2> QED  BY <2>2, <2>3
<1>7. PICK a : a = << r >>
  OBVIOUS
<1>8. PICK b : b = << c >>
  OBVIOUS
<1>9. PICK m : m = a \o b
  OBVIOUS
<1>10. /\ a \in Seq(Regions) /\ \A p : Once(a, p) /\ ~Bears(a, p)
       /\ b \in Seq(Regions) /\ \A p : Once(b, p) /\ ~Bears(b, p)
       /\ \A x : (In(x, a) <=> x = r) /\ (In(x, b) <=> x = c)
  BY <1>4, <1>5, <1>7, <1>8, OneRegion DEF In
<1>11. /\ m \in Seq(Regions) /\ \A p : Once(m, p) /\ ~Bears(m, p)
       /\ \A x : In(x, m) <=> x = r \/ x = c
  <2>1. m \in Seq(Regions)
    BY <1>9, <1>10
  <2>2. \A x : In(x, m) <=> In(x, a) \/ In(x, b)
    BY <1>9, <1>10, Halves
  <2>3. \A p : Once(m, p) /\ ~Bears(m, p)
    BY <1>9, <1>10, JoinedRegions
  <2> QED  BY <2>1, <2>2, <2>3, <1>10
<1>12. ops = m \o tail
  BY <1>2, <1>3, <1>7, <1>8, <1>9 DEF remove, dequeue, confirm
<1>13. /\ ops \in Seq(Regions) /\ \A p : Once(ops, p) /\ ~Bears(ops, p)
       /\ \A x : In(x, ops) <=> x = r \/ x = c \/ In(x, tail)
  <2>1. tail \in Seq(Regions) /\ m \in Seq(Regions)
    BY <1>6, <1>11
  <2>2. PICK all : all = m \o tail
    OBVIOUS
  <2>3. all \in Seq(Regions)
    BY ONLY <2>1, <2>2
  <2>4. \A x : In(x, all) <=> In(x, m) \/ In(x, tail)
    BY ONLY <2>1, <2>2, Halves
  <2>5. \A p : Once(all, p) /\ ~Bears(all, p)
    BY <2>1, <2>2, <1>6, <1>11, JoinedRegions
  <2>6. all = ops
    BY <2>2, <1>12
  <2> QED  BY <2>3, <2>4, <2>5, <2>6, <1>11
<1>14. \A i \in DOMAIN ops : Allowed(ops[i])'
  <2> SUFFICES ASSUME NEW i \in DOMAIN ops PROVE Allowed(ops[i])'
    OBVIOUS
  <2>1. PICK x : x = ops[i]
    OBVIOUS
  <2>2. x = r \/ x = c \/ In(x, tail)
    BY <2>1, <1>13 DEF In
  <2>3. Allowed(x)'
    <3>1. CASE x = r
      BY <3>1, <1>4, TameIsAllowed
    <3>2. CASE x = c
      BY <3>2, <1>5
    <3>3. CASE In(x, tail)
      <4>1. Tame(x)
        BY <3>3, <1>6 DEF In, AllTame
      <4> QED  BY <4>1, TameIsAllowed
    <3> QED  BY <2>2, <3>1, <3>2, <3>3
  <2> QED  BY <2>1, <2>3
<1>15. \A p \in Pods : WillGive(ops, p) <=> Confirms(ev, p)
  <2>1. \A p \in Pods : WillGive(ops, p) <=> \E x : In(x, ops) /\ Gives(x, p)
    BY DEF WillGive, In
  <2>2. In(c, ops)
    BY <1>13
  <2>3. \A p \in Pods : WillGive(ops, p) <=> p = ev.uid
    BY <2>1, <2>2, <1>4, <1>5, <1>6, <1>13
  <2> QED  BY <2>3 DEF Confirms
<1>16. ev.type # "Delete"
  OBVIOUS
<1> QED  BY <1>13, <1>14, <1>15, <1>16, NewsSettles

LEMMA HandleApplySettles ==
    ASSUME IInv, Settled, HandleApply
    PROVE  Settles
<1>1. /\ pod_stream # << >> /\ pod_stream' = Tail(pod_stream)
      /\ UNCHANGED <<api, node_stream, pod_locations, assumed, relisting>>
      /\ UNCHANGED <<active, unschedulable, backoff>>
      /\ Api /\ Watching /\ Ordered
  BY DEF HandleApply, queueVars, cacheVars, IInv, Shape, Settled
<1>2. PICK ev : ev = Head(pod_stream)
  OBVIOUS
<1>3. /\ ev.type = "Apply"
      /\ mirror' = [mirror EXCEPT ![ev.uid] = [gated |-> ev.gated, node |-> ev.node]]
      /\ seen' = IF relisting THEN seen \cup {ev.uid} ELSE seen
      /\ Begin("watch", applied(ev))
  BY <1>2 DEF HandleApply
<1>4. /\ 1 \in DOMAIN pod_stream /\ pod_stream[1] = ev /\ ev \in News
      /\ ev.uid \in Pods /\ ev.node \in Nodes \cup {None} /\ ev.gated \in BOOLEAN
  BY <1>1, <1>2, <1>3, Shifted DEF PodEvents, News
<1>5. /\ \A q \in Pods : q # ev.uid => mirror'[q] = mirror[q]
      /\ mirror'[ev.uid] # None
  <2>1. [gated |-> ev.gated, node |-> ev.node] # None
    BY <1>4, NamesAssumption DEF Version
  <2> QED  BY <2>1, <1>1, <1>3, <1>4 DEF Watching
<1>0. \A q \in Pods : Reads(q)
  BY <1>2, <1>5 DEF Reads, NewsOf, Announced
<1>6. Ordered'
  <2>1. \A q \in Pods : api[q].state = "pending" /\ mirror'[q] = None
           => mirror[q] = None /\ ~NewsOf(Head(pod_stream), q)
    BY <1>2, <1>5 DEF NewsOf
  <2>2. relisting' => \A q \in Pods : mirror'[q] # None => q \in seen'
    BY <1>1, <1>3, <1>5 DEF Ordered
  <2> QED  BY <2>1, <2>2, <1>1, OrderGoesOn
<1>7. ev.node # None => ev.node = api[ev.uid].node
  BY <1>1, <1>3, <1>4 DEF Ordered
<1>8. PICK p \in Pods : p = ev.uid
  BY <1>4
<1>9. CASE ev.node # None
  <2>1. PICK tail : tail = IF mirror[p] # None /\ mirror[p].node = None
                           THEN move_all("PodBound") ELSE << >>
    OBVIOUS
  <2>2. PICK ops : ops = remove(ev.uid) \o confirm(ev.uid, ev.node) \o tail
    OBVIOUS
  <2>3. ops = applied(ev)
    BY <2>1, <2>2, <1>8, <1>9 DEF applied
  <2>4. tail \in {move_all("PodBound"), << >>}
    BY <2>1
  <2>5. Begin("watch", ops)
    BY <2>3, <1>3
  <2> QED  BY <2>2, <2>4, <2>5, <1>0, <1>1, <1>2, <1>3, <1>4, <1>6, <1>7, <1>9, ConfirmSettles
<1>10. ASSUME NEW ops \in Seq(Regions), ops = applied(ev), AllTame(ops), ev.node = None,
              \A q : Once(ops, q) /\ (Bears(ops, q) => NewPod(ev, q) /\ mirror[q] = None)
       PROVE  Settles
  <2>1. Begin("watch", ops)
    BY <1>3, <1>10
  <2>2. \A i \in DOMAIN ops : Tame(ops[i])
    BY <1>10 DEF AllTame
  <2>3. \A i \in DOMAIN ops : Allowed(ops[i])'
    <3> SUFFICES ASSUME NEW i \in DOMAIN ops PROVE Allowed(ops[i])'
      OBVIOUS
    <3>1. PICK x : x = ops[i]
      OBVIOUS
    <3>2. Tame(x)
      BY <3>1, <2>2
    <3>3. Allowed(x)'
      BY <3>2, TameIsAllowed
    <3> QED  BY <3>1, <3>3
  <2>4. \A q \in Pods : WillGive(ops, q) <=> Confirms(ev, q)
    BY <2>2, <1>10 DEF WillGive, Gives, Tame, Plain, Confirms
  <2>5. ev.type # "Delete"
    BY <1>3
  <2> QED  BY <2>1, <2>3, <2>4, <2>5, <1>0, <1>1, <1>2, <1>6, <1>10, NewsSettles
<1>11. CASE ev.node = None /\ ev.state = "terminating"
  <2>1. PICK r : r = [op |-> "remove", uid |-> p, then |-> << >>]
    OBVIOUS
  <2>2. PICK ops : ops = << r >>
    OBVIOUS
  <2>3. ops = applied(ev)
    BY <2>1, <2>2, <1>8, <1>11 DEF applied, remove, dequeue
  <2>4. r \in Regions /\ Tame(r) /\ \A q : ~Owns(r, q)
    BY <2>1 DEF Regions, Tame, Owns, Bearing, PodOps
  <2>5. ops \in Seq(Regions) /\ AllTame(ops) /\ \A q : Once(ops, q) /\ ~Bears(ops, q)
    BY <2>2, <2>4, OneRegion
  <2> QED  BY <2>3, <2>5, <1>10, <1>11
<1>12. CASE ev.node = None /\ ev.state # "terminating" /\ mirror[p] = None
  <2>1. NewPod(ev, p) /\ mirror[p] = None
    BY <1>3, <1>8, <1>12 DEF NewPod
  <2>2. PICK pod : pod = [uid |-> p, gated |-> ev.gated]
    OBVIOUS
  <2>3. pod \in PodInfo /\ pod.uid = p
    BY <2>2, <1>4 DEF PodInfo
  <2>4. PICK ops : ops = add(pod)
    OBVIOUS
  <2>5. ops = applied(ev)
    BY <2>1, <2>2, <2>4, <1>8, <1>12 DEF applied
  <2>6. {} \in SUBSET Plugins
    OBVIOUS
  <2>7. /\ ops \in Seq(Regions) /\ AllTame(ops)
        /\ \A q : Once(ops, q) /\ (Bears(ops, q) <=> q = p)
    BY <2>3, <2>4, <2>6, Queueing
  <2> QED  BY <2>1, <2>5, <2>7, <1>10, <1>12
<1>13. CASE ev.node = None /\ ev.state # "terminating" /\ mirror[p] # None
  <2>1. PICK pod \in PodInfo : pod = [uid |-> p, gated |-> ev.gated]
    BY <1>4 DEF PodInfo
  <2>2. PICK a : a = update(pod)
    OBVIOUS
  <2>3. a \in Seq(Regions) /\ AllTame(a) /\ \A q : Once(a, q) /\ ~Bears(a, q)
    <3>1. PICK r : r = [op |-> "update", pod |-> pod]
      OBVIOUS
    <3>2. r \in Regions /\ Tame(r) /\ \A q : ~Owns(r, q)
      BY <3>1 DEF Regions, PodOps, Tame, Plain, Owns, Bearing
    <3>3. a = << r >>
      BY <2>2, <3>1 DEF update
    <3> QED  BY <3>2, <3>3, OneRegion
  <2>4. PICK tail : tail = IF mirror[p].gated /\ ~ev.gated
                           THEN move_all("GateRemoved") ELSE << >>
    OBVIOUS
  <2>5. tail \in Seq(Regions) /\ AllTame(tail) /\ \A q : Once(tail, q) /\ ~Bears(tail, q)
    <3>1. "GateRemoved" \in Signals
      BY DEF Signals
    <3>2. tail = move_all("GateRemoved") \/ tail = << >>
      BY <2>4
    <3> QED  BY <3>1, <3>2, Signalling, NoRegion, AllTameEmpty
  <2>6. PICK ops : ops = a \o tail
    OBVIOUS
  <2>7. ops = applied(ev)
    BY <2>1, <2>2, <2>4, <2>6, <1>8, <1>13 DEF applied
  <2>8. ops \in Seq(Regions)
    BY ONLY <2>3, <2>5, <2>6
  <2>9. AllTame(ops) /\ \A q : Once(ops, q) /\ ~Bears(ops, q)
    BY <2>3, <2>5, <2>6, JoinedRegions
  <2> QED  BY <2>7, <2>8, <2>9, <1>10, <1>13
<1> QED  BY <1>9, <1>11, <1>12, <1>13

LEMMA HandleDeleteSettles ==
    ASSUME IInv, Settled, HandleDelete
    PROVE  Settles
<1>1. /\ pod_stream # << >> /\ pod_stream' = Tail(pod_stream)
      /\ UNCHANGED <<api, node_stream, pod_locations, assumed, relisting>>
      /\ UNCHANGED <<active, unschedulable, backoff>>
      /\ Api /\ Watching /\ Ordered /\ Tasked
  BY DEF HandleDelete, queueVars, cacheVars, IInv, Shape, Settled
<1>2. PICK ev : ev = Head(pod_stream)
  OBVIOUS
<1>3. /\ ev.type = "Delete"
      /\ mirror' = [mirror EXCEPT ![ev.uid] = None]
      /\ seen' = seen \ {ev.uid}
      /\ Begin("watch", remove_deleted(ev.uid, ev.node))
  BY <1>2 DEF HandleDelete
<1>4. /\ 1 \in DOMAIN pod_stream /\ pod_stream[1] = ev /\ ev \in News /\ ev.uid \in Pods
      /\ DOMAIN pod_stream \subseteq Nat \ {0}
  BY <1>1, <1>2, <1>3, Shifted DEF PodEvents, News
<1>5. /\ \A q \in Pods : q # ev.uid => mirror'[q] = mirror[q]
      /\ mirror'[ev.uid] = None
  BY <1>1, <1>3, <1>4 DEF Watching
<1>7. /\ api[ev.uid].state = "gone" /\ ev.node = api[ev.uid].node
      /\ \A j \in DOMAIN pod_stream : j > 1 => ~NewsOf(pod_stream[j], ev.uid)
  BY <1>1, <1>3, <1>4 DEF Ordered
<1>0. \A q \in Pods : Reads(q)
  <2> SUFFICES ASSUME NEW q \in Pods, q = ev.uid PROVE ~Announced(q)'
    BY <1>2, <1>5 DEF Reads, NewsOf
  <2> SUFFICES ASSUME NEW k \in DOMAIN pod_stream', NewPod(pod_stream'[k], q) PROVE FALSE
    BY DEF Announced, FirstNews
  <2>1. k + 1 \in DOMAIN pod_stream /\ pod_stream'[k] = pod_stream[k + 1] /\ k + 1 > 1
    BY <1>1, Shifted
  <2> QED  BY <2>1, <1>7 DEF NewPod, NewsOf
<1>6. Ordered'
  <2>1. \A q \in Pods : api[q].state = "pending" /\ mirror'[q] = None
           => mirror[q] = None /\ ~NewsOf(Head(pod_stream), q)
    BY <1>2, <1>5, <1>7 DEF NewsOf
  <2>2. relisting' => \A q \in Pods : mirror'[q] # None => q \in seen'
    BY <1>1, <1>3, <1>5 DEF Ordered
  <2> QED  BY <2>1, <2>2, <1>1, OrderGoesOn
<1>8. PICK p \in Pods : p = ev.uid
  BY <1>4
<1>9. PICK then : then = IF ev.node # None THEN release(p) \o move_all("PodDeleted")
                                           ELSE forget(p)
  OBVIOUS
<1>10. then \in Seq(Endings)
  BY <1>9, OtherHandlers DEF Signals
<1>11. PICK r : r = [op |-> "remove", uid |-> p, then |-> then]
  OBVIOUS
<1>12. r \in Regions /\ \A q : ~Owns(r, q) /\ ~Gives(r, q)
  BY <1>10, <1>11 DEF Regions, Owns, Bearing, PodOps, Gives
<1>13. PICK ops : ops = << r >>
  OBVIOUS
<1>14. /\ ops \in Seq(Regions) /\ \A q : Once(ops, q) /\ ~Bears(ops, q)
       /\ DOMAIN ops = {1} /\ ops[1] = r
  BY <1>12, <1>13, OneRegion
<1>15. ops = remove_deleted(ev.uid, ev.node)
  BY <1>8, <1>9, <1>11, <1>13 DEF remove_deleted, dequeue
<1>16. Begin("watch", ops)
  BY <1>3, <1>15
<1>17. \A q \in Pods : WillGive(ops, q) <=> Confirms(ev, q)
  BY <1>3, <1>12, <1>14 DEF WillGive, Confirms
<1>18. ev.node # None => /\ In(Returned(p), then)
                         /\ \A x : In(x, then) /\ x.op = "remove_pod" => x = Returned(p)
  <2> HAVE ev.node # None
  <2>1. PICK a : a = << Returned(p) >>
    OBVIOUS
  <2>2. PICK b : b = move_all("PodDeleted")
    OBVIOUS
  <2>3. then = a \o b
    BY <2>1, <2>2, <1>9 DEF release, Returned
  <2>4. Returned(p) \in Regions
    BY DEF Returned, Regions, Endings
  <2>5. a \in Seq(Regions) /\ \A x : In(x, a) <=> x = Returned(p)
    BY <2>1, <2>4 DEF In
  <2>6. "PodDeleted" \in Signals
    BY DEF Signals
  <2>7. b \in Seq(Regions) /\ \A i \in DOMAIN b : b[i].op \in {"record", "sweep"}
    BY <2>2, <2>6, Signalling
  <2>8. \A x : In(x, then) <=> In(x, a) \/ In(x, b)
    BY <2>3, <2>5, <2>7, Halves
  <2>9. \A x : In(x, b) => x.op # "remove_pod"
    BY <2>7 DEF In
  <2>10. In(Returned(p), then) /\ \A x : In(x, then) /\ x.op = "remove_pod" => x = Returned(p)
    BY <2>5, <2>8, <2>9
  <2> QED  BY <2>10
<1>19. /\ ev.node # None => Takes(r, p)
       /\ \A k \in DOMAIN then : then[k].op = "remove_pod" => then[k].uid = p /\ ev.node # None
  <2>1. CASE ev.node # None
    <3>1. In(Returned(p), then)
      BY <2>1, <1>18
    <3>2. Takes(r, p)
      BY <3>1, <1>11 DEF Takes, In
    <3>3. ASSUME NEW k \in DOMAIN then, then[k].op = "remove_pod"
          PROVE  then[k].uid = p
      <4>1. PICK x : x = then[k]
        OBVIOUS
      <4>2. In(x, then) /\ x.op = "remove_pod"
        BY <4>1, <3>3 DEF In
      <4>3. x = Returned(p)
        BY <4>2, <2>1, <1>18
      <4> QED  BY <4>1, <4>3 DEF Returned
    <3> QED  BY <2>1, <3>2, <3>3
  <2>2. CASE ev.node = None
    BY <2>2, <1>9 DEF forget
  <2> QED  BY <2>1, <2>2
<1>20. Off(p)' \/ ev.node = None
  <2>1. Confirming(p)' <=> Confirming(p)
    BY <1>0, <1>1, <1>2, <1>8, <1>14, <1>16, <1>17, NewsFollowed
  <2>2. ~Informed(p)
    <3> SUFFICES ASSUME NEW k \in DOMAIN pod_stream, Confirms(pod_stream[k], p) PROVE FALSE
      BY DEF Informed
    <3>1. k = 1 \/ k > 1
      BY <1>4
    <3>2. k # 1
      BY <1>3, <1>4 DEF Confirms
    <3> QED  BY <3>1, <3>2, <1>7, <1>8 DEF Confirms, NewsOf
  <2>3. todo["watch"] = << >>
    BY <1>16 DEF Begin
  <2>4. DOMAIN todo["watch"] = {}
    BY <2>3
  <2>5. ~Confirming(p)
    BY <2>2, <2>4 DEF Confirming
  <2> QED  BY <2>1, <2>5, <1>1, <1>7, <1>8 DEF Off
<1>21. Allowed(r)'
  BY <1>11, <1>19, <1>20 DEF Allowed
<1>22. \A i \in DOMAIN ops : Allowed(ops[i])'
  BY <1>14, <1>21
<1>23. api[ev.uid].node # None => WillTake(ops, ev.uid)
  BY <1>7, <1>8, <1>14, <1>19 DEF WillTake
<1> QED  BY <1>0, <1>1, <1>2, <1>6, <1>14, <1>16, <1>17, <1>22, <1>23, NewsSettles

-----------------------------------------------------------------------------
(* The cluster *)

\* Whatever the cluster does that changes no pod's node and queues none twice.
LEMMA ClusterSettles ==
    ASSUME IInv, Settled, UNCHANGED <<todo, pod_locations, assumed>>, Ordered',
           \A p \in Pods : /\ OneShelf(p)'
                           /\ Shelved(p)' => Shelved(p) \/ ~Somewhere(p),
           \A p \in Pods : /\ Unseen(p)' => Unseen(p)
                           /\ Off(p) => Off(p)'
                           /\ api'[p].node = api[p].node
                           /\ api[p].state # "none" =>
                                 api'[p].state # "none" /\ (Somewhere(p)' => Somewhere(p)),
           \A p \in Pods : Account(p)' /\ (Somewhere(p)' => Somewhere(p) \/ Announced(p)')
    PROVE  Settles
<1>1. Tasked
  BY DEF IInv, Shape
<1>2. \A p : /\ \A t \in Tasks : Has(t, p)' <=> Has(t, p)
             /\ \A t : Sits(t, Returned(p))' <=> Sits(t, Returned(p))
  BY DEF Has, Sits, Returned
<1>3. \A p \in Pods : Alone(p)'
  <2> TAKE p \in Pods
  <2>1. Alone(p)
    BY DEF Settled
  <2>2. \A t \in Tasks : Once(todo[t], p)'
    BY <2>1 DEF Alone, Once
  <2>3. \A t \in Tasks : Has(t, p)' => ~Shelved(p)'
    BY <2>1, <1>2 DEF Alone, Somewhere
  <2>4. \A t, u \in Tasks : Has(t, p)' /\ Has(u, p)' => t = u
    BY <2>1, <1>2 DEF Alone
  <2> QED  BY <2>2, <2>3, <2>4 DEF Alone
<1>4. LoopForm' /\ AllTame(todo["net"])'
  BY DEF Settled, LoopForm, AllTame
<1>5. \A b \in Binders : BinderForm(b)'
  <2> TAKE b \in Binders
  <2>1. BinderForm(b) /\ todo'[b] = todo[b]
    BY DEF Settled
  <2>2. \A p \in Pods : Has(b, p) => pod_locations'[p] = pod_locations[p]
    OBVIOUS
  <2> QED  BY <2>1, <2>2, <1>1, BinderStays
<1>6. WatchForm'
  <2> SUFFICES ASSUME NEW i \in DOMAIN todo["watch"], NEW r, r = todo["watch"][i]
               PROVE  Allowed(r)'
    BY DEF WatchForm
  <2>1. r \in Regions /\ Allowed(r)
    BY <1>1 DEF Tasked, Tasks, Settled, WatchForm
  <2>2. r.op = "remove" => \A k \in DOMAIN r.then :
                              r.then[k].op = "remove_pod" => r.then[k].uid \in Pods
    BY <2>1, RegionFields DEF Endings
  <2>3. r.op \in {"remove_pod", "add_pod"} => r.uid \in Pods
    BY <2>1, RegionFields
  <2> QED  BY <2>1, <2>2, <2>3 DEF Allowed
<1>7. Settled'
  BY <1>3, <1>4, <1>5, <1>6 DEF Settled
<1>8. \A p \in Pods : Unseen(p)' => Unseen(p) /\ api'[p].node = api[p].node
  OBVIOUS
<1>9. \A p \in Pods, n \in Nodes : Claims(p, n)' => Claims(p, n)
  BY <1>8 DEF Claims, Sits, Reserve
<1> QED  BY <1>7, <1>8, <1>9 DEF Settles, Follows

\* Nothing happens at all.
LEMMA StutterSettles ==
    ASSUME IInv, Settled,
           UNCHANGED <<api, api_nodes, pod_stream, node_stream, mirror, relisting, seen>>,
           UNCHANGED <<active, unschedulable, backoff, in_flight, nodes, pod_locations>>,
           UNCHANGED <<assumed, todo>>
    PROVE  Settles
<1>1. Ordered'
  BY OrderedStays DEF Settled, apiVars, watchVars
<1>2. \A p \in Pods : OneShelf(p)' /\ (Shelved(p)' <=> Shelved(p))
  BY ShelvesStay DEF Settled, Alone
<1>3. \A p \in Pods : /\ Confirming(p)' <=> Confirming(p)
                      /\ Leaving(p) => Leaving(p)'
                      /\ Reserved(p) => Reserved(p)'
                      /\ Somewhere(p)' <=> Somewhere(p)
  BY <1>2 DEF Confirming, Informed, Leaving, ToldGone, Reserved, Somewhere, Has, Returned
<1>4. \A p \in Pods : Account(p)'
  <2> TAKE p \in Pods
  <2>1. /\ Account(p) /\ api'[p] = api[p] /\ pod_locations'[p] = pod_locations[p]
        /\ assumed'[p] \in {assumed[p], None}
    BY DEF Settled
  <2> QED  BY <2>1, <1>3, AccountStays
<1>5. \A p \in Pods : (Unseen(p)' => Unseen(p)) /\ (Off(p) => Off(p)')
  BY <1>3 DEF Unseen, Off
<1> QED  BY <1>1, <1>2, <1>3, <1>4, <1>5, ClusterSettles

\* what becomes of a pod that somebody else than the scheduler writes
Onward(old, new) == \/ new = old \/ new = "gone"
                    \/ old = "none" /\ new = "pending"
                    \/ old = "pending" /\ new = "terminating"

\* A pod is created, written, on its way out, or gone.
LEMMA PodsSettle ==
    ASSUME IInv, Settled, NEW q \in Pods, NEW pod \in Pod, NEW kind \in {"Apply", "Delete"},
           Write(q, pod, kind), pod.node = api[q].node,
           pod.state # "none", api[q].state # "gone", kind = "Delete" <=> pod.state = "gone",
           Onward(api[q].state, pod.state)
    PROVE  Settles
<1>1. /\ api' = [api EXCEPT ![q] = pod]
      /\ UNCHANGED <<node_stream, watchVars, active, unschedulable, backoff>>
      /\ UNCHANGED <<pod_locations, assumed, todo>> /\ Api /\ Ordered
  BY DEF Write, queueVars, cacheVars, IInv, Shape, Settled
<1>2. api'[q] = pod /\ \A p \in Pods : p # q => api'[p] = api[p]
  BY <1>1 DEF Api
<1>3. PICK ev : ev = Told(kind, q, pod)
  OBVIOUS
<1>4. /\ ev \in News /\ ev.uid = q /\ ev.type = kind /\ ev.node = pod.node
      /\ ev.state = pod.state
  BY <1>3 DEF Told, News, Pod
<1>5. pod_stream' = Append(pod_stream, ev)
  BY <1>2, <1>3 DEF Write, Event, Told
<1>6. /\ \A p : Confirms(ev, p) <=> p = q /\ kind = "Apply" /\ pod.node # None
      /\ \A p : NewTo(ev, p) => p = q /\ api[q].state = "none"
  <2>1. \A p : Confirms(ev, p) <=> p = q /\ kind = "Apply" /\ pod.node # None
    BY <1>4 DEF Confirms
  <2>2. ASSUME NEW p, NewTo(ev, p) PROVE p = q /\ api[q].state = "none"
    <3>1. /\ p = q /\ pod.node = None /\ pod.state # "terminating" /\ kind = "Apply"
          /\ mirror[q] = None /\ \A k \in DOMAIN pod_stream : ~NewsOf(pod_stream[k], q)
      BY <2>2, <1>4 DEF NewTo, NewPod
    <3>2. api[q].state # "pending"
      BY <3>1, <1>1 DEF Ordered
    <3>3. api[q].state # "bound"
      BY <3>1, <1>1 DEF Api
    <3>4. api[q].state \in States
      BY <1>1 DEF Api, Pod
    <3> QED  BY <3>1, <3>2, <3>3, <3>4 DEF Onward, States
  <2> QED  BY <2>1, <2>2
<1>7. api[q].state = "none" => ~Somewhere(q)
  BY DEF Settled, Account
<1>8. Ordered'
  <2>1. /\ ev.type = "Delete" => api'[q].state = "gone"
        /\ ev.node = api'[q].node /\ ev.state = api'[q].state
        /\ api[q].node # None => api'[q].node = api[q].node
        /\ api[q].state = "terminating" => api'[q].state \in {"terminating", "gone"}
    BY <1>2, <1>4 DEF Onward
  <2> QED  BY <2>1, <1>1, <1>2, <1>4, <1>5, OrderGrows
<1>9. \A p \in Pods : /\ Informed(p)' <=> \/ Informed(p)
                                          \/ p = q /\ kind = "Apply" /\ pod.node # None
                      /\ ToldGone(p)' <=> ToldGone(p) \/ (kind = "Delete" /\ p = q)
                      /\ OneShelf(p)'
                      /\ Shelved(p)' => Shelved(p) \/ ~Somewhere(p)
                      /\ Shelved(p)' => Shelved(p) \/ (p = q /\ api[q].state = "none")
  <2> TAKE p \in Pods
  <2>1. OneShelf(p) /\ UNCHANGED mirror
    BY <1>1 DEF Settled, Alone, watchVars
  <2>2. NewTo(ev, p) => ~Shelved(p)
    BY <1>6, <1>7 DEF Somewhere
  <2>3. /\ Informed(p)' <=> Informed(p) \/ Confirms(ev, p)
        /\ ToldGone(p)' <=> ToldGone(p) \/ (ev.type = "Delete" /\ ev.uid = p)
        /\ OneShelf(p)' /\ (Shelved(p)' <=> Shelved(p) \/ NewTo(ev, p))
    BY <2>1, <2>2, <1>1, <1>4, <1>5, StreamGrows
  <2> QED  BY <2>3, <1>4, <1>6, <1>7
<1>10. \A p \in Pods : /\ p # q => (Confirming(p)' <=> Confirming(p))
                       /\ Confirming(p) => Confirming(p)'
                       /\ Leaving(p) => Leaving(p)'
                       /\ Reserved(p) <=> Reserved(p)'
  BY <1>1, <1>9 DEF Confirming, Leaving, Reserved, Returned
<1>15. Unseen(q)' => Unseen(q)
  <2>1. CASE Confirming(q)
    BY <2>1, <1>1, <1>2 DEF Unseen
  <2>2. CASE ~Confirming(q) /\ api[q].state = "bound"
    <3>1. pod_locations[q] = api[q].node /\ api[q].node # None
      BY <2>2, <1>1 DEF Settled, Account, Api
    <3> QED  BY <3>1, <1>1 DEF Unseen
  <2>3. CASE ~Confirming(q) /\ api[q].state # "bound"
    <3>1. api[q].node = None
      BY <2>3 DEF Settled, Account
    <3> QED  BY <3>1, <1>2 DEF Unseen
  <2> QED  BY <2>1, <2>2, <2>3
<1>11. \A p \in Pods : Somewhere(p)' => Somewhere(p) \/ (p = q /\ api[q].state = "none")
  <2>1. \A p \in Pods, t \in Tasks : Has(t, p)' => Has(t, p)
    BY <1>1 DEF Has
  <2> QED  BY <2>1, <1>9 DEF Somewhere
<1>12. \A p \in Pods : /\ Unseen(p)' => Unseen(p)
                       /\ Off(p) => Off(p)'
                       /\ api'[p].node = api[p].node
                       /\ api[p].state # "none" =>
                             api'[p].state # "none" /\ (Somewhere(p)' => Somewhere(p))
  <2>1. \A p \in Pods : p # q => (Unseen(p)' => Unseen(p))
    BY <1>1, <1>2, <1>10 DEF Unseen
  <2> QED  BY <2>1, <1>2, <1>10, <1>11, <1>15 DEF Off
<1>13. \A p \in Pods : Account(p)'
  <2>1. ASSUME NEW p \in Pods, p # q PROVE Account(p)'
    <3>1. /\ Account(p) /\ api'[p] = api[p] /\ pod_locations'[p] = pod_locations[p]
          /\ assumed'[p] \in {assumed[p], None}
          /\ Somewhere(p)' => Somewhere(p)
      BY <2>1, <1>1, <1>2, <1>11 DEF Settled
    <3> QED  BY <2>1, <3>1, <1>10, AccountStays
  <2>2. Account(q)'
    <3>1. Account(q)
      BY DEF Settled
    <3>2. api[q].state = "none" => api[q].node = None
      BY <1>1 DEF Api, Past
    <3>3. pod.state = "gone" => Leaving(q)'
      BY <1>9 DEF Leaving
    <3>4. /\ api'[q].node = api[q].node /\ api'[q].state = pod.state
          /\ pod_locations'[q] = pod_locations[q] /\ assumed'[q] = assumed[q]
      BY <1>1, <1>2
    <3>5. api'[q].node # None => api'[q].state \in {"bound", "gone"}
      BY <3>1, <3>4 DEF Onward, Account
    <3>7. api'[q].state = "bound" => api[q].state = "bound"
      BY <3>4 DEF Onward
    <3>6. api'[q].node # None \/ api'[q].state = "none" => ~Somewhere(q)'
      BY <3>1, <3>2, <3>4, <1>11 DEF Account
    <3> QED  BY <3>1, <3>3, <3>4, <3>5, <3>6, <3>7, <1>10 DEF Account
  <2> QED  BY <2>1, <2>2
<1>14. \A p \in Pods : Somewhere(p)' => Somewhere(p) \/ Announced(p)'
  <2>1. \A p \in Pods : Shelved(p)' => Shelved(p) \/ Announced(p)'
    <3>1. \A p \in Pods : Queued(p)' <=> Queued(p)
      BY <1>1 DEF Queued, Waiting
    <3> QED  BY <3>1 DEF Shelved
  <2>2. \A p \in Pods, t \in Tasks : Has(t, p)' => Has(t, p)
    BY <1>1 DEF Has
  <2> QED  BY <2>1, <2>2 DEF Somewhere
<1> QED  BY <1>1, <1>8, <1>9, <1>10, <1>12, <1>13, <1>14, ClusterSettles

LEMMA WritersSettle ==
    ASSUME IInv, Settled, NEW q \in Pods,
           \/ CreatePod(q) \/ RemoveGate(q) \/ EditPod(q) \/ Report(q)
           \/ TerminatePod(q) \/ DeletePod(q)
    PROVE  Settles
<1> DEFINE was == api[q]
<1>1. /\ was \in Pod
      /\ was.node # None => Past(q)
      /\ Account(q)
  BY DEF IInv, Shape, Api, Settled
<1>2. CASE CreatePod(q)
  <2>1. PICK pod : pod = [was EXCEPT !.state = "pending"]
    OBVIOUS
  <2>2. pod \in Pod /\ pod.state = "pending" /\ pod.node = was.node
    BY <2>1, <1>1 DEF Pod, States
  <2>3. was.state = "none" /\ Write(q, pod, "Apply")
    BY <2>1, <1>2 DEF CreatePod
  <2> QED  BY <2>2, <2>3, PodsSettle DEF Onward
<1>3. CASE TerminatePod(q)
  <2>1. PICK pod : pod = [was EXCEPT !.state = "terminating"]
    OBVIOUS
  <2>2. pod \in Pod /\ pod.state = "terminating" /\ pod.node = was.node
    BY <2>1, <1>1 DEF Pod, States
  <2>3. was.state = "pending" /\ Write(q, pod, "Apply")
    BY <2>1, <1>3 DEF TerminatePod
  <2> QED  BY <2>2, <2>3, PodsSettle DEF Onward
<1>4. CASE DeletePod(q)
  <2>1. PICK pod : pod = [was EXCEPT !.state = "gone"]
    OBVIOUS
  <2>2. pod \in Pod /\ pod.state = "gone" /\ pod.node = was.node
    BY <2>1, <1>1 DEF Pod, States
  <2>3. was.state \in {"pending", "bound", "terminating"} /\ Write(q, pod, "Delete")
    BY <2>1, <1>4 DEF DeletePod, Living
  <2> QED  BY <2>2, <2>3, PodsSettle DEF Onward
<1>5. ASSUME was.state \in Living, Write(q, was, "Apply") PROVE Settles
  BY <1>1, <1>5, PodsSettle DEF Living, Onward
<1>6. CASE EditPod(q)
  BY <1>5, <1>6 DEF EditPod
<1>7. CASE Report(q)
  <2>1. CASE was.state \in Living /\ Write(q, was, "Apply")
    BY <2>1, <1>5
  <2>2. CASE UNCHANGED <<apiVars, watchVars, queueVars, cacheVars, todo>>
    BY <2>2, StutterSettles DEF apiVars, watchVars, queueVars, cacheVars
  <2> QED  BY <2>1, <2>2, <1>7 DEF Report
<1>8. CASE RemoveGate(q)
  <2>1. PICK pod : pod = [was EXCEPT !.gated = FALSE]
    OBVIOUS
  <2>2. pod \in Pod /\ pod.state = was.state /\ pod.node = was.node
    BY <2>1, <1>1 DEF Pod
  <2>3. was.state = "pending" /\ Write(q, pod, "Apply")
    BY <2>1, <1>8 DEF RemoveGate
  <2> QED  BY <2>2, <2>3, PodsSettle DEF Onward
<1> QED  BY <1>2, <1>3, <1>4, <1>6, <1>7, <1>8

LEMMA NodeJoinsSettles ==
    ASSUME IInv, Settled, NEW n \in Nodes, NodeJoins(n)
    PROVE  Settles
<1>1. /\ node_stream' = Append(node_stream, NodeEvent("Apply", n))
      /\ UNCHANGED <<api, pod_stream, mirror, watchVars, active, unschedulable, backoff>>
      /\ UNCHANGED <<pod_locations, assumed, todo>>
      /\ node_stream \in Seq(NodeEvents) /\ Ordered
  BY DEF NodeJoins, watchVars, queueVars, cacheVars, IInv, Shape, Api, Settled
<1>2. PICK ev : ev = NodeEvent("Apply", n)
  OBVIOUS
<1>3. \A k \in DOMAIN node_stream' : \/ k \in DOMAIN node_stream /\ node_stream'[k] = node_stream[k]
                                     \/ node_stream'[k] = ev
  <2>1. ev \in NodeEvents
    BY <1>2 DEF NodeEvent, NodeEvents
  <2> QED  BY <2>1, <1>1, <1>2
<1>4. \A k \in DOMAIN node_stream' : node_stream'[k].type = "Apply"
  BY <1>1, <1>2, <1>3 DEF Ordered, NodeEvent
<1>5. Ordered'
  BY <1>1, <1>4 DEF Ordered, watchVars, NewPod, NewsOf, IsAt
<1>6. \A p \in Pods : /\ OneShelf(p)' /\ (Shelved(p)' <=> Shelved(p))
                      /\ Has("watch", p)' <=> Has("watch", p)
  BY <1>1, ShelvesStay DEF Settled, Alone, Has
<1>7. \A p \in Pods : /\ Confirming(p)' <=> Confirming(p)
                      /\ Leaving(p) => Leaving(p)'
                      /\ Reserved(p) => Reserved(p)'
                      /\ Somewhere(p)' <=> Somewhere(p)
  BY <1>1, <1>6 DEF Confirming, Informed, Leaving, ToldGone, Reserved, Somewhere, Has, Returned
<1>8. \A p \in Pods : Account(p)'
  <2> TAKE p \in Pods
  <2>1. /\ Account(p) /\ api'[p] = api[p] /\ pod_locations'[p] = pod_locations[p]
        /\ assumed'[p] \in {assumed[p], None}
    BY <1>1 DEF Settled
  <2> QED  BY <2>1, <1>7, AccountStays
<1>9. \A p \in Pods : (Unseen(p)' => Unseen(p)) /\ (Off(p) => Off(p)')
  BY <1>1, <1>7 DEF Unseen, Off
<1> QED  BY <1>1, <1>5, <1>6, <1>7, <1>8, <1>9, ClusterSettles

-----------------------------------------------------------------------------
(* From the start on *)

LEMMA InitSettles ==
    Init => Settled /\ \A p \in Pods : Somewhere(p) => api[p].state = "pending"
<1> SUFFICES ASSUME Init
             PROVE  Settled /\ \A p \in Pods : Somewhere(p) => api[p].state = "pending"
  OBVIOUS
<1>1. /\ api \in [Pods -> Pod]
      /\ \A p \in Pods : (api[p].state = "bound") <=> (api[p].node # None)
  BY StartsAssumption DEF Init
<1> DEFINE n == Cardinality(Live)
<1>2. /\ n \in Nat
      /\ DOMAIN pod_stream = 1 .. n + 2
      /\ pod_stream[1] = [type |-> "Init"]
      /\ pod_stream[n + 2] = [type |-> "InitDone"]
      /\ \A k \in 2 .. n + 1 : \E p \in Live : pod_stream[k] = Told("Apply", p, api[p])
      /\ \A p \in Live : \E k \in 2 .. n + 1 : pod_stream[k] = Told("Apply", p, api[p])
      /\ \A k, l \in 2 .. n + 1 : pod_stream[k].uid = pod_stream[l].uid => k = l
  BY <1>1, ListIs DEF Init
<1> HIDE DEF n
<1>3. \A k \in DOMAIN pod_stream : \/ pod_stream[k].type \in {"Init", "InitDone"}
                                   \/ k \in 2 .. n + 1
  BY <1>2
<1>4. \A k \in 2 .. n + 1 : /\ pod_stream[k].type = "Apply"
                            /\ pod_stream[k].uid \in Live
                            /\ pod_stream[k].node = api[pod_stream[k].uid].node
                            /\ pod_stream[k].state = api[pod_stream[k].uid].state
  <2> TAKE k \in 2 .. n + 1
  <2>1. PICK p \in Live : pod_stream[k] = Told("Apply", p, api[p])
    BY <1>2
  <2> QED  BY <2>1 DEF Told
<1>5. /\ \A p \in Pods : mirror[p] = None /\ unschedulable[p] = None
      /\ \A p \in Pods : pod_locations[p] = None /\ assumed[p] = None
      /\ active = {} /\ relisting = FALSE
      /\ backoff = [pod \in PodInfo |-> 0]
      /\ node_stream = InTurn(Nodes, LAMBDA m : << NodeEvent("Apply", m) >>)
  BY DEF Init
<1>6. \A t \in Tasks : todo[t] = << >>
  <2>1. todo = [t \in Tasks |-> << >>]
    BY DEF Init
  <2> QED  BY <2>1
<1>7. Entries = {} /\ Waiting = {} /\ Uids(active) = {}
  <2>1. \A pod \in PodInfo : backoff[pod] = 0
    BY <1>5
  <2>2. \A pod \in PodInfo : 1 .. backoff[pod] = {}
    BY <2>1
  <2>3. Entries = {}
    BY <2>2 DEF Entries
  <2>4. Waiting = {}
    BY <2>1 DEF Waiting, Uids
  <2> QED  BY <2>3, <2>4, <1>5 DEF Uids
<1>8. \A p \in Pods : ~Queued(p) /\ \A t \in Tasks : ~Has(t, p)
  BY <1>5, <1>6, <1>7, NoRegion DEF Queued, Has
<1>9. Ordered
  <2>1. ASSUME NEW k \in DOMAIN pod_stream, NEW ev, ev = pod_stream[k]
        PROVE  /\ ev.type = "Apply" /\ ev.node # None => ev.node = api[ev.uid].node
               /\ ev.type = "Apply" /\ ev.state = "terminating"
                    => api[ev.uid].state \in {"terminating", "gone"}
               /\ ev.type # "Delete"
    BY <2>1, <1>3, <1>4
  <2>2. \A k \in DOMAIN node_stream : node_stream[k].type = "Apply"
    <3>1. \A m : Head(<< NodeEvent("Apply", m) >>).type = "Apply"
      BY DEF NodeEvent
    <3> QED  BY <3>1, <1>5 DEF InTurn
  <2>3. ASSUME NEW p \in Pods, api[p].state = "pending"
        PROVE  \E k \in DOMAIN pod_stream : NewsOf(pod_stream[k], p)
    <3>1. p \in Live
      BY <2>3 DEF Live, Living
    <3>2. PICK k \in 2 .. n + 1 : pod_stream[k] = Told("Apply", p, api[p])
      BY <3>1, <1>2
    <3> QED  BY <3>2, <1>2 DEF NewsOf, Told
  <2> QED  BY <2>1, <2>2, <2>3, <1>5 DEF Ordered
<1>10. \A p \in Pods : Somewhere(p) => /\ p \in Live /\ api[p].node = None
                                      /\ api[p].state = "pending"
  <2> SUFFICES ASSUME NEW p \in Pods, Announced(p)
               PROVE  p \in Live /\ api[p].node = None /\ api[p].state = "pending"
    BY <1>8 DEF Somewhere, Shelved
  <2>1. p \in Live /\ api[p].node = None /\ api[p].state # "terminating"
    BY <1>3, <1>4 DEF Announced, FirstNews, NewPod
  <2>2. api[p].state # "bound"
    BY <2>1, <1>1
  <2> QED  BY <2>1, <2>2 DEF Live, Living
<1>11. \A p \in Pods : Alone(p)
  <2> TAKE p \in Pods
  <2>2. OneShelf(p)
    BY <1>7, <1>8 DEF OneShelf
  <2>3. \A t \in Tasks : Once(todo[t], p)
    BY <1>6, NoRegion
  <2> QED  BY <2>2, <2>3, <1>8 DEF Alone
<1>12. \A p \in Pods : Account(p)
  <2> TAKE p \in Pods
  <2>1. api[p].node # None \/ api[p].state = "none" => ~Somewhere(p)
    BY <1>10 DEF Live, Living
  <2>2. api[p].state = "bound" => Confirming(p)
    <3> HAVE api[p].state = "bound"
    <3>1. p \in Live /\ api[p].node # None
      BY <1>1 DEF Live, Living
    <3>2. PICK k \in 2 .. n + 1 : pod_stream[k] = Told("Apply", p, api[p])
      BY <3>1, <1>2
    <3>3. Confirms(pod_stream[k], p) /\ k \in DOMAIN pod_stream
      BY <3>1, <3>2, <1>2 DEF Confirms, Told
    <3> QED  BY <3>3 DEF Confirming, Informed
  <2> QED  BY <2>1, <2>2, <1>1, <1>5 DEF Account
<1>13. \A t \in Tasks : AllTame(todo[t])
  BY <1>6, AllTameEmpty
<1>14. LoopForm /\ AllTame(todo["net"]) /\ \A b \in Binders : BinderForm(b)
  BY <1>13 DEF LoopForm, BinderForm, Tasks
<1>15. WatchForm
  BY <1>13 DEF WatchForm, Allowed, AllTame, Tasks
<1> QED  BY <1>9, <1>10, <1>11, <1>12, <1>14, <1>15 DEF Settled

\* A region that only a node that left brings up.
LEMMA NeverThere ==
    ASSUME Tasked, Settled, NEW t \in Tasks, todo[t] # << >>
    PROVE  Arg(t).op # "remove_node"
<1>1. AllTame(todo[t]) => Tame(Arg(t))
  BY FrontAndRest
<1>2. Tame(Arg(t)) => Arg(t).op # "remove_node"
  BY DEF Tame, Plain
<1>3. CASE t = "watch"
  <2>1. Allowed(Arg(t))
    BY <1>3, FrontAndRest DEF Settled, WatchForm
  <2> QED  BY <2>1, <1>2 DEF Allowed
<1>4. CASE t = "loop"
  <2>1. CASE AllTame(todo["loop"])
    BY <2>1, <1>1, <1>2, <1>4
  <2>2. CASE \E pod \in PodInfo : todo["loop"] = << [op |-> "cycle", pod |-> pod] >>
    BY <2>2, <1>4 DEF Arg
  <2>3. CASE ~AllTame(todo["loop"])
             /\ ~\E pod \in PodInfo : todo["loop"] = << [op |-> "cycle", pod |-> pod] >>
    <3>1. PICK pod \in PodInfo, n \in Nodes :
             \/ todo["loop"] = << Reserve(pod.uid, n), Finished, Spawned(pod, n) >>
             \/ todo["loop"] = << Finished, Spawned(pod, n) >>
             \/ todo["loop"] = << Spawned(pod, n) >>
      BY <2>3 DEF Settled, LoopForm
    <3> QED  BY <3>1, <1>4 DEF Arg, Reserve, Finished, Spawned
  <2> QED  BY <2>1, <2>2, <2>3
<1>5. CASE t = "net"
  BY <1>1, <1>2, <1>5 DEF Settled
<1>6. CASE t \in Binders
  <2>1. BinderForm(t)
    BY <1>6 DEF Settled
  <2>2. CASE AllTame(todo[t])
    BY <2>2, <1>1, <1>2
  <2>3. ASSUME NEW pod \in PodInfo, NEW n \in Nodes, todo[t] = << Asked(pod, n) >>
        PROVE  Arg(t).op = "bind"
    BY <2>3 DEF Arg, Asked
  <2>4. ASSUME NEW p \in Pods, Head(todo[t]) = Returned(p)
        PROVE  Arg(t).op = "remove_pod"
    BY <2>4 DEF Arg, Returned
  <2> QED  BY <2>1, <2>2, <2>3, <2>4 DEF BinderForm
<1> QED  BY <1>3, <1>4, <1>5, <1>6 DEF Tasks

\* What went wrong stays on record.
LEMMA MishapsStay == [Next]_vars => mishaps \subseteq mishaps'
<1> SUFFICES ASSUME [Next]_vars PROVE mishaps \subseteq mishaps'
  OBVIOUS
<1>1. ASSUME NEW t \in Tasks, Step(t) PROVE mishaps \subseteq mishaps'
  BY <1>1 DEF Step, Add, Push, Update, UpdateBackoff, PushBackoff, Replay, ParkRejected,
     Record, Sweep, Dequeue, DequeueBackoff, Forget, AddPod, RemovePod, faultVars
<1>2. ASSUME Watch \/ Loop PROVE mishaps \subseteq mishaps'
  BY <1>2 DEF Watch, Loop, HandleApply, HandleDelete, HandleInit, HandleInitDone,
     HandleNode, UpsertNode, RemoveNode, Done, Schedule, Reject, Spawn, faultVars
<1>3. ASSUME NEW b \in Binders, Answer(b) PROVE mishaps \subseteq mishaps'
  BY <1>3 DEF Answer, Bind, BindRefused, faultVars
<1>4. ASSUME DrainExpiredBackoff \/ FlushTimedOut \/ \E p \in Pods : Pop(p)
      PROVE  mishaps \subseteq mishaps'
  BY <1>4 DEF DrainExpiredBackoff, FlushTimedOut, Pop, faultVars
<1>5. ASSUME Environment PROVE mishaps \subseteq mishaps'
  BY <1>5 DEF Environment, CreatePod, RemoveGate, EditPod, Report, TerminatePod, DeletePod,
     NodeLeaves, NodeJoins, Disconnect, HandleVolume, FailCycle, ReserveRejects,
     BindUnanswered, BindFails, PreBindRejects, Mishap, faultVars
<1>6. CASE UNCHANGED vars
  BY <1>6 DEF vars, faultVars
<1> QED  BY <1>1, <1>2, <1>3, <1>4, <1>5, <1>6 DEF Next

\* What the steps of a cluster to which nothing happened do to the pods.
LEMMA NextFollows ==
    ASSUME IInv, Settled, [Next]_vars, Clean'
    PROVE  Follows /\ (Settles \/ Schedule)
<1>1. Settled /\ Tasked
  BY DEF IInv, Shape
<1>2. ASSUME NEW kind \in Parted, kind \in mishaps' PROVE FALSE
  BY <1>2 DEF Clean
<1>3. ASSUME NEW t \in Tasks, Step(t) PROVE Settles
  <2>1. CASE Add(t) \/ Push(t) \/ PushBackoff(t) \/ Replay(t) \/ ParkRejected(t)
    BY <2>1, <1>1, AddSettles, PushSettles, PushBackoffSettles, ReplaySettles,
       ParkRejectedSettles
  <2>2. CASE Record(t) \/ Sweep(t) \/ Dequeue(t) \/ DequeueBackoff(t)
    BY <2>2, <1>1, RecordSettles, SweepSettles, DequeueSettles, DequeueBackoffSettles
  <2>3. CASE Forget(t) \/ AddPod(t) \/ RemovePod(t)
    BY <2>3, <1>1, ForgetSettles, AddPodSettles, RemovePodSettles
  <2>4. CASE Update(t) \/ UpdateBackoff(t)
    <3>1. "requeued" \notin mishaps'
      BY <1>2 DEF Parted
    <3> QED  BY <2>4, <3>1, <1>1, UpdateSettles, UpdateBackoffSettles
  <2> QED  BY <1>3, <2>1, <2>2, <2>3, <2>4 DEF Step
<1>4. ASSUME Watch PROVE Settles
  <2>1. ~RemoveNode
    BY <1>1, NeverThere DEF RemoveNode, At, Arg, Tasks
  <2> QED  BY <2>1, <1>1, <1>4, HandleApplySettles, HandleDeleteSettles, HandleInitSettles,
              HandleInitDoneSettles, HandleNodeSettles, UpsertNodeSettles DEF Watch
<1>5. ASSUME Loop PROVE Settles \/ (Schedule /\ Follows)
  BY <1>1, <1>5, DoneSettles, ScheduleSettles, GivesUpSettles, SpawnSettles DEF Loop
<1>6. ASSUME NEW b \in Binders, Answer(b) PROVE Settles
  BY <1>1, <1>6, BindSettles, BindRefusedSettles DEF Answer
<1>7. ASSUME DrainExpiredBackoff \/ FlushTimedOut \/ \E p \in Pods : Pop(p) PROVE Settles
  BY <1>1, <1>7, DrainExpiredBackoffSettles, FlushTimedOutSettles, PopSettles
<1>8. ASSUME Environment PROVE Settles
  <2>1. ASSUME NEW p \in Pods, \/ CreatePod(p) \/ RemoveGate(p) \/ EditPod(p) \/ Report(p)
                               \/ TerminatePod(p) \/ DeletePod(p)
        PROVE  Settles
    BY <2>1, <1>1, WritersSettle
  <2>2. ASSUME NEW n \in Nodes, NodeLeaves(n) \/ NodeJoins(n) PROVE Settles
    <3>1. ~NodeLeaves(n)
      BY <1>2 DEF NodeLeaves, Mishap, Parted
    <3> QED  BY <2>2, <3>1, <1>1, NodeJoinsSettles
  <2>3. CASE Disconnect \/ HandleVolume \/ FailCycle \/ ReserveRejects
    <3>1. ~Disconnect
      BY <1>2 DEF Disconnect, Mishap, Parted
    <3> QED  BY <2>3, <3>1, <1>1, HandleVolumeSettles, GivesUpSettles
  <2>4. ASSUME NEW b \in Binders, BindUnanswered(b) \/ BindFails(b) \/ PreBindRejects(b)
        PROVE  Settles
    <3>1. ~BindUnanswered(b)
      BY <1>2 DEF BindUnanswered, Mishap, Parted
    <3> QED  BY <2>4, <3>1, <1>1, BindRefusedSettles
  <2> QED  BY <1>8, <2>1, <2>2, <2>3, <2>4 DEF Environment
<1>9. ASSUME UNCHANGED vars PROVE Settles
  <2>1. UNCHANGED <<apiVars, watchVars, queueVars, cacheVars, todo>>
    BY <1>9 DEF vars
  <2>2. /\ UNCHANGED <<api, api_nodes, pod_stream, node_stream, mirror, relisting, seen>>
        /\ UNCHANGED <<active, unschedulable, backoff, in_flight, nodes, pod_locations>>
        /\ UNCHANGED <<assumed, todo>>
    BY <2>1 DEF apiVars, watchVars, queueVars, cacheVars
  <2> QED  BY <2>2, <1>1, StutterSettles
<1>10. Settles => Follows
  BY DEF Settles
<1> QED  BY <1>3, <1>4, <1>5, <1>6, <1>7, <1>8, <1>9, <1>10 DEF Next

LEMMA NextSettles ==
    IInv /\ (Clean => Settled) /\ [Next]_vars => (Clean => Settled)'
<1> SUFFICES ASSUME IInv, Clean => Settled, [Next]_vars, Clean' PROVE Settled'
  OBVIOUS
<1>1. Settled
  BY MishapsStay DEF Clean
<1> QED  BY <1>1, NextFollows DEF Follows

\* At rest the cache counts the pods the cluster runs, each on its node: a place
\* that was assumed and never bound is given back by the binding cycle, or by the
\* pod's deletion (binder.rs, release; watch.rs 1177), and no bound pod is missing.
THEOREM CacheCounts == Spec => []CacheSettles
<1>1. Init => IInv /\ (Clean => Settled)
  BY InitEstablishes, InitSettles
<1>2. IInv /\ (Clean => Settled) /\ [Next]_vars => IInv' /\ (Clean => Settled)'
  BY NextKeeps, NextSettles
<1>3. IInv /\ (Clean => Settled) => CacheSettles
  <2> SUFFICES ASSUME IInv, Clean => Settled, Quiet, mishaps \cap Parted = {}
               PROVE  /\ \A p \in Pods : pod_locations[p] = IF api[p].state = "bound"
                                                        THEN api[p].node ELSE None
                      /\ \A p \in Pods : assumed[p] = None
    BY DEF CacheSettles
  <2>1. Settled /\ Api
    BY DEF Clean, IInv, Shape
  <2>2. \A t \in Tasks : DOMAIN todo[t] = {}
    BY DEF Quiet
  <2>3. DOMAIN pod_stream = {}
    BY DEF Quiet
  <2>4. \A p : ~Confirming(p) /\ ~Leaving(p) /\ ~Reserved(p)
    BY <2>2, <2>3 DEF Confirming, Informed, Leaving, ToldGone, Reserved, Tasks
  <2>5. ASSUME NEW p \in Pods
        PROVE  /\ pod_locations[p] = IF api[p].state = "bound" THEN api[p].node ELSE None
               /\ assumed[p] = None
    <3>1. Account(p)
      BY <2>1 DEF Settled
    <3>2. CASE api[p].state = "bound"
      BY <3>1, <3>2, <2>4 DEF Account
    <3>3. CASE api[p].state # "bound"
      <4>1. pod_locations[p] = None
        BY <3>1, <3>3, <2>4 DEF Account
      <4> QED  BY <4>1, <3>1, <3>3 DEF Account
    <3> QED  BY <3>2, <3>3
  <2> QED  BY <2>5
<1> QED  BY <1>1, <1>2, <1>3, PTL DEF Spec

-----------------------------------------------------------------------------
(* What a node has room for.                                                 *)

\* the pods that count on a node: there in the cache, about to be, or there in
\* the cluster, which the cache has still to hear
Claimants(n) == {p \in Pods : Claims(p, n) /\ api[p].state # "gone"}
Room == \A n \in Nodes : Cardinality(Claimants(n)) <= Capacity[n]

\* the watch has p in its hands, for the cache
Awaited(p) == \E r : Sits("watch", r) /\ r.op = "add_pod" /\ r.uid = p

\* a pod that runs and is not in the cache has not been told since the start
Listing == \A p \in Pods : Unseen(p) /\ api[p].state = "bound" => Unlisted(p)

\* A step of a task leaves the regions that it and the others have still to run.
LEMMA RegionsStay ==
    ASSUME IInv, NEW t \in Tasks, Step(t), NEW u \in Tasks, NEW r, Sits(u, r)
    PROVE  Sits(u, r)' \/ (u = t /\ todo[t] # << >> /\ r = Arg(t))
<1>1. Tasked /\ Queues /\ << >> \in Seq(Regions)
  BY DEF IInv, Shape
<1>2. ASSUME NEW ops \in Seq(Regions), todo[t] # << >>, Goto(t, ops)
      PROVE  Sits(u, r)' \/ (u = t /\ todo[t] # << >> /\ r = Arg(t))
  <2>1. Runs(t, ops)
    BY <1>2 DEF Runs
  <2> QED  BY <2>1, <1>1, <1>2, StillThere DEF Sits
<1>3. ASSUME NEW op \in {"add", "push_active", "update", "update_backoff"}, At(t, op)
      PROVE  Arg(t).pod \in PodInfo
  BY <1>1, <1>3, ArgIs DEF Carrying, PodOps
<1>4. CASE Add(t) \/ Push(t) \/ PushBackoff(t) \/ ParkRejected(t) \/ Record(t)
           \/ DequeueBackoff(t) \/ Forget(t) \/ AddPod(t) \/ RemovePod(t)
  BY <1>1, <1>2, <1>4 DEF Add, Push, PushBackoff, ParkRejected, Record, DequeueBackoff,
                          Forget, AddPod, RemovePod, At
<1>5. CASE Update(t)
  <2>1. PICK pod \in PodInfo : pod = Arg(t).pod
    BY <1>3, <1>5 DEF Update
  <2>2. push(pod) \in Seq(Regions)
    BY QueueingHandlers DEF Safe
  <2>3. << [op |-> "update_backoff", pod |-> pod] >> \in Seq(Regions)
    BY HoldingHandlers DEF Safe, PodOps
  <2> QED  BY <2>1, <2>2, <2>3, <1>1, <1>2, <1>5 DEF Update, At
<1>6. CASE UpdateBackoff(t)
  <2>1. PICK pod \in PodInfo : pod = Arg(t).pod
    BY <1>3, <1>6 DEF UpdateBackoff
  <2>2. add(pod) \in Seq(Regions)
    BY QueueingHandlers DEF Safe
  <2> QED  BY <2>1, <2>2, <1>1, <1>2, <1>6 DEF UpdateBackoff, At
<1>7. CASE Replay(t)
  <2>1. At(t, "replay")
    BY <1>7 DEF Replay
  <2>2. Arg(t).pod \in PodInfo /\ Arg(t).plugins \in SUBSET Plugins /\ todo[t] # << >>
    BY <2>1, <1>1, ArgIs, RegionFields DEF Carrying, At
  <2>3. PICK pod \in PodInfo, plugins \in SUBSET Plugins :
           pod = Arg(t).pod /\ plugins = Arg(t).plugins
    BY <2>2
  <2>4. PICK a : a = retry(pod)
    OBVIOUS
  <2>5. PICK b : b = << [op |-> "park", pod |-> pod, plugins |-> plugins] >>
    OBVIOUS
  <2>6. a \in Seq(Regions) /\ b \in Seq(Regions)
    BY <2>4, <2>5, QueueingHandlers, Parking DEF Safe
  <2>7. Goto(t, a) \/ Goto(t, b)
    BY <2>3, <2>4, <2>5, <1>7 DEF Replay
  <2> QED  BY <2>2, <2>6, <2>7, <1>2
<1>8. CASE Sweep(t)
  <2>1. PICK out : out = Woken(Arg(t).event)
    OBVIOUS
  <2>2. PICK ops : ops = InTurn(out, LAMBDA p : return(unschedulable[p].pod))
    OBVIOUS
  <2>3. out \in SUBSET Pods /\ \A p \in out : unschedulable[p] # None
    BY <2>1 DEF Woken
  <2>4. ops = [i \in 1 .. Cardinality(out) |->
                 Head(return(unschedulable[SetToSeq(out)[i]].pod))]
    BY <2>2 DEF InTurn
  <2>5. /\ ops = [i \in 1 .. Cardinality(out) |-> ops[i]]
        /\ \A i \in 1 .. Cardinality(out) :
             /\ ops[i].op \in {"add", "push_backoff"}
             /\ ops[i] = [op |-> ops[i].op, pod |-> unschedulable[SetToSeq(out)[i]].pod]
    BY <2>4 DEF return, retry, add
  <2>6. /\ unschedulable' = [p \in Pods |-> IF p \in out THEN None ELSE unschedulable[p]]
        /\ Goto(t, ops) /\ todo[t] # << >>
        /\ UNCHANGED <<active, backoff, in_flight>>
    BY <2>1, <2>2, <1>8 DEF Sweep, At
  <2>7. ops \in Seq(Regions)
    BY <2>3, <2>5, <2>6, <1>1, TakenOut DEF Safe
  <2> QED  BY <2>6, <2>7, <1>2
<1>9. CASE Dequeue(t)
  <2>1. At(t, "remove")
    BY <1>9 DEF Dequeue
  <2>2. Arg(t).uid \in Pods /\ Arg(t).then \in Seq(Endings) /\ todo[t] # << >>
    BY <2>1, <1>1, ArgIs, RegionFields DEF At
  <2>3. PICK q \in Pods, then \in Seq(Regions) : q = Arg(t).uid /\ then = Arg(t).then
    BY <2>2, EndingsAreRegions
  <2>4. [op |-> "remove_backoff", uid |-> q] \in Regions
    BY DEF Regions
  <2>5. PICK a : a = << [op |-> "remove_backoff", uid |-> q] >>
    OBVIOUS
  <2>6. a \in Seq(Regions)
    BY <2>4, <2>5
  <2>7. PICK ops : ops = a \o then
    OBVIOUS
  <2>8. ops \in Seq(Regions)
    BY ONLY <2>3, <2>6, <2>7
  <2>9. Goto(t, ops)
    BY <2>3, <2>5, <2>7, <1>9 DEF Dequeue
  <2> QED  BY <2>2, <2>8, <2>9, <1>2
<1> QED  BY <1>4, <1>5, <1>6, <1>7, <1>8, <1>9 DEF Step

\* A pod on its way to the cache stays on its way, until it is there.
LEMMA StillAwaited ==
    ASSUME IInv, Settled, [Next]_vars, Clean', NEW p \in Pods, Awaited(p)
    PROVE  Awaited(p)' \/ pod_locations'[p] # None
<1>1. PICK r : Sits("watch", r) /\ r.op = "add_pod" /\ r.uid = p
  BY DEF Awaited
<1>2. /\ Sits("watch", r)' => Awaited(p)'
      /\ todo'["watch"] = todo["watch"] => Awaited(p)'
  BY <1>1 DEF Awaited, Sits
<1>3. /\ "watch" \in Tasks /\ "watch" # "loop" /\ "watch" # "net" /\ "watch" \notin Binders
      /\ Tasked /\ todo["watch"] # << >> /\ << >> \in Seq(Regions)
  <2>1. todo["watch"] # << >>
    BY <1>1 DEF Sits
  <2> QED  BY <2>1, NamesAssumption DEF Tasks, IInv, Shape
<1>4. \A kind \in Parted : kind \notin mishaps'
  BY DEF Clean
<1>5. ASSUME NEW t \in Tasks, Step(t) PROVE Awaited(p)' \/ pod_locations'[p] # None
  <2>1. CASE t = "watch" /\ r = Arg("watch")
    <3>1. AddPod("watch")
      BY <1>1, <1>5, <2>1 DEF Step, Add, Push, Update, UpdateBackoff, PushBackoff, Replay,
         ParkRejected, Record, Sweep, Dequeue, DequeueBackoff, Forget, RemovePod, At, Arg
    <3>2. "dropped" \notin mishaps'
      BY <1>4 DEF Parted
    <3>3. /\ r.node \in nodes /\ pod_locations' = [pod_locations EXCEPT ![p] = r.node]
      BY <3>1, <3>2, <1>1, <2>1 DEF AddPod
    <3>4. pod_locations'[p] \in Nodes
      BY <3>3 DEF IInv, Shape, Cached
    <3> QED  BY <3>4, NamesAssumption
  <2>2. CASE ~(t = "watch" /\ r = Arg("watch"))
    BY <2>2, <1>1, <1>2, <1>3, <1>5, RegionsStay
  <2> QED  BY <2>1, <2>2
<1>6. ASSUME Watch PROVE Awaited(p)'
  <2>1. UpsertNode \/ RemoveNode
    BY <1>3, <1>6 DEF Watch, HandleApply, HandleDelete, HandleInit, HandleInitDone,
       HandleNode, Begin
  <2>2. /\ Runs("watch", << >>)
        /\ Arg("watch").op \in {"upsert_node", "remove_node"}
    BY <2>1, <1>3 DEF UpsertNode, RemoveNode, Runs, At, Arg
  <2>3. r # Arg("watch")
    BY <2>2, <1>1
  <2>4. PICK ops \in Seq(Regions) : ops = << >> /\ Runs("watch", ops)
    BY <2>2, <1>3
  <2>5. \A i \in DOMAIN todo["watch"] :
           \/ todo["watch"][i] = Arg("watch")
           \/ \E j \in DOMAIN todo'["watch"] : todo'["watch"][j] = todo["watch"][i]
    BY <2>4, <1>3, StillThere
  <2>6. Sits("watch", r)'
    BY <2>3, <2>5, <1>1 DEF Sits
  <2> QED  BY <2>6, <1>2
<1>7. ASSUME NEW t \in Tasks, t # "watch", NEW ops, Goto(t, ops) PROVE Awaited(p)'
  BY <1>2, <1>3, <1>7 DEF Goto, Tasked
<1>8. ASSUME NEW t \in Tasks, NEW ops, Begin(t, ops) PROVE Awaited(p)'
  <2>1. t # "watch"
    BY <1>3, <1>8 DEF Begin
  <2> QED  BY <2>1, <1>2, <1>3, <1>8 DEF Begin, Tasked
<1>9. ASSUME Loop \/ FailCycle \/ ReserveRejects PROVE Awaited(p)'
  <2>1. "loop" \in Tasks
    BY DEF Tasks
  <2>2. CASE Spawn
    <3>1. PICK b \in Binders : \E regions :
            todo' = [todo EXCEPT !["loop"] = Tail(@), ![b] = regions]
      BY <2>2 DEF Spawn
    <3> QED  BY <3>1, <1>2, <1>3 DEF Tasked
  <2>3. CASE Done
    BY <2>1, <2>3, <1>3, <1>7 DEF Done
  <2>4. CASE Schedule
    BY <2>1, <2>4, <1>3, <1>7 DEF Schedule
  <2>5. CASE Reject \/ FailCycle \/ ReserveRejects
    BY <2>1, <2>5, <1>3, <1>7 DEF Reject, FailCycle, ReserveRejects
  <2> QED  BY <2>2, <2>3, <2>4, <2>5, <1>9 DEF Loop
<1>10. ASSUME NEW b \in Binders, \/ Answer(b) \/ BindUnanswered(b) \/ BindFails(b)
                                 \/ PreBindRejects(b)
       PROVE  Awaited(p)'
  <2>1. b \in Tasks /\ b # "watch"
    BY <1>3 DEF Tasks
  <2> QED  BY <2>1, <1>7, <1>10 DEF Answer, Bind, BindRefused, BindUnanswered, BindFails,
                                    PreBindRejects
<1>11. ASSUME DrainExpiredBackoff \/ FlushTimedOut \/ \E q \in Pods : Pop(q)
       PROVE  Awaited(p)'
  <2>1. "loop" \in Tasks /\ "net" \in Tasks
    BY DEF Tasks
  <2>2. CASE DrainExpiredBackoff
    BY <2>1, <2>2, <1>8 DEF DrainExpiredBackoff
  <2>3. CASE FlushTimedOut
    BY <2>1, <2>3, <1>8 DEF FlushTimedOut
  <2>4. CASE \E q \in Pods : Pop(q)
    BY <2>1, <2>4, <1>8 DEF Pop
  <2> QED  BY <2>2, <2>3, <2>4, <1>11
<1>12. ASSUME Environment PROVE Awaited(p)'
  <2>1. CASE \E q \in Pods : \/ CreatePod(q) \/ RemoveGate(q) \/ EditPod(q) \/ Report(q)
                             \/ TerminatePod(q) \/ DeletePod(q)
    BY <2>1, <1>2 DEF CreatePod, RemoveGate, EditPod, Report, TerminatePod, DeletePod, Write
  <2>2. CASE (\E n \in Nodes : NodeLeaves(n) \/ NodeJoins(n)) \/ Disconnect
    BY <2>2, <1>2 DEF NodeLeaves, NodeJoins, Disconnect
  <2>3. CASE HandleVolume
    BY <2>3, <1>3, <1>8 DEF HandleVolume
  <2> QED  BY <2>1, <2>2, <2>3, <1>9, <1>10, <1>12 DEF Environment
<1>13. CASE UNCHANGED vars
  BY <1>2, <1>13 DEF vars
<1> QED  BY <1>5, <1>6, <1>9, <1>10, <1>11, <1>12, <1>13 DEF Next

\* A pod the watch was not told of is told by its first event.
LEMMA FirstTold ==
    ASSUME IInv, Settled, [Next]_vars, NEW p \in Pods, api[p].state = "bound",
           mirror[p] = None
    PROVE  mirror'[p] = None \/ Awaited(p)'
<1>1. CASE HandleApply
  <2>1. PICK ev : ev = Head(pod_stream)
    OBVIOUS
  <2>2. /\ ev.type = "Apply" /\ Begin("watch", applied(ev)) /\ pod_stream # << >>
        /\ pod_stream' = Tail(pod_stream)
        /\ mirror' = [mirror EXCEPT ![ev.uid] = [gated |-> ev.gated, node |-> ev.node]]
    BY <2>1, <1>1 DEF HandleApply
  <2>3. CASE ev.uid # p
    BY <2>2, <2>3 DEF IInv, Shape, Watching
  <2>4. CASE ev.uid = p
    <3>1. /\ 1 \in DOMAIN pod_stream /\ pod_stream[1] = ev /\ ev \in News
      BY <2>1, <2>2, Shifted DEF PodEvents, IInv, Shape
    <3>2. api[p].node # None
      BY DEF IInv, Shape, Api
    <3>3. ~Announced(p)
      BY <3>2 DEF Settled, Account, Somewhere, Shelved
    <3>4. ~NewPod(ev, p)
      <4>1. \A j \in 1 .. (1 - 1) : ~NewsOf(pod_stream[j], p)
        OBVIOUS
      <4> QED  BY <4>1, <3>1, <3>3 DEF Announced, FirstNews
    <3>5. ev.state # "terminating"
      BY <3>1, <2>2, <2>4 DEF Settled, Ordered
    <3>6. ev.node # None
      BY <3>4, <3>5, <2>2, <2>4 DEF NewPod
    <3>7. Awaited(p)'
      <4>1. PICK c : c = [op |-> "add_pod", uid |-> p, node |-> ev.node, assumed |-> None]
        OBVIOUS
      <4>2. PICK x : x = [op |-> "remove", uid |-> p, then |-> << >>]
        OBVIOUS
      <4>3. /\ c.op = "add_pod" /\ c.uid = p
            /\ x \in Regions /\ c \in Regions /\ << >> \in Seq(Regions)
        <5>1. ev.node \in Nodes /\ << >> \in Seq(Endings)
          BY <3>1, <3>6 DEF News
        <5> QED  BY <5>1, <4>1, <4>2 DEF Regions
      <4>4. PICK one : one = << x >>
        OBVIOUS
      <4>5. PICK two : two = << c >>
        OBVIOUS
      <4>6. PICK both : both = one \o two
        OBVIOUS
      <4>7. one \in Seq(Regions) /\ two \in Seq(Regions) /\ In(c, two)
        BY ONLY <4>3, <4>4, <4>5 DEF In
      <4>8. both \in Seq(Regions)
        BY ONLY <4>6, <4>7
      <4>9. PICK ops : ops = both \o << >>
        OBVIOUS
      <4>10. applied(ev) = ops
        BY <4>1, <4>2, <4>4, <4>5, <4>6, <4>9, <3>6, <2>4 DEF applied, remove, dequeue, confirm
      <4>11. In(c, both) /\ In(c, ops)
        BY ONLY <4>3, <4>6, <4>9, <4>7, <4>8, Halves
      <4>12. todo'["watch"] = ops
        BY <4>10, <2>2 DEF Begin, IInv, Shape, Tasked, Tasks
      <4>13. Sits("watch", c)'
        BY <4>11, <4>12 DEF Sits, In
      <4> QED  BY <4>3, <4>13 DEF Awaited
    <3> QED  BY <3>7
  <2> QED  BY <2>3, <2>4
<1>2. CASE HandleDelete \/ HandleInitDone \/ HandleInit \/ HandleNode \/ UpsertNode \/ RemoveNode
  BY <1>2 DEF HandleDelete, HandleInitDone, HandleInit, HandleNode, UpsertNode, RemoveNode,
              watchVars, IInv, Shape, Watching
<1>3. ASSUME NEW t \in Tasks, Step(t) PROVE mirror' = mirror
  BY <1>3 DEF Step, Add, Push, Update, UpdateBackoff, PushBackoff, Replay, ParkRejected,
              Record, Sweep, Dequeue, DequeueBackoff, Forget, AddPod, RemovePod, watchVars
<1>4. ASSUME Loop \/ DrainExpiredBackoff \/ FlushTimedOut \/ \E q \in Pods : Pop(q)
      PROVE  mirror' = mirror
  BY <1>4 DEF Loop, Done, Schedule, Reject, Spawn, DrainExpiredBackoff, FlushTimedOut, Pop,
              watchVars
<1>5. ASSUME NEW b \in Binders, \/ Answer(b) \/ BindUnanswered(b) \/ BindFails(b)
                                \/ PreBindRejects(b)
      PROVE  mirror' = mirror
  BY <1>5 DEF Answer, Bind, BindRefused, BindUnanswered, BindFails, PreBindRejects, watchVars
<1>6. ASSUME Environment PROVE mirror' = mirror
  BY <1>5, <1>6 DEF Environment, CreatePod, RemoveGate, EditPod, Report, TerminatePod,
     DeletePod, Write, NodeLeaves, NodeJoins, Disconnect, HandleVolume, FailCycle,
     ReserveRejects, watchVars
<1>7. CASE UNCHANGED vars
  BY <1>7 DEF vars, watchVars
<1> QED  BY <1>1, <1>2, <1>3, <1>4, <1>5, <1>6, <1>7 DEF Next, Watch

\* A pod that is gone does not come back.
LEMMA GoneStays ==
    ASSUME Api, [Next]_vars, NEW p \in Pods, api[p].state = "gone"
    PROVE  api'[p].state = "gone"
<1>1. api \in [Pods -> Pod]
  BY DEF Api
<1>2. CASE api' = api
  BY <1>2
<1>3. ASSUME NEW q \in Pods, q # p, NEW pod, api' = [api EXCEPT ![q] = pod]
      PROVE  api'[p].state = "gone"
  BY <1>1, <1>3
<1>4. ASSUME NEW t \in Tasks, Step(t) PROVE api' = api
  BY <1>4 DEF Step, Add, Push, Update, UpdateBackoff, PushBackoff, Replay, ParkRejected,
              Record, Sweep, Dequeue, DequeueBackoff, Forget, AddPod, RemovePod, apiVars
<1>5. ASSUME Watch \/ Loop PROVE api' = api
  BY <1>5 DEF Watch, Loop, HandleApply, HandleDelete, HandleInit, HandleInitDone,
     HandleNode, UpsertNode, RemoveNode, Done, Schedule, Reject, Spawn, apiVars
<1>6. ASSUME NEW b \in Binders, ServerBinds(b) PROVE api'[p].state = "gone"
  <2>1. api[Arg(b).pod.uid].state = "pending"
    BY <1>6 DEF ServerBinds, Bindable
  <2>2. api' = [api EXCEPT ![Arg(b).pod.uid].state = "bound",
                           ![Arg(b).pod.uid].node = Arg(b).node]
    BY <1>6 DEF ServerBinds
  <2>3. Arg(b).pod.uid # p
    BY <2>1
  <2> QED  BY <2>2, <2>3, <1>1
<1>7. ASSUME NEW b \in Binders, \/ Answer(b) \/ BindUnanswered(b) \/ BindFails(b)
                                \/ PreBindRejects(b)
      PROVE  api'[p].state = "gone"
  BY <1>2, <1>6, <1>7 DEF Answer, Bind, BindRefused, BindUnanswered, BindFails,
                          PreBindRejects, apiVars
<1>8. ASSUME DrainExpiredBackoff \/ FlushTimedOut \/ \E q \in Pods : Pop(q)
      PROVE  api' = api
  BY <1>8 DEF DrainExpiredBackoff, FlushTimedOut, Pop, apiVars
<1>9. ASSUME NEW q \in Pods, \/ CreatePod(q) \/ RemoveGate(q) \/ EditPod(q) \/ Report(q)
                             \/ TerminatePod(q) \/ DeletePod(q)
      PROVE  api'[p].state = "gone"
  <2>1. api' = api \/ (api[q].state # "gone" /\ \E pod : api' = [api EXCEPT ![q] = pod])
    BY <1>9 DEF CreatePod, RemoveGate, EditPod, Report, TerminatePod, DeletePod, Write,
                Living, apiVars
  <2> QED  BY <2>1, <1>2, <1>3
<1>10. ASSUME Environment PROVE api'[p].state = "gone"
  <2>1. CASE \E q \in Pods : \/ CreatePod(q) \/ RemoveGate(q) \/ EditPod(q) \/ Report(q)
                             \/ TerminatePod(q) \/ DeletePod(q)
    BY <2>1, <1>9
  <2>2. CASE (\E n \in Nodes : NodeLeaves(n) \/ NodeJoins(n)) \/ Disconnect
             \/ HandleVolume \/ FailCycle \/ ReserveRejects
    BY <2>2, <1>2 DEF NodeLeaves, NodeJoins, Disconnect, HandleVolume, FailCycle,
                      ReserveRejects, apiVars
  <2> QED  BY <2>1, <2>2, <1>7, <1>10 DEF Environment
<1>11. CASE UNCHANGED vars
  BY <1>2, <1>11 DEF vars, apiVars
<1> QED  BY <1>2, <1>4, <1>5, <1>7, <1>8, <1>10, <1>11 DEF Next

LEMMA ListingStays ==
    ASSUME IInv, Settled, [Next]_vars, Clean', Follows, Listing
    PROVE  Listing'
<1> SUFFICES ASSUME NEW p \in Pods, Unseen(p)', api'[p].state = "bound"
             PROVE  Unlisted(p)'
  BY DEF Listing
<1>1. Unseen(p) /\ pod_locations'[p] = None
  BY DEF Follows, Unseen
<1>2. api[p].state = "bound"
  <2>1. api[p].state \in {"bound", "gone"}
    BY <1>1 DEF Settled, Account, Unseen
  <2> QED  BY <2>1, GoneStays DEF IInv, Shape
<1>3. mirror[p] = None \/ Awaited(p)
  BY <1>1, <1>2 DEF Listing, Unlisted, Awaited, Sits
<1>4. mirror'[p] = None \/ Awaited(p)'
  BY <1>1, <1>2, <1>3, StillAwaited, FirstTold
<1>5. Awaited(p)' => \E i \in DOMAIN todo'["watch"] : /\ todo'["watch"][i].op = "add_pod"
                                                     /\ todo'["watch"][i].uid = p
  BY DEF Awaited, Sits
<1> QED  BY <1>1, <1>4, <1>5 DEF Unlisted

LEMMA RoomStays ==
    ASSUME IInv, Settled, [Next]_vars, Clean', "unlisted" \notin mishaps', Listing, Room
    PROVE  Room'
<1>1. Follows /\ (Settles \/ Schedule)
  BY NextFollows
<1>2. \A S \in SUBSET Pods : IsFiniteSet(S) /\ Cardinality(S) \in Nat
  BY FiniteAssumption, FS_Subset, FS_CardinalityType
<1>3. \A n \in Nodes : Capacity[n] \in Nat
  BY CapacityAssumption
<1>4. \A n \in Nodes : Claimants(n) \subseteq Pods /\ Claimants(n)' \subseteq Pods
  BY DEF Claimants
<1>5. ASSUME NEW n \in Nodes, Claimants(n)' \subseteq Claimants(n)
      PROVE  Cardinality(Claimants(n)') <= Capacity[n]
  <2>1. Cardinality(Claimants(n)') <= Cardinality(Claimants(n))
    BY <1>2, <1>4, <1>5, FS_Subset
  <2>2. Cardinality(Claimants(n)) <= Capacity[n]
    BY DEF Room
  <2> QED  BY <2>1, <2>2, <1>2, <1>3, <1>4
<1>6. \A p \in Pods : api[p].state = "gone" => api'[p].state = "gone"
  BY GoneStays DEF IInv, Shape
<1>8. CASE Settles
  <2>1. \A n \in Nodes : Claimants(n)' \subseteq Claimants(n)
    BY <1>6, <1>8 DEF Settles, Claimants
  <2> QED  BY <2>1, <1>5 DEF Room
<1>7. CASE Schedule
  <2>1. PICK pod \in PodInfo, n \in Feasible, ops \in Seq(Regions) :
              /\ DOMAIN ops = 1 .. 3 /\ ops[1] = Reserve(pod.uid, n)
              /\ ops[2] = Finished /\ ops[3] = Spawned(pod, n)
              /\ pod.uid \in Pods /\ n \in Nodes
              /\ \A p : AtHand("loop", p) <=> p = pod.uid
              /\ todo'["loop"] = ops
    BY <1>7, ChoiceIs
  <2> DEFINE u == pod.uid
             there == {p \in Pods : pod_locations[p] = n}
  <2>2. UNCHANGED pod_locations
    BY <1>7 DEF Schedule, cacheVars
  <2>3. \A p \in Pods : ~Unlisted(p)
    BY <1>7 DEF Schedule
  <2>4. \A p \in Pods : Unseen(p)' => api'[p].state = "gone"
    <3> TAKE p \in Pods
    <3>1. HAVE Unseen(p)'
    <3>2. Unseen(p)
      BY <3>1, <1>1 DEF Follows
    <3>3. api[p].state # "bound"
      BY <3>2, <2>3 DEF Listing
    <3>4. api[p].state = "gone"
      BY <3>2, <3>3 DEF Settled, Account, Unseen
    <3> QED  BY <3>4, <1>6
  <2>5. ASSUME NEW p \in Pods, NEW m \in Nodes, Claims(p, m)',
               api'[p].state # "gone"
        PROVE  pod_locations[p] = m \/ (p = u /\ m = n)
    <3>1. pod_locations[p] = m \/ Sits("loop", Reserve(p, m))'
      BY <2>2, <2>4, <2>5 DEF Claims
    <3>2. ASSUME Sits("loop", Reserve(p, m))' PROVE p = u /\ m = n
      <4>1. PICK i \in 1 .. 3 : ops[i] = Reserve(p, m)
        BY <3>2, <2>1 DEF Sits
      <4>2. Reserve(p, m) # Finished /\ Reserve(p, m) # Spawned(pod, n)
        <5>1. /\ Reserve(p, m).op = "add_pod" /\ Finished.op = "done"
              /\ Spawned(pod, n).op = "spawn"
          BY DEF Reserve, Finished, Spawned
        <5> QED  BY <5>1
      <4>3. Reserve(p, m) = Reserve(u, n)
        BY <4>1, <4>2, <2>1
      <4> QED  BY <4>3 DEF Reserve
    <3> QED  BY <3>1, <3>2
  <2> HIDE DEF u
  <2>6. ASSUME NEW m \in Nodes, m # n PROVE Claimants(m)' \subseteq Claimants(m)
    <3>1. \A p \in Pods : Claims(p, m)' /\ api'[p].state # "gone" => pod_locations[p] = m
      BY <2>5, <2>6
    <3> QED  BY <3>1, <1>6 DEF Claimants, Claims
  <2>7. Cardinality(Claimants(n)') <= Capacity[n]
    <3>1. Claimants(n)' \subseteq there \cup {u} /\ u \in Pods
      BY <2>5, <2>1 DEF Claimants, u
    <3>2. ~(Cardinality(there) >= Capacity[n])
      BY <2>1 DEF Feasible, Full
    <3>3. there \subseteq Pods /\ there \cup {u} \subseteq Pods
      BY <3>1
    <3> HIDE DEF there
    <3>4. /\ Cardinality(there \cup {u}) <= Cardinality(there) + 1
          /\ Cardinality(there) \in Nat /\ Cardinality(there \cup {u}) \in Nat
      BY <3>3, <1>2, FS_AddElement
    <3>5. Cardinality(Claimants(n)') <= Cardinality(there \cup {u})
      BY <3>1, <3>3, <1>2, FS_Subset
    <3> QED  BY <3>2, <3>4, <3>5, <2>1, <1>2, <1>3, <1>4
  <2> QED  BY <2>6, <2>7, <2>1, <1>5 DEF Room
<1> QED  BY <1>1, <1>7, <1>8

LEMMA InitHasRoom == StartsFit /\ Init => Listing /\ Room
<1> SUFFICES ASSUME StartsFit, Init PROVE Listing /\ Room
  OBVIOUS
<1>1. PICK s \in Starts : api = s.api
  BY DEF Init
<1>2. \A n \in Nodes : Cardinality({p \in Pods : api[p].node = n}) <= Capacity[n]
  BY <1>1 DEF StartsFit
<1>3. Listing
  <2>1. \A p \in Pods : mirror[p] = None
    BY DEF Init
  <2> QED  BY <2>1 DEF Listing, Unseen, Unlisted
<1>4. ASSUME NEW n \in Nodes PROVE Cardinality(Claimants(n)) <= Capacity[n]
  <2>1. ASSUME NEW p \in Pods, Claims(p, n) PROVE api[p].node = n
    <3>1. pod_locations[p] = None /\ n # None
      BY NamesAssumption DEF Init
    <3>2. ~Sits("loop", Reserve(p, n))
      <4>1. todo["loop"] = << >>
        BY DEF Init, Tasks
      <4> QED  BY <4>1 DEF Sits
    <3> QED  BY <2>1, <3>1, <3>2 DEF Claims
  <2> DEFINE placed == {p \in Pods : api[p].node = n}
  <2>2. Claimants(n) \subseteq placed /\ placed \subseteq Pods
    BY <2>1 DEF Claimants
  <2>3. Cardinality(placed) <= Capacity[n]
    BY <1>2
  <2> HIDE DEF placed
  <2>4. Cardinality(Claimants(n)) <= Cardinality(placed)
    BY <2>2, FiniteAssumption, FS_Subset
  <2> QED
    BY <2>2, <2>3, <2>4, FiniteAssumption, FS_Subset, FS_CardinalityType,
       CapacityAssumption
<1> QED  BY <1>3, <1>4 DEF Room

\* Where there is room at the start, no node is ever given more pods than fit, as
\* long as nothing parts the cache from the cluster and no node is chosen before
\* the cache was told of the pods bound at the start: the loop alone gives places
\* out, one pod at a time, from the cache it has just reserved the last one in
\* (cache/assume.rs; cache/snapshot.rs 371).
THEOREM NodesHaveRoom == StartsFit => (Spec => []NotOvercommitted)
<1> SUFFICES ASSUME StartsFit PROVE Spec => []NotOvercommitted
  OBVIOUS
<1> DEFINE Inv == /\ IInv /\ (Clean => Settled /\ Listing)
                  /\ Clean /\ "unlisted" \notin mishaps => Room
<1>1. Init => Inv
  BY InitEstablishes, InitSettles, InitHasRoom
<1>2. Inv /\ [Next]_vars => Inv'
  <2> SUFFICES ASSUME Inv, [Next]_vars PROVE Inv'
    OBVIOUS
  <2>1. IInv'
    BY NextKeeps
  <2>2. mishaps \subseteq mishaps'
    BY MishapsStay
  <2>3. ASSUME Clean' PROVE Settled' /\ Listing'
    <3>1. Settled /\ Listing
      BY <2>2, <2>3 DEF Clean
    <3>2. Follows
      BY <2>3, <3>1, NextFollows
    <3> QED  BY <2>3, <3>1, <3>2, ListingStays DEF Follows
  <2>4. ASSUME Clean', "unlisted" \notin mishaps' PROVE Room'
    <3>1. Settled /\ Listing /\ Room
      BY <2>2, <2>4 DEF Clean
    <3> QED  BY <2>4, <3>1, RoomStays
  <2> QED  BY <2>1, <2>3, <2>4
<1>3. Inv => NotOvercommitted
  <2> SUFFICES ASSUME Inv, mishaps \cap (Parted \cup {"unlisted"}) = {}, NEW n \in Nodes
               PROVE  Cardinality(On(n)) <= Capacity[n]
    BY DEF NotOvercommitted
  <2>1. Settled /\ Room /\ n # None
    BY NamesAssumption DEF Clean
  <2>2. ASSUME NEW p \in On(n) PROVE p \in Claimants(n)
    <3>1. p \in Pods /\ api[p].state = "bound" /\ api[p].node = n
      BY DEF On
    <3>2. Account(p)
      BY <2>1, <3>1 DEF Settled
    <3>3. Claims(p, n)
      BY <2>1, <3>1, <3>2 DEF Account, Claims, Unseen
    <3> QED  BY <3>1, <3>3 DEF Claimants
  <2>3. Claimants(n) \subseteq Pods /\ On(n) \subseteq Claimants(n)
    BY <2>2 DEF Claimants
  <2>4. Cardinality(Claimants(n)) <= Capacity[n]
    BY <2>1 DEF Room
  <2> QED
    BY <2>3, <2>4, FiniteAssumption, FS_Subset, FS_CardinalityType, CapacityAssumption
<1> QED  BY <1>1, <1>2, <1>3, PTL DEF Spec
=============================================================================
