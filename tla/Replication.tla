----------------------------- MODULE Replication -----------------------------
(***************************************************************************)
(* A cluster of nodestore members (crates/nodestore/src/replication):      *)
(* each runs one driver task over a RawNode, a raft log in raft.db, a      *)
(* store in its own database, and a tracker of callers waiting for their   *)
(* writes.  One action is one pass of Driver::run - a tick, a request, or  *)
(* a message, then on_ready to its end - or a pass that the death of the   *)
(* process cuts short between two of its writes.                           *)
(*                                                                         *)
(* A log here keeps its compacted entries; `snap` says how many there are. *)
(***************************************************************************)
EXTENDS Raft

CONSTANTS
    Proposers,      \* members whose clients write
    Refuses,        \* commands every store refuses (an Err from apply_at)
    MaxTerm,        \* bound: terms
    MaxCalls,       \* bound: writes asked for
    MaxDeaths,      \* bound: deaths of processes
    PowerLoss       \* whether a death takes unsynced store transactions along

VARIABLES
    disk,       \* raft.db, synchronous = FULL
    store,      \* state.db: the commands applied, with their indexes
    raw,        \* the RawNode
    cached,     \* RaftLog's snapshot, in memory
    status,     \* up, stopped (the driver gave up), down, refused (cannot start)
    next_id,    \* ProposalTracker::next_id
    calls,      \* every write ever asked for; command c is the c-th
    net,        \* messages sent, never forgotten
    deaths      \* deaths of processes still to come, at most

durable  == <<disk, store>>
volatile == <<raw, cached, status, next_id>>
repVars  == <<durable, volatile, calls, net, deaths>>

Up(m) == status[m] = "up"

NoDisk == [log |-> <<>>, snap |-> 0, term |-> 0, vote |-> None, commit |-> 0]

applied_index_unread(s) == 0      \* variant: raft is not told where the store stands

(* Store::applied_index: written with a command, so not by an empty entry.  *)
applied_index(s) == Max({0} \cup {e.index : e \in s})

(***************************************************************************)
(* RaftLog.                                                                *)
(***************************************************************************)

append(d, first, entries) == [d EXCEPT !.log = SubSeq(@, 1, first - 1) \o entries]

set_hard_state_voteless(d, r) ==      \* variant: the vote is not kept
    [d EXCEPT !.term = r.term, !.commit = r.commit]

set_hard_state(d, r) == [d EXCEPT !.term = r.term, !.vote = r.vote, !.commit = r.commit]

(* Entries above the snapshot stay, whatever they are.  *)
install_snapshot(d, s) ==
    [d EXCEPT !.log = s.log \o SubSeq(@, s.index + 1, Len(@)), !.snap = s.index]

(* reconcile_commit_with_applied, and when it is an error.  *)
BehindTheStore(d, applied) == applied > d.commit /\ applied > Len(d.log)

reconcile_nothing(d, applied) == d      \* variant: commit as it was written

reconcile(d, applied) == [d EXCEPT !.commit = Max({@, applied})]

(***************************************************************************)
(* ProposalTracker.                                                        *)
(***************************************************************************)

WaitsAt(call, m) == call.at = m /\ call.result = "waiting"

(* complete, for each of the entries applied: the waiter is found by id.  *)
complete(m, cs, entries) ==
    [c \in DOMAIN cs |->
        LET mine == {i \in DOMAIN entries : entries[i].id = cs[c].id}
        IN  IF WaitsAt(cs[c], m) /\ mine # {}
            THEN [cs[c] EXCEPT !.result = "ok", !.got = entries[Min(mine)].cmd]
            ELSE cs[c]]

fail_all(m, cs, reason) ==
    [c \in DOMAIN cs |->
        IF WaitsAt(cs[c], m) THEN [cs[c] EXCEPT !.result = reason] ELSE cs[c]]

(* The driver is gone, and the channel into it.  *)
Abandoned(m, cs) ==
    [c \in DOMAIN cs |->
        IF cs[c].at = m THEN [fail_all(m, cs, "unknown")[c] EXCEPT !.queued = FALSE]
        ELSE cs[c]]

StopsNowhere(log, i, j) == j + 1      \* variant: log the error and carry on

(* The first entry in i+1 .. j that the store refuses, or j + 1.  *)
StopsAt(log, i, j) == Min({j + 1} \cup {k \in i + 1 .. j : log[k].cmd \in Refuses})

Commands(log, i, j) ==
    {[index |-> k, cmd |-> log[k].cmd] : k \in {h \in i + 1 .. j : log[h].cmd # 0}}

ApplyTo(s, log, i, j) == s \cup {e \in Commands(log, i, j) : e.cmd \notin Refuses}

(* A leader's appends are messages(): they go out before its own log is     *)
(* written.                                                                *)
bcast_append(m, r) ==
    IF r.role = "leader"
    THEN {[type |-> "append", from |-> m, term |-> r.term, log |-> r.log,
           commit |-> r.commit, snap |-> disk[m].snap]}
    ELSE {}

Ack(m, term, match) == [type |-> "ack", from |-> m, term |-> term, match |-> match]

(* Votes and acknowledgements are persisted_messages(), and so is what a    *)
(* leader counts for itself.                                               *)
persisted_messages(m, r, out) ==
    out \cup IF r.role = "leader" THEN {Ack(m, r.term, Len(r.log))} ELSE {}

SentFirst(m, r, out) ==         \* variant: all messages before the log is written
    net \cup bcast_append(m, r) \cup persisted_messages(m, r, out)

(* What has gone out while the log is not written yet.  *)
SentUnpersisted(m, r, out) == net \cup bcast_append(m, r)

(* What a death leaves of a store: synchronous = NORMAL keeps a beginning.  *)
Left(s) == {s} \cup {{e \in s : e.index < d.index} : d \in {d \in s : PowerLoss}}

(* The process dies and leaves what is on disk.  Callers in cs not told yet *)
(* learn that the connection broke.                                        *)
Die(m, left_disk, left_store, left_net, cs) ==
    /\ deaths > 0
    /\ deaths' = deaths - 1
    /\ status' = [status EXCEPT ![m] = "down"]
    /\ disk' = [disk EXCEPT ![m] = left_disk]
    /\ \E kept \in Left(left_store) : store' = [store EXCEPT ![m] = kept]
    /\ net' = left_net
    /\ cached' = [cached EXCEPT ![m] = NoSnapshot]
    /\ next_id' = [next_id EXCEPT ![m] = 0]
    /\ calls' = Abandoned(m, cs)
    /\ raw' = [raw EXCEPT ![m] = Resume(NoDisk, 0)]

(* observe_role comes at the end of a pass.  *)
observe_role(m, cs, role) ==
    IF raw[m].role = "leader" /\ role # "leader" THEN fail_all(m, cs, "lost") ELSE cs

(***************************************************************************)
(* on_ready: the raw node stands at r and has `out` to send once its state *)
(* is on disk.  apply_entries runs twice: over what was committed and      *)
(* persisted before the pass, and over what advance makes so.              *)
(***************************************************************************)

on_ready(m, r, out, cs) ==
    LET s1 == IF r.restored = NoSnapshot THEN store[m] ELSE r.restored.state
        d1 == IF r.restored = NoSnapshot THEN disk[m] ELSE install_snapshot(disk[m], r.restored)
        c1 == Max({r.applied, Min({r.commit, r.stable})})
        k1 == StopsAt(r.log, r.applied, c1)
        s2 == ApplyTo(s1, r.log, r.applied, k1 - 1)
        d2 == IF r.stable < Len(r.log)
              THEN append(d1, r.stable + 1, SubSeq(r.log, r.stable + 1, Len(r.log))) ELSE d1
        d3 == set_hard_state(d2, r)
        early == SentUnpersisted(m, r, out)
        sent == early \cup persisted_messages(m, r, out)
        advanced == [r EXCEPT !.stable = Len(r.log), !.restored = NoSnapshot]
        r4 == [advanced EXCEPT !.commit = Committed(advanced, sent)]
        d4 == set_hard_state(d3, r4)
        k2 == StopsAt(r.log, c1, r4.commit)
        s4 == ApplyTo(s2, r.log, c1, k2 - 1)
        sent4 == sent \cup bcast_append(m, r4)
        stops == k1 <= c1 \/ k2 <= r4.commit
        Told(k) == complete(m, cs, SubSeq(r.log, r.applied + 1, k))
    IN  \/ /\ disk' = [disk EXCEPT ![m] = IF k1 <= c1 THEN d1 ELSE d4]
           /\ store' = [store EXCEPT ![m] = IF k1 <= c1 THEN s2 ELSE s4]
           /\ net' = IF k1 <= c1 THEN early ELSE sent4
           /\ raw' = [raw EXCEPT ![m] = [r4 EXCEPT !.applied = k2 - 1]]
           /\ status' = [status EXCEPT ![m] = IF stops THEN "stopped" ELSE @]
           /\ calls' = IF k1 <= c1 THEN Abandoned(m, Told(k1 - 1))
                       ELSE IF stops THEN Abandoned(m, Told(k2 - 1))
                       ELSE observe_role(m, Told(k2 - 1), r.role)
           /\ UNCHANGED <<cached, next_id, deaths>>
        \/ /\ deaths > 0
           /\ \/ Die(m, disk[m], s1, early, cs)
              \/ \E k \in r.applied .. k1 - 1 :
                    Die(m, d1, ApplyTo(s1, r.log, r.applied, k), early, Told(k))
              \/ k1 > c1 /\ \/ Die(m, d2, s2, early, Told(c1))
                            \/ Die(m, d3, s2, early, Told(c1))
                            \/ \E k \in c1 .. k2 - 1 :
                                  Die(m, d4, ApplyTo(s2, r.log, c1, k), sent4, Told(k))
                            \/ Die(m, d3, s2, sent, Told(c1))

(***************************************************************************)
(* Raft's own work: ticks and messages.                                    *)
(***************************************************************************)

tick_campaign(m) ==
    /\ Up(m)
    /\ raw[m].role # "leader"
    /\ raw[m].term < MaxTerm
    /\ on_ready(m, Campaign(raw[m], m),
                {[type |-> "request", from |-> m, term |-> raw[m].term + 1,
                  last |-> Len(raw[m].log), last_term |-> LastTerm(raw[m].log)]}, calls)

step_request(m, req) ==
    LET r == CatchTerm(raw[m], req.term)
    IN  /\ Up(m)
        /\ req.type = "request" /\ req.from # m
        /\ IF Grants(r, req) /\ r.vote = None
           THEN on_ready(m, [r EXCEPT !.vote = req.from],
                   {[type |-> "vote", from |-> m, to |-> req.from, term |-> req.term]}, calls)
           ELSE r # raw[m] /\ on_ready(m, r, {}, calls)

step_votes(m) ==
    /\ Up(m)
    /\ raw[m].role = "candidate"
    /\ Quorum({m} \cup {f \in Members :
          [type |-> "vote", from |-> f, to |-> m, term |-> raw[m].term] \in net})
    /\ on_ready(m, Lead(raw[m]), {}, calls)

Leads(l, m) ==
    /\ Up(l) /\ Up(m) /\ l # m
    /\ raw[l].role = "leader"
    /\ raw[l].term >= raw[m].term

(* RaftLog::entries has nothing below the snapshot.  *)
step_append(m, a) ==
    LET r == AcceptAppend(CatchTerm(raw[m], a.term), a)
        ack == Ack(m, a.term, Len(a.log))
    IN  /\ Up(m)
        /\ a.type = "append" /\ a.from # m
        /\ a.term >= raw[m].term
        /\ Matching(raw[m].log, a.log) >= a.snap
        /\ ~Contradicts(raw[m], a)
        /\ r # raw[m] \/ ack \notin net
        /\ on_ready(m, r, {ack}, calls)

step_snapshot(l, m) ==
    /\ Leads(l, m)
    /\ Matching(raw[m].log, raw[l].log) < disk[l].snap
    /\ cached[l] # NoSnapshot
    /\ cached[l].index > raw[m].commit
    /\ on_ready(m, AcceptSnapshot(CatchTerm(raw[m], raw[l].term), cached[l]),
                {Ack(m, raw[l].term, cached[l].index)}, calls)

step_acks(m) ==
    LET commit == Committed(raw[m], net)
    IN  /\ Up(m)
        /\ commit > raw[m].commit
        /\ on_ready(m, [raw[m] EXCEPT !.commit = commit], {}, calls)

(***************************************************************************)
(* Writes.                                                                 *)
(***************************************************************************)

(* RaftHandle::propose, up to the send.  A request that reaches another     *)
(* member is forwarded to the leader first.                                *)
propose(m) ==
    /\ Up(m) /\ m \in Proposers
    /\ raw[m].role = "leader"
    /\ Len(calls) < MaxCalls
    /\ next_id' = [next_id EXCEPT ![m] = @ + 1]
    /\ calls' = Append(calls, [at |-> m, id |-> next_id[m] + 1, queued |-> TRUE,
                               result |-> "waiting", got |-> 0])
    /\ UNCHANGED <<durable, raw, cached, status, net, deaths>>

(* Driver::handle of the oldest request in the channel.  *)
handle_propose(m, c) ==
    LET cs == [calls EXCEPT ![c].queued = FALSE]
    IN  /\ Up(m)
        /\ calls[c].queued /\ calls[c].at = m
        /\ \A b \in 1 .. c - 1 : ~(calls[b].queued /\ calls[b].at = m)
        /\ IF raw[m].role = "leader"
           THEN on_ready(m, [raw[m] EXCEPT !.log = Append(@,
                    [term |-> raw[m].term, id |-> calls[c].id, cmd |-> c])], {}, cs)
           ELSE /\ calls' = IF WaitsAt(calls[c], m) THEN [cs EXCEPT ![c].result = "not_leader"]
                            ELSE cs
                /\ UNCHANGED <<durable, volatile, net, deaths>>

(* PROPOSAL_TIMEOUT: the caller is told that the write may still happen.  *)
give_up(c) ==
    /\ calls[c].result = "waiting"
    /\ calls' = [calls EXCEPT ![c].result = "unknown"]
    /\ UNCHANGED <<durable, volatile, net, deaths>>

(***************************************************************************)
(* Snapshots, death and start.                                             *)
(***************************************************************************)

(* The growth threshold, and whether raft asked, are left open.  *)
maintain_snapshot(m) ==
    LET applied == raw[m].applied
        s == [index |-> applied, log |-> SubSeq(raw[m].log, 1, applied), state |-> store[m]]
    IN  /\ Up(m)
        /\ cached[m].index < applied
        /\ disk' = [disk EXCEPT ![m] = install_snapshot(@, s)]
        /\ cached' = [cached EXCEPT ![m] = s]
        /\ UNCHANGED <<store, raw, status, next_id, calls, net, deaths>>

kill(m) ==
    /\ status[m] \in {"up", "stopped"}
    /\ Die(m, disk[m], store[m], net, calls)

start(m) ==
    LET applied == applied_index(store[m])
        d == reconcile(disk[m], applied)
        starts == ~BehindTheStore(disk[m], applied) /\ CanResume(d, applied)
    IN  /\ status[m] = "down"
        /\ disk' = [disk EXCEPT ![m] = IF BehindTheStore(@, applied) THEN @ ELSE d]
        /\ raw' = [raw EXCEPT ![m] = IF starts THEN Resume(d, applied) ELSE @]
        /\ status' = [status EXCEPT ![m] = IF starts THEN "up" ELSE "refused"]
        /\ UNCHANGED <<store, cached, next_id, calls, net, deaths>>

Init ==
    /\ disk = [m \in Members |-> NoDisk]
    /\ store = [m \in Members |-> {}]
    /\ raw = [m \in Members |-> Resume(NoDisk, 0)]
    /\ cached = [m \in Members |-> NoSnapshot]
    /\ status = [m \in Members |-> "up"]
    /\ next_id = [m \in Members |-> 0]
    /\ calls = <<>>
    /\ net = {}
    /\ deaths \in 0 .. MaxDeaths

Next ==
    \/ \E m \in Members : tick_campaign(m) \/ step_votes(m) \/ step_acks(m) \/ propose(m)
                           \/ maintain_snapshot(m) \/ kill(m) \/ start(m)
    \/ \E m \in Members, msg \in net : step_request(m, msg) \/ step_append(m, msg)
    \/ \E l, m \in Members : step_snapshot(l, m)
    \/ \E m \in Members, c \in DOMAIN calls : handle_propose(m, c)
    \/ \E c \in DOMAIN calls : give_up(c)

Spec == Init /\ [][Next]_repVars

-----------------------------------------------------------------------------
(* What t applied besides s, it applied after all of s.  *)
Beginning(s, t) == s \subseteq t /\ \A e \in t \ s, d \in s : d.index < e.index

(* log.rs, "Two databases": through deaths, starts and elections, and        *)
(* through snapshots, no two members' stores have applied different commands, *)
(* none has one command at two indexes, and a raft node never hands its       *)
(* store what the store has applied already.  (Run replication keeps deaths  *)
(* and snapshots apart, and takes nothing back from a store.)               *)
StoresAgree ==
    /\ \A m, n \in Members : Beginning(store[m], store[n]) \/ Beginning(store[n], store[m])
    /\ \A m \in Members : \A d, e \in store[m] : d.cmd = e.cmd => d = e
    /\ \A m \in Members : Up(m) => \A e \in store[m] : e.index <= raw[m].applied

(* driver.rs, "the single ordering mistake most likely to lose a committed  *)
(* write": the command whose result a caller was given is on the disks of a *)
(* quorum from then on, dead members' disks included.  Whether that is the   *)
(* command the caller asked for is another matter (Truthful).               *)
OkResultIsDurable ==
    \A c \in DOMAIN calls : calls[c].result = "ok" =>
        Quorum({m \in Members : \E i \in DOMAIN disk[m].log : disk[m].log[i].cmd = calls[c].got})

(* One leader per term: a vote is on disk before anybody hears of it.       *)
OneLeaderPerTerm ==
    \A m, n \in Members :
        /\ Up(m) /\ raw[m].role = "leader"
        /\ Up(n) /\ raw[n].role = "leader"
        /\ raw[m].term = raw[n].term
        => m = n

(* apply_entries, on stopping: no snapshot claims an index and carries the  *)
(* state of another.                                                        *)
SnapshotHonest ==
    \A m \in Members : cached[m].state = Commands(cached[m].log, 0, cached[m].index)

(* RaftHandle::propose: "wait for it to be applied here" - whoever is told   *)
(* Ok is told of its own write.                                             *)
Truthful ==
    \A c \in DOMAIN calls : calls[c].result = "ok" => calls[c].got = c

Applied(c) == \E m \in Members : \E e \in store[m] : e.cmd = c

(* observe_role: "it did not happen".                                       *)
LostDidNotHappen ==
    \A c \in DOMAIN calls : calls[c].result = "lost" => ~Applied(c)

(* compaction_loop: a request the store refuses "is handled".               *)
RefusalIsHandled == \A m \in Members : status[m] # "stopped"

(* reconcile_commit_with_applied: no death leaves a member that "could      *)
(* never restart".                                                         *)
EveryoneCanStart == \A m \in Members : status[m] # "refused"

(* The part of it that reconcile_commit_with_applied does ensure: wherever a *)
(* death cut a pass short, a member whose log covers what its store has      *)
(* applied starts, its hard state being behind or not.                      *)
StartsFromItsLog ==
    \A m \in Members : status[m] = "refused" =>
        applied_index(store[m]) \notin disk[m].snap .. Len(disk[m].log)

(* log.rs, "Two databases": a store that lost its tail finds what it lost   *)
(* in the log - what the log has compacted away is in the store.            *)
TailIsReplayable ==
    \A m \in Members : Commands(disk[m].log, 0, disk[m].snap) \subseteq store[m]
=============================================================================
