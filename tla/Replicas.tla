------------------------------ MODULE Replicas ------------------------------
(***************************************************************************)
(* Two members' stores under one committed log (crates/nodestore/src/      *)
(* store.rs, "Snapshots" and apply_at).  The module's own store is the     *)
(* leader's; the follower's applies the same commands later, or replaces   *)
(* itself with a snapshot of the leader's.  How commands come to be        *)
(* committed is not modelled here.                                         *)
(***************************************************************************)
EXTENDS Store

VARIABLES
    cmds,      \* the committed log: commands the leader has applied, by index
    states,    \* history: the leader's observable state after each index
    fdb, ftx, flive, fpast    \* the follower's store

followerVars == <<fdb, ftx, flive, fpast>>
replicaVars  == <<vars, cmds, states, followerVars>>

F == INSTANCE Store WITH db <- fdb, tx <- ftx, live <- flive, past <- fpast

(***************************************************************************)
(* Snapshots: live keys in key order, with leases, members and counters.   *)
(***************************************************************************)

export_compacted(d) ==      \* variant: the snapshot says it is compacted throughout
    [d EXCEPT !.kv = range(d, Keys, 0), !.compact_revision = d.revision]

export_snapshot(d) == [d EXCEPT !.kv = range(d, Keys, 0)]

(* restore_snapshot numbers rows as it walks the keys: `sub` counts up      *)
(* while neighbours share a mod_revision and restarts at 0 otherwise.       *)
RestoredSub(kvs, x) ==
    Cardinality({y \in kvs : y.key < x.key /\
        \A z \in kvs : z.key \in y.key .. x.key => z.mod = x.mod})

RestoredRowNew(kvs, x) ==      \* variant: a restored key starts over
    [rev |-> x.mod, sub |-> RestoredSub(kvs, x), key |-> x.key, deleted |-> FALSE,
     value |-> x.value, create |-> x.mod, version |-> 1, lease |-> x.lease, prev |-> 0]

RestoredRowUnleased(kvs, x) ==      \* variant: a restored key has lost its lease
    [rev |-> x.mod, sub |-> RestoredSub(kvs, x), key |-> x.key, deleted |-> FALSE,
     value |-> x.value, create |-> x.create, version |-> x.version, lease |-> 0, prev |-> 0]

RestoredRow(kvs, x) ==
    [rev |-> x.mod, sub |-> RestoredSub(kvs, x), key |-> x.key, deleted |-> FALSE,
     value |-> x.value, create |-> x.create, version |-> x.version,
     lease |-> x.lease, prev |-> 0]

Restored(s) == [s EXCEPT !.kv = {RestoredRow(s.kv, x) : x \in s.kv}]

(* PRIMARY KEY (revision, sub): a second row there fails the whole restore. *)
PrimaryKeyHolds(rows) ==
    \A a, b \in rows : a.rev = b.rev /\ a.sub = b.sub => a = b

(* Nothing is published: live watchers of this member are not told. *)
RestoreSnapshot ==
    LET d == Restored(export_snapshot(db))
    IN  /\ ~ftx.open
        /\ fdb.applied_index < db.applied_index
        /\ PrimaryKeyHolds(d.kv)
        /\ fdb' = d
        /\ fpast' = past
        /\ UNCHANGED <<vars, cmds, states, ftx, flive>>

(***************************************************************************)
(* The two appliers.                                                       *)
(***************************************************************************)

(* What a client can observe of a member. *)
Observable(d) == [kvs |-> range(d, Keys, 0), lease |-> d.lease, member |-> d.member,
                  revision |-> d.revision, compact_revision |-> d.compact_revision]

Lead ==
    /\ \/ /\ (\E cmd \in Commands : Begin(cmd)) \/ Run
          /\ UNCHANGED <<cmds, states>>
       \/ /\ Commit
          /\ cmds' = Append(cmds, tx.cmd)
          /\ states' = Append(states, Observable(db'))
    /\ UNCHANGED followerVars

Follow ==
    /\ \/ /\ fdb.applied_index < Len(cmds)
          /\ F!Begin(cmds[fdb.applied_index + 1])
       \/ F!Run
       \/ F!Commit
       \/ F!Crash
    /\ UNCHANGED <<vars, cmds, states>>

ReplicaInit ==
    /\ Init
    /\ F!Init
    /\ cmds = <<>>
    /\ states = <<>>

ReplicaNext == Lead \/ Follow \/ RestoreSnapshot

ReplicaSpec == ReplicaInit /\ [][ReplicaNext]_replicaVars

-----------------------------------------------------------------------------
(* command.rs, "Determinism": a follower that applied or restored up to an  *)
(* index answers exactly as the leader did there, and no command the leader *)
(* applied fails on it.                                                     *)
StateMachineSafety ==
    fdb.applied_index > 0 => Observable(fdb) = states[fdb.applied_index]

(* Watchers of the follower are told what watchers of the leader were told, *)
(* prev_kv included, whatever snapshot the follower started from.           *)
ReplicasPublishAlike == flive \subseteq live

(* An entry that the leader applied is never rolled back by the follower:   *)
(* its transaction runs to Commit unless the process dies.                  *)
FollowerNeverRefuses ==
    [][F!Run => ftx'.open]_replicaVars

(* restore_snapshot, on allocating `sub` per revision: a snapshot of any    *)
(* store can be restored ("a follower past the compaction point would then  *)
(* have no recovery path left at all").                                     *)
SnapshotRestorable == PrimaryKeyHolds(Restored(export_snapshot(db)).kv)
=============================================================================
