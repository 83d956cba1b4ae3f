------------------------------ MODULE EventLog ------------------------------
(***************************************************************************)
(* What the store promises a watcher, and all that the watch service       *)
(* relies on: a log of events grouped by revision, each group one revision *)
(* after the last, retained in full above the compaction point.            *)
(* crates/nodestore/src/store.rs implements it (module Store);             *)
(* crates/nodestore/src/server/watch.rs consumes it (module Watch).        *)
(***************************************************************************)
EXTENDS Integers

CONSTANT Keys

VARIABLES
    log,               \* the retained events
    revision,          \* revision of the last group
    compact_revision   \* every event above it is in `log`

logVars == <<log, revision, compact_revision>>

Event == [rev : Nat, sub : Nat, key : Keys, delete : BOOLEAN]

(* The events of one command: all at revision r, numbered 0, 1, 2 ... in    *)
(* the order they were written.                                             *)
IsBatch(batch, r) ==
    /\ batch # {}
    /\ batch \subseteq Event
    /\ \A e \in batch :
        /\ e.rev = r
        /\ \A f \in batch : e.sub = f.sub => e = f
        /\ e.sub > 0 => \E f \in batch : f.sub = e.sub - 1

WriteBatch(batch) ==
    /\ IsBatch(batch, revision + 1)
    /\ log' = log \cup batch
    /\ revision' = revision + 1
    /\ UNCHANGED compact_revision

Compact(r) ==
    /\ r \in compact_revision + 1 .. revision
    /\ log' = {e \in log : e.rev > r}
    /\ compact_revision' = r
    /\ UNCHANGED revision

LogInit ==
    /\ log = {}
    /\ revision = 1
    /\ compact_revision = 0

(* Stated on the step itself, so that an implementation of any alphabet of  *)
(* commands can be checked against it.                                      *)
LogNext ==
    \/ WriteBatch(log' \ log)
    \/ Compact(compact_revision')

LogSpec == LogInit /\ [][LogNext]_logVars
=============================================================================
