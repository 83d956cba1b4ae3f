-------------------------------- MODULE Node --------------------------------
(***************************************************************************)
(* A single-member nodestore (crates/nodestore/src/consensus.rs): several  *)
(* request tasks call Node::propose at once.  SingleNode::submit hands     *)
(* each an index from an atomic counter; Node::apply_committed then takes  *)
(* the store's mutex, applies the command at that index and publishes its  *)
(* events before it lets go.  Nothing orders the two.                      *)
(***************************************************************************)
EXTENDS Integers, Sequences

CONSTANTS
    Procs,       \* request tasks
    MaxIndex     \* bound: indexes handed out in one behaviour

ASSUME MaxIndexIsNat == MaxIndex \in Nat

VARIABLES
    index,          \* SingleNode::index, in memory
    revision,       \* the store's revision
    applied_index,  \* the store's applied_index, written with each command
    lock,           \* the task holding the store's mutex, or None
    published,      \* revisions broadcast by the hub, in order
    proc            \* what each task is doing

nodeVars == <<index, revision, applied_index, lock, published, proc>>

None == "none"
Idle == [at |-> "idle"]

ASSUME NoneIsNoTask == None \notin Procs

(* submit: fetch_add.  *)
submit(p) ==
    /\ proc[p] = Idle
    /\ index < MaxIndex
    /\ index' = index + 1
    /\ proc' = [proc EXCEPT ![p] = [at |-> "submitted", index |-> index + 1]]
    /\ UNCHANGED <<revision, applied_index, lock, published>>

apply_at_unlocked(p) ==      \* variant: the lock is let go before publishing
    /\ proc[p].at = "submitted"
    /\ lock = None
    /\ revision' = revision + 1
    /\ applied_index' = proc[p].index
    /\ proc' = [proc EXCEPT ![p] = [at |-> "publish", revision |-> revision + 1]]
    /\ UNCHANGED <<index, lock, published>>

(* store.apply_at under the lock.  A command may write events, write none,  *)
(* or fail, in which case its index is spent but never recorded.            *)
apply_at(p) ==
    /\ proc[p].at = "submitted"
    /\ lock = None
    /\ \/ /\ revision' = revision + 1
          /\ applied_index' = proc[p].index
          /\ proc' = [proc EXCEPT ![p] = [at |-> "publish", revision |-> revision + 1]]
          /\ lock' = p
       \/ /\ applied_index' = proc[p].index
          /\ proc' = [proc EXCEPT ![p] = Idle]
          /\ UNCHANGED <<revision, lock>>
       \/ /\ proc' = [proc EXCEPT ![p] = Idle]
          /\ UNCHANGED <<revision, applied_index, lock>>
    /\ UNCHANGED <<index, published>>

(* watch.publish and the end of the guard's scope. *)
publish(p) ==
    /\ proc[p].at = "publish"
    /\ published' = Append(published, proc[p].revision)
    /\ lock' = None
    /\ proc' = [proc EXCEPT ![p] = Idle]
    /\ UNCHANGED <<index, revision, applied_index>>

(* The process dies and SingleNode::resuming starts from what the store     *)
(* recorded.  Watchers and their hub die with it.                           *)
restart ==
    /\ index' = applied_index
    /\ lock' = None
    /\ published' = [i \in 1 .. revision - 1 |-> i + 1]
    /\ proc' = [p \in Procs |-> Idle]
    /\ UNCHANGED <<revision, applied_index>>

Init ==
    /\ index = 0
    /\ revision = 1
    /\ applied_index = 0
    /\ lock = None
    /\ published = <<>>
    /\ proc = [p \in Procs |-> Idle]

Next ==
    \/ \E p \in Procs : submit(p) \/ apply_at(p) \/ publish(p)
    \/ restart

Spec == Init /\ [][Next]_nodeVars

-----------------------------------------------------------------------------
(* apply_committed, "the order watchers see is the order the store          *)
(* applied": whoever can take the lock - another proposer, or a reader that *)
(* replays and then continues live - finds every revision of the store      *)
(* broadcast, in order.                                                     *)
PublishedInOrder ==
    lock = None => published = [i \in 1 .. revision - 1 |-> i + 1]
=============================================================================
