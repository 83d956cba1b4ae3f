----------------------------- MODULE NodeProofs -----------------------------
(***************************************************************************)
(* Any number of request tasks may race from submit to the store's mutex:  *)
(* the batches still reach the hub in the order of their revisions.        *)
(***************************************************************************)
EXTENDS Node, SequenceTheorems, TLAPS

UpTo(r) == [i \in 1 .. r - 1 |-> i + 1]

TaskState == {Idle} \cup [at : {"submitted"}, index : Nat]
                    \cup [at : {"publish"}, revision : Nat \ {0}]

(* The holder of the mutex is the one task with a batch still to publish:   *)
(* the batch of the store's own revision, after all the earlier ones.       *)
HolderPublishes ==
    /\ index \in Nat /\ applied_index \in Nat
    /\ revision \in Nat \ {0}
    /\ lock \in Procs \cup {None}
    /\ proc \in [Procs -> TaskState]
    /\ \A p \in Procs : proc[p].at = "publish" <=> lock = p
    /\ \A p \in Procs : lock = p =>
        /\ proc[p].revision = revision
        /\ revision > 1
        /\ published = UpTo(revision - 1)

IInv == HolderPublishes /\ PublishedInOrder

(* One more revision published. *)
LEMMA UpToAppend ==
    ASSUME NEW r \in Nat, r > 1
    PROVE  Append(UpTo(r - 1), r) = UpTo(r)
<1>1. UpTo(r - 1) \in Seq(Nat) /\ Len(UpTo(r - 1)) = r - 2
  <2>1. \A i \in 1 .. r - 2 : i + 1 \in Nat
    OBVIOUS
  <2>2. UpTo(r - 1) = [i \in 1 .. r - 2 |-> i + 1]
    BY SMT DEF UpTo
  <2> QED
    BY <2>1, <2>2, IsASeq, LenProperties, SMT
<1>2. Append(UpTo(r - 1), r) = [i \in 1 .. Len(UpTo(r - 1)) + 1 |->
            IF i <= Len(UpTo(r - 1)) THEN UpTo(r - 1)[i] ELSE r]
  BY <1>1, SMT
<1> QED
  BY <1>1, <1>2, SMT DEF UpTo

LEMMA InitHolds == Init => IInv
<1> SUFFICES ASSUME Init PROVE IInv
  OBVIOUS
<1>1. HolderPublishes
  BY NoneIsNoTask DEF Init, HolderPublishes, TaskState, Idle, None
<1>2. published = UpTo(1)
  BY DEF Init, UpTo
<1> QED
  BY <1>1, <1>2 DEF Init, IInv, PublishedInOrder, UpTo

LEMMA SubmitHolds ==
    ASSUME IInv, NEW p \in Procs, submit(p)
    PROVE  IInv'
<1>1. HolderPublishes'
  BY NoneIsNoTask DEF IInv, HolderPublishes, TaskState, submit, Idle, UpTo
<1> QED
  BY <1>1 DEF IInv, PublishedInOrder, submit

(* The lock is free, so everything has been published; the task that takes  *)
(* it either writes the next revision or leaves the store's as it was.      *)
LEMMA ApplyHolds ==
    ASSUME IInv, NEW p \in Procs, apply_at(p)
    PROVE  IInv'
<1>1. published = UpTo(revision)
  BY DEF IInv, PublishedInOrder, apply_at, UpTo
<1>2. CASE /\ revision' = revision + 1
           /\ proc' = [proc EXCEPT ![p] = [at |-> "publish", revision |-> revision + 1]]
           /\ lock' = p
  <2>1. HolderPublishes'
    BY <1>1, <1>2, NoneIsNoTask DEF IInv, HolderPublishes, TaskState, apply_at, Idle, UpTo
  <2> QED
    BY <2>1, <1>2, NoneIsNoTask DEF IInv, PublishedInOrder
<1>3. CASE proc' = [proc EXCEPT ![p] = Idle] /\ UNCHANGED <<revision, lock>>
  <2>1. HolderPublishes'
    BY <1>3, NoneIsNoTask DEF IInv, HolderPublishes, TaskState, apply_at, Idle, UpTo
  <2> QED
    BY <2>1, <1>3 DEF IInv, PublishedInOrder, apply_at
<1> QED
  BY <1>2, <1>3 DEF apply_at

LEMMA PublishHolds ==
    ASSUME IInv, NEW p \in Procs, publish(p)
    PROVE  IInv'
<1>1. lock = p /\ revision \in Nat /\ revision > 1 /\ published = UpTo(revision - 1)
  BY DEF IInv, HolderPublishes, publish
<1>2. published' = UpTo(revision)
  BY <1>1, UpToAppend DEF IInv, HolderPublishes, publish
<1>3. HolderPublishes'
  BY <1>1, NoneIsNoTask DEF IInv, HolderPublishes, TaskState, publish, Idle
<1> QED
  BY <1>2, <1>3 DEF IInv, PublishedInOrder, publish, UpTo

LEMMA RestartHolds ==
    ASSUME IInv, restart
    PROVE  IInv'
<1>1. HolderPublishes'
  BY NoneIsNoTask DEF IInv, HolderPublishes, TaskState, restart, Idle
<1> QED
  BY <1>1 DEF IInv, PublishedInOrder, restart

-----------------------------------------------------------------------------
(* Node::apply_committed holds the mutex from the write to the broadcast:   *)
(* with any number of tasks proposing at once, and any order of their       *)
(* indexes at the lock, watchers see the order the store applied.           *)
THEOREM WatchersSeeTheOrderApplied == Spec => []PublishedInOrder
<1>1. Init => IInv
  BY InitHolds
<1>2. IInv /\ [Next]_nodeVars => IInv'
  <2> SUFFICES ASSUME IInv, [Next]_nodeVars PROVE IInv'
    OBVIOUS
  <2>1. CASE UNCHANGED nodeVars
    <3>1. HolderPublishes'
      BY <2>1 DEF IInv, HolderPublishes, nodeVars
    <3> QED
      BY <2>1, <3>1 DEF IInv, PublishedInOrder, nodeVars
  <2>2. ASSUME NEW p \in Procs, submit(p) PROVE IInv'
    BY <2>2, SubmitHolds
  <2>3. ASSUME NEW p \in Procs, apply_at(p) PROVE IInv'
    BY <2>3, ApplyHolds
  <2>4. ASSUME NEW p \in Procs, publish(p) PROVE IInv'
    BY <2>4, PublishHolds
  <2>5. CASE restart
    BY <2>5, RestartHolds
  <2> QED
    BY <2>1, <2>2, <2>3, <2>4, <2>5 DEF Next
<1>3. IInv => PublishedInOrder
  BY DEF IInv
<1> QED
  BY <1>1, <1>2, <1>3, PTL DEF Spec
=============================================================================
