-------------------------------- MODULE Raft --------------------------------
(***************************************************************************)
(* The raft library (crate raft 0.7), as crates/nodestore/src/replication  *)
(* uses it: what a RawNode holds in memory and how it answers a message.   *)
(* External code: elections are decided by votes and entries by            *)
(* acknowledgements, as in Raft; an append carries everything its receiver *)
(* lacks.  Pre-vote, pacing, and membership changes are left out.          *)
(***************************************************************************)
EXTENDS Integers, Sequences, SequencesExt, FiniteSets, FiniteSetsExt

CONSTANT Members

None == "none"

NoSnapshot == [index |-> 0, log |-> <<>>, state |-> {}]

ASSUME MembersAssumption == IsFiniteSet(Members) /\ None \notin Members

Quorum(S) == 2 * Cardinality(S) > Cardinality(Members)

LastTerm(log) == IF log = <<>> THEN 0 ELSE Last(log).term

(* RawNode::new.  The library panics on what CanResume excludes.  *)
CanResume(d, applied) ==
    /\ d.commit \in d.snap .. Len(d.log)
    /\ applied = 0 \/ applied \in d.snap .. d.commit

Resume(d, applied) ==
    [role |-> "follower", term |-> d.term, vote |-> d.vote, log |-> d.log,
     stable |-> Len(d.log), commit |-> d.commit, restored |-> NoSnapshot,
     applied |-> Max({applied, d.snap})]

Campaign(r, m) == [r EXCEPT !.role = "candidate", !.term = @ + 1, !.vote = m]

CatchTerm(r, term) ==
    IF term > r.term
    THEN [r EXCEPT !.role = "follower", !.term = term, !.vote = None]
    ELSE r

Grants(r, req) ==
    /\ req.term = r.term
    /\ r.vote \in {None, req.from}
    /\ \/ req.last_term > LastTerm(r.log)
       \/ req.last_term = LastTerm(r.log) /\ req.last >= Len(r.log)

(* A new leader appends an entry of its own: no command, proposal id 0.  *)
NoCommand(term) == [term |-> term, id |-> 0, cmd |-> 0]

Lead(r) == [r EXCEPT !.role = "leader", !.log = Append(@, NoCommand(r.term))]

(* Entries of one index and term are one entry.  *)
Matching(log1, log2) ==
    Max({0} \cup {n \in 1 .. Min({Len(log1), Len(log2)}) : log1[n].term = log2[n].term})

(* What an append leaves in its receiver.  *)
AcceptAppend(r, a) ==
    LET n == Matching(r.log, a.log)
        extends == n < Len(a.log)
    IN  [r EXCEPT !.role = "follower",
                  !.log = IF extends THEN a.log ELSE @,
                  !.stable = IF extends THEN Min({@, n}) ELSE @,
                  !.commit = Max({@, a.commit})]

(* The library panics on an append that contradicts what is committed here.  *)
Contradicts(r, a) ==
    LET n == Matching(r.log, a.log) IN n < Len(a.log) /\ n < r.commit

(* A snapshot replaces the log, unless the log already reaches it.  *)
AcceptSnapshot(r, s) ==
    IF IsPrefix(s.log, r.log)
    THEN [r EXCEPT !.role = "follower", !.commit = Max({@, s.index})]
    ELSE [r EXCEPT !.role = "follower", !.log = s.log, !.stable = s.index,
                   !.commit = s.index, !.applied = s.index, !.restored = s]

(* Who has acknowledged, in a term, what it has persisted.  A leader's own   *)
(* progress is an acknowledgement to itself.                                *)
Holds(f, term, n, net) ==
    \E a \in net : a.type = "ack" /\ a.from = f /\ a.term = term /\ a.match >= n

(* The leader commits what a quorum has persisted in its own term.  *)
Committed(r, net) ==
    Max({r.commit} \cup
        {n \in r.commit + 1 .. Len(r.log) :
            /\ r.role = "leader" /\ r.log[n].term = r.term
            /\ Quorum({f \in Members : Holds(f, r.term, n, net)})})
=============================================================================
