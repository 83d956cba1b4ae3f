--------------------------- MODULE ReplicationProofs ---------------------------
(***************************************************************************)
(* Elections, logs and stores of any finite number of members.             *)
(*                                                                         *)
(* Elections: what a vote promises is on disk before anybody hears of it,  *)
(* so no death lets a member vote twice in a term, and two quorums of      *)
(* votes have a voter in common.                                           *)
(*                                                                         *)
(* Logs: what a quorum has acknowledged is on the disks of that quorum and *)
(* in the log of every later leader, and only that is applied and told.    *)
(* As long as no member is sent a snapshot (LogsReach).                    *)
(*                                                                         *)
(* Stores: each holds the commands of its log up to an index, and so no    *)
(* two differ but in how far they are.                                     *)
(*                                                                         *)
(* Sizes: no commit index is beyond its log, whatever snapshots are sent.  *)
(***************************************************************************)
EXTENDS Replication, FiniteSetTheorems, SequenceTheorems, WellFoundedInduction, TLAPS

(* The parts of the records that elections are about.                      *)
HasVote(d) == {"term", "vote"} \subseteq DOMAIN d /\ d.term \in Nat /\ d.vote \in Members \cup {None}
HasRole(r) == HasVote(r) /\ "role" \in DOMAIN r

Shape ==
    /\ DOMAIN disk = Members /\ \A m \in Members : HasVote(disk[m])
    /\ DOMAIN raw = Members /\ \A m \in Members : HasRole(raw[m])
    /\ DOMAIN status = Members

Requests == {q \in net : q.type = "request"}
Votes    == {v \in net : v.type = "vote"}

MessagesOK ==
    /\ \A q \in Requests : q.from \in Members /\ q.term \in Nat
    /\ \A v \in Votes : /\ v.from \in Members /\ v.to \in Members /\ v.term \in Nat
                        /\ v = [type |-> "vote", from |-> v.from, to |-> v.to, term |-> v.term]
    /\ \A a \in net : a.type = "append" => a.term \in Nat

(* Two states of a member that bind it to the same vote.                   *)
SameVote(s, t) == s.term = t.term /\ s.vote = t.vote

(* What runs goes by what is on disk.                                      *)
VoteIsOnDisk == \A m \in Members : Up(m) => SameVote(raw[m], disk[m])

(* What a member said it voted is on its disk, until a later term.         *)
VotesKept == \A v \in Votes : /\ v.term <= disk[v.from].term
                              /\ v.term = disk[v.from].term => v.to = disk[v.from].vote

OneVotePerTerm == \A v, w \in Votes : v.from = w.from /\ v.term = w.term => v = w

CandidatesVoteForThemselves ==
    \A m \in Members : Up(m) /\ raw[m].role # "follower" => raw[m].vote = m

VotersFor(m, term) ==
    {m} \cup {f \in Members : [type |-> "vote", from |-> f, to |-> m, term |-> term] \in net}

LeadersWereElected ==
    \A m \in Members : Up(m) /\ raw[m].role = "leader" => Quorum(VotersFor(m, raw[m].term))

ElectionInv ==
    /\ Shape /\ MessagesOK /\ VoteIsOnDisk /\ VotesKept /\ OneVotePerTerm
    /\ CandidatesVoteForThemselves /\ LeadersWereElected

-----------------------------------------------------------------------------
(* Two quorums of members have a member in common.                           *)
LEMMA QuorumsIntersect ==
    ASSUME NEW S \in SUBSET Members, NEW T \in SUBSET Members, Quorum(S), Quorum(T)
    PROVE  S \cap T # {}
  <1>1. IsFiniteSet(Members) /\ IsFiniteSet(S) /\ IsFiniteSet(T)
    BY MembersAssumption, FS_Subset
  <1>2. /\ Cardinality(S) \in Nat /\ Cardinality(T) \in Nat /\ Cardinality(Members) \in Nat
        /\ Cardinality(S \cup T) \in Nat /\ IsFiniteSet(S \cup T)
    BY <1>1, FS_CardinalityType, FS_Union
  <1>3. Cardinality(S \cup T) = Cardinality(S) + Cardinality(T) - Cardinality(S \cap T)
    BY <1>1, FS_Union
  <1>4. Cardinality(S \cup T) <= Cardinality(Members)
    BY <1>1, FS_Subset
  <1>5. Cardinality({}) = 0
    BY FS_EmptySet
  <1> QED
    BY <1>2, <1>3, <1>4, <1>5 DEF Quorum

(* Whoever else joins in, a quorum stays one.                                *)
LEMMA QuorumsGrow ==
    ASSUME NEW S \in SUBSET Members, NEW T \in SUBSET Members, S \subseteq T, Quorum(S)
    PROVE  Quorum(T)
  <1>1. IsFiniteSet(T)
    BY MembersAssumption, FS_Subset
  <1>2. Cardinality(S) <= Cardinality(T)
    BY <1>1, FS_Subset
  <1>3. Cardinality(S) \in Nat /\ Cardinality(T) \in Nat /\ Cardinality(Members) \in Nat
    BY MembersAssumption, FS_Subset, FS_CardinalityType
  <1> QED
    BY <1>2, <1>3 DEF Quorum

(* Two leaders of a term would have had a voter in common, and one vote.     *)
LEMMA OnlyOneIsElected ==
    ASSUME ElectionInv
    PROVE  OneLeaderPerTerm
  <1> SUFFICES ASSUME NEW m \in Members, NEW n \in Members, m # n,
                      Up(m), raw[m].role = "leader", Up(n), raw[n].role = "leader",
                      raw[m].term = raw[n].term
               PROVE  FALSE
    BY DEF OneLeaderPerTerm
  <1> DEFINE term == raw[m].term
             Ballot(f, t) == [type |-> "vote", from |-> f, to |-> t, term |-> term]
  <1>1. Quorum(VotersFor(m, term)) /\ Quorum(VotersFor(n, term))
    BY DEF ElectionInv, LeadersWereElected
  <1>2. VotersFor(m, term) \in SUBSET Members /\ VotersFor(n, term) \in SUBSET Members
    BY DEF VotersFor
  <1>3. PICK f \in Members : f \in VotersFor(m, term) /\ f \in VotersFor(n, term)
    BY <1>1, <1>2, QuorumsIntersect
  <1>4. raw[m].vote = m /\ raw[n].vote = n /\ SameVote(raw[m], disk[m]) /\ SameVote(raw[n], disk[n])
    BY DEF ElectionInv, CandidatesVoteForThemselves, VoteIsOnDisk
  <1>5. ASSUME NEW g \in Members, NEW t \in Members, Ballot(g, t) \in net
        PROVE  /\ Ballot(g, t) \in Votes
               /\ disk[g].term = term => t = disk[g].vote
    BY <1>5 DEF ElectionInv, VotesKept, Votes
  <1>6. CASE f = m
    <2>1. Ballot(m, n) \in net
      BY <1>3, <1>6 DEF VotersFor
    <2> QED
      BY <1>4, <1>5, <2>1 DEF SameVote
  <1>7. CASE f = n
    <2>1. Ballot(n, m) \in net
      BY <1>3, <1>7 DEF VotersFor
    <2> QED
      BY <1>4, <1>5, <2>1 DEF SameVote
  <1>8. CASE f # m /\ f # n
    <2>1. Ballot(f, m) \in Votes /\ Ballot(f, n) \in Votes
      BY <1>3, <1>5, <1>8 DEF VotersFor
    <2> QED
      BY <2>1 DEF ElectionInv, OneVotePerTerm
  <1> QED
    BY <1>6, <1>7, <1>8

-----------------------------------------------------------------------------
(* What has been said about votes.                                           *)
Said(N) == {q \in N : q.type \in {"request", "vote"}}

(* The process of member m dies, and leaves on disk what was there or what   *)
(* r says.                                                                   *)
Died(m, r, sent) ==
    /\ \A n \in Members \ {m} : disk'[n] = disk[n] /\ raw'[n] = raw[n] /\ status'[n] = status[n]
    /\ \/ Said(net') = Said(net) /\ SameVote(disk'[m], disk[m])
       \/ Said(net') \in {Said(net), Said(sent)} /\ SameVote(disk'[m], r)
    /\ ~Up(m)'

(* The pass is over: what r says is on disk, what was to be sent is sent,    *)
(* unless the driver gave up.                                                *)
Passed(m, r, sent) ==
    /\ \A n \in Members \ {m} : disk'[n] = disk[n] /\ raw'[n] = raw[n] /\ status'[n] = status[n]
    /\ \/ Said(net') = Said(net) /\ SameVote(disk'[m], disk[m]) /\ ~Up(m)'
       \/ Said(net') = Said(sent) /\ SameVote(disk'[m], r)
    /\ Up(m)' => SameVote(raw'[m], r) /\ raw'[m].role = r.role

Binds(m, r, sent) ==
    /\ Shape'
    /\ net \subseteq net'
    /\ \A a \in net' \ net : a.type = "append" => a.term = r.term \/ a \in sent
    /\ Died(m, r, sent) \/ Passed(m, r, sent)

(* A raw node's new state takes the place of the old.                        *)
LEMMA DieBinds ==
    ASSUME Shape, NEW m \in Members, NEW d, NEW s, NEW sent, NEW cs, Die(m, d, s, sent, cs),
           HasVote(d)
    PROVE  /\ Shape' /\ ~Up(m)' /\ net' = sent /\ disk'[m] = d
           /\ \A n \in Members \ {m} : disk'[n] = disk[n] /\ raw'[n] = raw[n]
                                       /\ status'[n] = status[n]
  <1>1. HasRole(Resume(NoDisk, 0))
    BY DEF Resume, NoDisk, HasRole, HasVote
  <1>2. /\ disk' = [disk EXCEPT ![m] = d] /\ net' = sent
        /\ status' = [status EXCEPT ![m] = "down"]
        /\ raw' = [raw EXCEPT ![m] = Resume(NoDisk, 0)]
    BY DEF Die
  <1> HIDE DEF Die
  <1>3. /\ disk'[m] = d /\ raw'[m] = Resume(NoDisk, 0) /\ status'[m] = "down"
        /\ \A n \in Members \ {m} : disk'[n] = disk[n] /\ raw'[n] = raw[n] /\ status'[n] = status[n]
    BY <1>2 DEF Shape
  <1>4. DOMAIN disk' = Members /\ DOMAIN raw' = Members /\ DOMAIN status' = Members
    BY <1>2 DEF Shape
  <1>5. \A n \in Members : HasVote(disk'[n]) /\ HasRole(raw'[n])
    BY <1>1, <1>3 DEF Shape
  <1> QED
    BY <1>2, <1>3, <1>4, <1>5 DEF Shape, Up

(* What RaftLog writes besides the hard state binds nobody to a vote.        *)
LEMMA LogWrites ==
    ASSUME NEW d, HasVote(d)
    PROVE  /\ \A s : HasVote(install_snapshot(d, s)) /\ SameVote(install_snapshot(d, s), d)
           /\ \A i, e : HasVote(append(d, i, e)) /\ SameVote(append(d, i, e), d)
           /\ \A r : HasRole(r) => HasVote(set_hard_state(d, r)) /\ SameVote(set_hard_state(d, r), r)
           /\ \A a : HasVote(reconcile(d, a)) /\ SameVote(reconcile(d, a), d)
  <1>1. ASSUME NEW s PROVE HasVote(install_snapshot(d, s)) /\ SameVote(install_snapshot(d, s), d)
    BY DEF install_snapshot, HasVote, SameVote
  <1>2. ASSUME NEW i, NEW e PROVE HasVote(append(d, i, e)) /\ SameVote(append(d, i, e), d)
    BY DEF append, HasVote, SameVote
  <1>3. ASSUME NEW r, HasRole(r)
        PROVE  HasVote(set_hard_state(d, r)) /\ SameVote(set_hard_state(d, r), r)
    BY <1>3 DEF set_hard_state, HasVote, HasRole, SameVote
  <1>4. ASSUME NEW a PROVE HasVote(reconcile(d, a)) /\ SameVote(reconcile(d, a), d)
    BY DEF reconcile, HasVote, SameVote
  <1> QED
    BY <1>1, <1>2, <1>3, <1>4

(* A pass of the driver, whole or cut short, puts the vote on disk before    *)
(* its messages go out.                                                      *)
LEMMA OnReadyBinds ==
    ASSUME Shape, NEW m \in Members, NEW r, HasRole(r), NEW out, NEW cs, Up(m),
           on_ready(m, r, out, cs)
    PROVE  Binds(m, r, net \cup out)
  <1> DEFINE s1 == IF r.restored = NoSnapshot THEN store[m] ELSE r.restored.state
             d1 == IF r.restored = NoSnapshot THEN disk[m] ELSE install_snapshot(disk[m], r.restored)
             c1 == Max({r.applied, Min({r.commit, r.stable})})
             k1 == StopsAt(r.log, r.applied, c1)
             s2 == ApplyTo(s1, r.log, r.applied, k1 - 1)
             d2 == IF r.stable < Len(r.log)
                   THEN append(d1, r.stable + 1, SubSeq(r.log, r.stable + 1, Len(r.log))) ELSE d1
             d3 == set_hard_state(d2, r)
             early == SentUnpersisted(m, r, out)
             sent == early \cup persisted_messages(m, r, out)
             advanced == [r EXCEPT !.stable = Len(r.log), !.restored = NoSnapshot]
             r4 == [advanced EXCEPT !.commit = Committed(advanced, sent)]
             d4 == set_hard_state(d3, r4)
             k2 == StopsAt(r.log, c1, r4.commit)
             s4 == ApplyTo(s2, r.log, c1, k2 - 1)
             sent4 == sent \cup bcast_append(m, r4)
             stops == k1 <= c1 \/ k2 <= r4.commit
             Told(k) == complete(m, cs, SubSeq(r.log, r.applied + 1, k))
  <1>1. \/ /\ disk' = [disk EXCEPT ![m] = IF k1 <= c1 THEN d1 ELSE d4]
           /\ net' = IF k1 <= c1 THEN early ELSE sent4
           /\ raw' = [raw EXCEPT ![m] = [r4 EXCEPT !.applied = k2 - 1]]
           /\ status' = [status EXCEPT ![m] = IF stops THEN "stopped" ELSE @]
        \/ \/ Die(m, disk[m], s1, early, cs)
           \/ \E k \in r.applied .. k1 - 1 :
                 Die(m, d1, ApplyTo(s1, r.log, r.applied, k), early, Told(k))
           \/ Die(m, d2, s2, early, Told(c1))
           \/ Die(m, d3, s2, early, Told(c1))
           \/ \E k \in c1 .. k2 - 1 : Die(m, d4, ApplyTo(s2, r.log, c1, k), sent4, Told(k))
           \/ Die(m, d3, s2, sent, Told(c1))
    BY DEF on_ready
  <1>2. HasVote(disk[m])
    BY DEF Shape
  <1>3. HasVote(d1) /\ SameVote(d1, disk[m])
    BY <1>2, LogWrites DEF SameVote
  <1> HIDE DEF d1
  <1>4. HasVote(d2) /\ SameVote(d2, disk[m])
    BY <1>3, LogWrites DEF SameVote
  <1> HIDE DEF d2
  <1>a. HasRole(advanced) /\ SameVote(advanced, r) /\ advanced.role = r.role
    BY DEF HasRole, HasVote, SameVote
  <1> HIDE DEF advanced
  <1>5. /\ HasRole(r4) /\ SameVote(r4, r) /\ r4.role = r.role
        /\ \A k : LET q == [r4 EXCEPT !.applied = k]
                  IN  HasRole(q) /\ SameVote(q, r) /\ q.role = r.role
    BY <1>a DEF HasRole, HasVote, SameVote
  <1>b. /\ Said(early) = Said(net) /\ Said(sent) = Said(net \cup out)
        /\ Said(sent4) = Said(net \cup out)
        /\ net \subseteq early /\ net \subseteq sent /\ net \subseteq sent4
        /\ \A a \in (early \cup sent \cup sent4) \ (net \cup out) :
              a.type = "append" => a.term = r.term
    <2>0. r4.term = r.term
      BY <1>5 DEF SameVote
    <2>4. \A s : \A a \in bcast_append(m, s) : a.term = s.term
      BY DEF bcast_append
    <2>5. \A a \in persisted_messages(m, r, out) : a \in out \/ a.type # "append"
      BY DEF persisted_messages, Ack
    <2> HIDE DEF r4
    <2>1. \A s : Said(bcast_append(m, s)) = {}
      BY DEF Said, bcast_append
    <2>2. Said(persisted_messages(m, r, out)) = Said(out)
      BY DEF Said, persisted_messages, Ack
    <2>3. \A S, T : Said(S \cup T) = Said(S) \cup Said(T)
      BY DEF Said
    <2>6. /\ early = net \cup bcast_append(m, r)
          /\ sent = early \cup persisted_messages(m, r, out)
          /\ sent4 = sent \cup bcast_append(m, r4)
      BY DEF SentUnpersisted
    <2> HIDE DEF early, sent, sent4, r4
    <2>7. /\ Said(early) = Said(net)
          /\ Said(sent) = Said(net) \cup Said(out)
          /\ Said(sent4) = Said(sent) /\ Said(net \cup out) = Said(net) \cup Said(out)
      <3>1. Said(early) = Said(net) \cup Said(bcast_append(m, r))
        BY <2>3, <2>6
      <3>2. Said(sent) = Said(early) \cup Said(persisted_messages(m, r, out))
        BY <2>3, <2>6
      <3>3. Said(sent4) = Said(sent) \cup Said(bcast_append(m, r4))
        BY <2>3, <2>6
      <3> QED
        BY <2>1, <2>2, <2>3, <3>1, <3>2, <3>3
    <2> QED
      BY <2>0, <2>4, <2>5, <2>6, <2>7
  <1> HIDE DEF r4
  <1>6. HasVote(d3) /\ SameVote(d3, r)
    BY <1>4, LogWrites
  <1> HIDE DEF d3
  <1>7. HasVote(d4) /\ SameVote(d4, r)
    BY <1>5, <1>6, LogWrites DEF SameVote
  <1> HIDE DEF d4, s1, s2, s4, k1, k2, c1, early, sent, sent4, Told
  <1>8. CASE \/ Die(m, disk[m], s1, early, cs)
             \/ \E k \in r.applied .. k1 - 1 :
                   Die(m, d1, ApplyTo(s1, r.log, r.applied, k), early, Told(k))
             \/ Die(m, d2, s2, early, Told(c1))
             \/ Die(m, d3, s2, early, Told(c1))
             \/ \E k \in c1 .. k2 - 1 : Die(m, d4, ApplyTo(s2, r.log, c1, k), sent4, Told(k))
             \/ Die(m, d3, s2, sent, Told(c1))
    <2>1. PICK d, s, n, c : /\ Die(m, d, s, n, c) /\ HasVote(d)
                            /\ \/ Said(n) = Said(net) /\ SameVote(d, disk[m])
                               \/ /\ Said(n) \in {Said(net), Said(net \cup out)}
                                  /\ SameVote(d, r)
                            /\ net \subseteq n
                            /\ \A a \in n \ (net \cup out) : a.type = "append" => a.term = r.term
      BY <1>2, <1>3, <1>4, <1>6, <1>7, <1>8, <1>b DEF SameVote
    <2> QED
      BY <2>1, DieBinds DEF Binds, Died
  <1>9. CASE /\ disk' = [disk EXCEPT ![m] = IF k1 <= c1 THEN d1 ELSE d4]
             /\ net' = IF k1 <= c1 THEN early ELSE sent4
             /\ raw' = [raw EXCEPT ![m] = [r4 EXCEPT !.applied = k2 - 1]]
             /\ status' = [status EXCEPT ![m] = IF stops THEN "stopped" ELSE @]
    <2> DEFINE q == [r4 EXCEPT !.applied = k2 - 1]
    <2>0. HasRole(q) /\ SameVote(q, r) /\ q.role = r.role
      BY <1>5
    <2> HIDE DEF q
    <2>1. /\ disk'[m] = IF k1 <= c1 THEN d1 ELSE d4
          /\ raw'[m] = q /\ status'[m] = IF stops THEN "stopped" ELSE status[m]
          /\ \A n \in Members \ {m} : disk'[n] = disk[n] /\ raw'[n] = raw[n] /\ status'[n] = status[n]
      BY <1>9 DEF Shape, q
    <2>2. DOMAIN disk' = Members /\ DOMAIN raw' = Members /\ DOMAIN status' = Members
      BY <1>9 DEF Shape
    <2>3. Shape'
      BY <1>3, <1>7, <2>0, <2>1, <2>2 DEF Shape
    <2>4. ASSUME k1 <= c1 PROVE Passed(m, r, net \cup out)
      <3>1. disk'[m] = d1 /\ net' = early /\ status'[m] = "stopped"
            /\ raw'[m] = q
        BY <1>9, <2>1, <2>4
      <3> QED
        BY <1>3, <1>b, <2>0, <2>1, <3>1 DEF Passed, Up
    <2>5. ASSUME ~(k1 <= c1) PROVE Passed(m, r, net \cup out)
      <3>1. disk'[m] = d4 /\ net' = sent4 /\ raw'[m] = q
        BY <1>9, <2>1, <2>5
      <3> QED
        BY <1>7, <1>b, <2>0, <2>1, <3>1 DEF Passed
    <2>6. Passed(m, r, net \cup out)
      BY <2>4, <2>5
    <2>7. /\ net \subseteq net'
          /\ \A a \in net' \ net : a.type = "append" => a.term = r.term \/ a \in net \cup out
      BY <1>9, <1>b
    <2> QED
      BY <2>3, <2>6, <2>7 DEF Binds
  <1> QED
    BY <1>1, <1>8, <1>9

-----------------------------------------------------------------------------
Ballot(f, t, term) == [type |-> "vote", from |-> f, to |-> t, term |-> term]

(* What raft may make of a member's vote, and say of it, in one pass.        *)
Honest(m, r, out) ==
    /\ HasRole(r)
    /\ raw[m].term <= r.term
    /\ r.term = raw[m].term => raw[m].vote \in {None, r.vote}
    /\ r.role # "follower" => r.vote = m
    /\ r.role = "leader" => Quorum(VotersFor(m, r.term))
    /\ \A a \in out : a.type # "append"
    /\ \A q \in out : q.type = "request" => q.from \in Members /\ q.term \in Nat
    /\ \A v \in out : v.type = "vote" =>
          /\ v = Ballot(m, r.vote, r.term) /\ r.vote \in Members
          /\ raw[m].term < r.term \/ raw[m].vote = None

(* Such a pass, whole or cut short, leaves every vote binding.               *)
LEMMA PassKeepsElections ==
    ASSUME ElectionInv, NEW m \in Members, NEW r, NEW out, Up(m),
           Honest(m, r, out), Binds(m, r, net \cup out)
    PROVE  ElectionInv'
  <1>1. /\ Shape /\ MessagesOK /\ VoteIsOnDisk /\ VotesKept /\ OneVotePerTerm
        /\ CandidatesVoteForThemselves /\ LeadersWereElected
    BY DEF ElectionInv
  <1>2. /\ Shape'
        /\ \A n \in Members \ {m} : disk'[n] = disk[n] /\ raw'[n] = raw[n] /\ status'[n] = status[n]
        /\ \/ Said(net') = Said(net) /\ SameVote(disk'[m], disk[m])
           \/ Said(net') \in {Said(net), Said(net \cup out)} /\ SameVote(disk'[m], r)
        /\ net \subseteq net'
        /\ \A a \in net' \ net : a.type = "append" => a.term = r.term \/ a \in net \cup out
        /\ Up(m)' => SameVote(disk'[m], r) /\ SameVote(raw'[m], r) /\ raw'[m].role = r.role
    BY DEF Binds, Died, Passed
  <1>3. /\ SameVote(raw[m], disk[m]) /\ r.term \in Nat /\ disk[m].term \in Nat /\ raw[m].term \in Nat
        /\ disk'[m].term \in Nat
    BY <1>1, <1>2 DEF VoteIsOnDisk, Honest, HasRole, HasVote, Shape
  <1>4. /\ disk[m].term <= disk'[m].term
        /\ disk'[m].term = disk[m].term => disk[m].vote \in {None, disk'[m].vote}
    BY <1>2, <1>3 DEF SameVote, Honest
  <1>5. ASSUME NEW v \in Votes'
        PROVE  \/ v \in Votes
               \/ /\ v = Ballot(m, r.vote, r.term) /\ SameVote(disk'[m], r) /\ r.vote \in Members
                  /\ raw[m].term < r.term \/ raw[m].vote = None
    BY <1>2 DEF Votes, Said, Honest
  <1>6. MessagesOK'
    <2>1. ASSUME NEW q \in Requests' PROVE q.from \in Members /\ q.term \in Nat
      BY <1>1, <1>2 DEF Requests, Said, MessagesOK, Honest
    <2>2. ASSUME NEW v \in Votes'
          PROVE  /\ v.from \in Members /\ v.to \in Members /\ v.term \in Nat
                 /\ v = Ballot(v.from, v.to, v.term)
      BY <1>1, <1>3, <1>5 DEF MessagesOK, Ballot
    <2>3. ASSUME NEW a \in net', a.type = "append" PROVE a.term \in Nat
      BY <1>1, <1>2, <1>3, <2>3 DEF MessagesOK, Honest
    <2> QED
      BY <2>1, <2>2, <2>3 DEF MessagesOK, Ballot
  <1>7. VoteIsOnDisk'
    <2> SUFFICES ASSUME NEW n \in Members, Up(n)' PROVE SameVote(raw'[n], disk'[n])
      BY DEF VoteIsOnDisk, SameVote
    <2>1. CASE n = m
      BY <1>2, <2>1 DEF SameVote
    <2>2. CASE n # m
      BY <1>1, <1>2, <2>2 DEF VoteIsOnDisk, Up
    <2> QED
      BY <2>1, <2>2
  <1>8. VotesKept'
    <2> SUFFICES ASSUME NEW v \in Votes'
                 PROVE  /\ v.term <= disk'[v.from].term
                        /\ v.term = disk'[v.from].term => v.to = disk'[v.from].vote
      BY DEF VotesKept
    <2>1. CASE v = Ballot(m, r.vote, r.term) /\ SameVote(disk'[m], r)
      BY <1>3, <2>1 DEF Ballot, SameVote
    <2>2. CASE v \in Votes /\ v.from # m
      BY <1>1, <1>2, <2>2 DEF VotesKept, MessagesOK
    <2>3. CASE v \in Votes /\ v.from = m
      <3>1. /\ v.term <= disk[m].term /\ v.term \in Nat /\ v.to \in Members
            /\ v.term = disk[m].term => v.to = disk[m].vote
        BY <1>1, <2>3 DEF VotesKept, MessagesOK
      <3> QED
        BY <1>3, <1>4, <2>3, <3>1, MembersAssumption
    <2> QED
      BY <1>5, <2>1, <2>2, <2>3
  <1>9. OneVotePerTerm'
    <2>1. ASSUME NEW v \in Votes, v.from = m, v.term = r.term,
                 raw[m].term < r.term \/ raw[m].vote = None
          PROVE  FALSE
      <3>1. /\ v.term <= disk[m].term /\ v.to \in Members
            /\ v.term = disk[m].term => v.to = disk[m].vote
        BY <1>1, <2>1 DEF VotesKept, MessagesOK
      <3> QED
        BY <1>3, <2>1, <3>1, MembersAssumption DEF SameVote, Honest
    <2> SUFFICES ASSUME NEW v \in Votes', NEW w \in Votes', v.from = w.from, v.term = w.term
                 PROVE  v = w
      BY DEF OneVotePerTerm
    <2>2. CASE v \in Votes /\ w \in Votes
      BY <1>1, <2>2 DEF OneVotePerTerm
    <2>3. CASE v \notin Votes \/ w \notin Votes
      BY <1>5, <2>1, <2>3 DEF Ballot
    <2> QED
      BY <2>2, <2>3
  <1>10. CandidatesVoteForThemselves'
    <2> SUFFICES ASSUME NEW n \in Members, Up(n)', raw'[n].role # "follower"
                 PROVE  raw'[n].vote = n
      BY DEF CandidatesVoteForThemselves
    <2>1. CASE n = m
      BY <1>2, <2>1 DEF Honest, SameVote
    <2>2. CASE n # m
      BY <1>1, <1>2, <2>2 DEF CandidatesVoteForThemselves, Up
    <2> QED
      BY <2>1, <2>2
  <1>11. LeadersWereElected'
    <2> SUFFICES ASSUME NEW n \in Members, Up(n)', raw'[n].role = "leader"
                 PROVE  Quorum(VotersFor(n, raw[n].term))'
      BY DEF LeadersWereElected, Quorum
    <2>1. ASSUME NEW term, Quorum(VotersFor(n, term)) PROVE Quorum(VotersFor(n, term)')
      <3>1. VotersFor(n, term) \subseteq VotersFor(n, term)' /\ VotersFor(n, term)' \subseteq Members
        BY <1>2 DEF VotersFor
      <3>2. \A T \in SUBSET Members : VotersFor(n, term) \subseteq T => Quorum(T)
        BY <2>1, <3>1, QuorumsGrow
      <3> QED
        BY <3>1, <3>2
    <2>2. CASE n = m
      BY <1>2, <2>1, <2>2 DEF Honest, SameVote
    <2>3. CASE n # m
      BY <1>1, <1>2, <2>1, <2>3 DEF LeadersWereElected, Up
    <2> QED
      BY <2>2, <2>3
  <1> QED
    BY <1>2, <1>6, <1>7, <1>8, <1>9, <1>10, <1>11 DEF ElectionInv

(* A step that sends nothing and leaves what is on disk or up as bound as it *)
(* was keeps the invariant too.                                              *)
LEMMA QuietKeepsElections ==
    ASSUME ElectionInv, Shape', net' = net,
           \A n \in Members : SameVote(disk'[n], disk[n]),
           \A n \in Members : Up(n)' =>
              \/ Up(n) /\ SameVote(raw'[n], raw[n]) /\ raw'[n].role = raw[n].role
              \/ SameVote(raw'[n], disk[n]) /\ raw'[n].role = "follower"
    PROVE  ElectionInv'
  <1>1. /\ Shape /\ MessagesOK /\ VoteIsOnDisk /\ VotesKept /\ OneVotePerTerm
        /\ CandidatesVoteForThemselves /\ LeadersWereElected
    BY DEF ElectionInv
  <1>2. Votes' = Votes /\ Requests' = Requests
        /\ \A n, term : VotersFor(n, term)' = VotersFor(n, term)
    BY DEF Votes, Requests, VotersFor
  <1>3. MessagesOK' /\ OneVotePerTerm'
    BY <1>1, <1>2 DEF MessagesOK, OneVotePerTerm
  <1>4. VotesKept'
    BY <1>1, <1>2 DEF VotesKept, MessagesOK, SameVote
  <1>5. VoteIsOnDisk'
    BY <1>1 DEF VoteIsOnDisk, SameVote
  <1>6. CandidatesVoteForThemselves'
    BY <1>1 DEF CandidatesVoteForThemselves, SameVote
  <1>7. LeadersWereElected'
    BY <1>1, <1>2 DEF LeadersWereElected, SameVote, Quorum
  <1> QED
    BY <1>3, <1>4, <1>5, <1>6, <1>7 DEF ElectionInv

-----------------------------------------------------------------------------
(* A member that hears of a later term follows in it, with no vote yet.      *)
LEMMA CatchesTerm ==
    ASSUME NEW r, HasRole(r), NEW term \in Nat
    PROVE  LET s == CatchTerm(r, term)
           IN  /\ HasRole(s) /\ r.term <= s.term /\ term <= s.term
               /\ \/ s = r
                  \/ r.term < s.term /\ s.term = term /\ s.vote = None /\ s.role = "follower"
  BY DEF CatchTerm, HasRole, HasVote

(* An append or a snapshot makes a follower, and leaves its vote alone.      *)
LEMMA Accepts ==
    ASSUME NEW r, HasRole(r)
    PROVE  /\ \A from : LET s == AcceptAppend(r, from)
                        IN  HasRole(s) /\ SameVote(s, r) /\ s.role = "follower"
           /\ \A snap : LET s == AcceptSnapshot(r, snap)
                        IN  HasRole(s) /\ SameVote(s, r) /\ s.role = "follower"
  <1>1. ASSUME NEW from
        PROVE  LET s == AcceptAppend(r, from)
               IN  HasRole(s) /\ SameVote(s, r) /\ s.role = "follower"
    BY DEF AcceptAppend, HasRole, HasVote, SameVote
  <1>2. ASSUME NEW snap
        PROVE  LET s == AcceptSnapshot(r, snap)
               IN  HasRole(s) /\ SameVote(s, r) /\ s.role = "follower"
    BY DEF AcceptSnapshot, HasRole, HasVote, SameVote
  <1> QED
    BY <1>1, <1>2

(* Every pass is honest about votes.                                         *)
LEMMA PassesKeepElections ==
    ASSUME ElectionInv, NEW m \in Members,
           \/ tick_campaign(m) \/ step_votes(m) \/ step_acks(m)
           \/ \E q \in net : step_request(m, q) \/ step_append(m, q)
           \/ \E l \in Members : step_snapshot(l, m)
           \/ \E c \in DOMAIN calls : handle_propose(m, c) /\ raw[m].role = "leader"
    PROVE  ElectionInv'
  <1>1. /\ Shape /\ HasRole(raw[m]) /\ raw[m].term \in Nat /\ MessagesOK
        /\ Up(m) /\ raw[m].role # "follower" => raw[m].vote = m
        /\ Up(m) /\ raw[m].role = "leader" => Quorum(VotersFor(m, raw[m].term))
    BY DEF ElectionInv, Shape, HasRole, HasVote, CandidatesVoteForThemselves, LeadersWereElected
  <1> SUFFICES ASSUME Up(m)
               PROVE  \E r, out, cs : Honest(m, r, out) /\ on_ready(m, r, out, cs)
    <2>1. Up(m)
      BY DEF tick_campaign, step_votes, step_acks, step_request, step_append, step_snapshot,
             Leads, handle_propose
    <2> QED
      BY <1>1, <2>1, OnReadyBinds, PassKeepsElections DEF Honest
  <1>2. CASE tick_campaign(m)
    <2> DEFINE r == Campaign(raw[m], m)
               out == {[type |-> "request", from |-> m, term |-> raw[m].term + 1,
                        last |-> Len(raw[m].log), last_term |-> LastTerm(raw[m].log)]}
    <2>1. HasRole(r) /\ r.term = raw[m].term + 1 /\ r.vote = m /\ r.role = "candidate"
      BY <1>1 DEF Campaign, HasRole, HasVote
    <2> HIDE DEF r
    <2>2. Honest(m, r, out)
      BY <1>1, <2>1 DEF Honest
    <2> QED
      BY <1>2, <2>2 DEF tick_campaign, r
  <1>3. CASE step_votes(m)
    <2> DEFINE r == Lead(raw[m])
    <2>1. HasRole(r) /\ SameVote(r, raw[m]) /\ r.role = "leader"
      BY <1>1 DEF Lead, HasRole, HasVote, SameVote
    <2>2. raw[m].vote = m /\ Quorum(VotersFor(m, raw[m].term)) /\ on_ready(m, r, {}, calls)
      BY <1>1, <1>3 DEF step_votes, VotersFor
    <2> HIDE DEF r
    <2>3. Honest(m, r, {})
      BY <1>1, <2>1, <2>2 DEF Honest, SameVote
    <2> QED
      BY <2>2, <2>3
  <1>4. CASE step_acks(m)
    <2> DEFINE r == [raw[m] EXCEPT !.commit = Committed(raw[m], net)]
    <2>1. HasRole(r) /\ SameVote(r, raw[m]) /\ r.role = raw[m].role
      BY <1>1 DEF HasRole, HasVote, SameVote
    <2>2. on_ready(m, r, {}, calls)
      BY <1>4 DEF step_acks
    <2> HIDE DEF r
    <2>3. Honest(m, r, {})
      BY <1>1, <2>1 DEF Honest, SameVote
    <2> QED
      BY <2>2, <2>3
  <1>5. CASE \E q \in net : step_request(m, q)
    <2>1. PICK q \in net : step_request(m, q)
      BY <1>5
    <2> DEFINE s == CatchTerm(raw[m], q.term)
    <2>2. q.type = "request" /\ q.from \in Members /\ q.term \in Nat
      BY <1>1, <2>1 DEF step_request, MessagesOK, Requests
    <2>3. /\ HasRole(s) /\ raw[m].term <= s.term /\ q.term <= s.term
          /\ \/ s = raw[m]
             \/ raw[m].term < s.term /\ s.term = q.term /\ s.vote = None /\ s.role = "follower"
      BY <1>1, <2>2, CatchesTerm
    <2> HIDE DEF s
    <2>4. ASSUME Grants(s, q), s.vote = None,
                 on_ready(m, [s EXCEPT !.vote = q.from],
                   {[type |-> "vote", from |-> m, to |-> q.from, term |-> q.term]}, calls)
          PROVE  \E r, out, cs : Honest(m, r, out) /\ on_ready(m, r, out, cs)
      <3> DEFINE r == [s EXCEPT !.vote = q.from]
                 out == {[type |-> "vote", from |-> m, to |-> q.from, term |-> q.term]}
      <3>1. HasRole(r) /\ r.term = s.term /\ r.vote = q.from /\ r.role = s.role
        BY <2>2, <2>3 DEF HasRole, HasVote
      <3>2. s.term = q.term /\ s.role = "follower"
        BY <1>1, <2>3, <2>4, MembersAssumption DEF Grants
      <3> HIDE DEF r
      <3>3. Honest(m, r, out)
        BY <1>1, <2>2, <2>3, <2>4, <3>1, <3>2 DEF Honest, Ballot
      <3> HIDE DEF out
      <3> QED
        BY <2>4, <3>3 DEF r, out
    <2>5. ASSUME on_ready(m, s, {}, calls)
          PROVE  \E r, out, cs : Honest(m, r, out) /\ on_ready(m, r, out, cs)
      <3>1. Honest(m, s, {})
        BY <1>1, <2>3 DEF Honest
      <3> QED
        BY <2>5, <3>1
    <2> QED
      BY <2>1, <2>4, <2>5 DEF step_request, s
  <1>6. CASE (\E a \in net : step_append(m, a)) \/ (\E l \in Members : step_snapshot(l, m))
    <2>1. PICK term, r, out :
             /\ term \in Nat
             /\ on_ready(m, r, out, calls)
             /\ LET s == CatchTerm(raw[m], term)
                IN  HasRole(r) /\ SameVote(r, s) /\ r.role = "follower"
             /\ \A a \in out : a.type = "ack"
      <3>1. CASE \E a \in net : step_append(m, a)
        <4>1. PICK a \in net : step_append(m, a)
          BY <3>1
        <4> DEFINE s == CatchTerm(raw[m], a.term)
        <4>2. /\ on_ready(m, AcceptAppend(s, a), {Ack(m, a.term, Len(a.log))}, calls)
              /\ Ack(m, a.term, Len(a.log)).type = "ack" /\ a.type = "append"
          BY <4>1 DEF step_append, Ack
        <4>3. a.term \in Nat
          BY <1>1, <4>2 DEF MessagesOK
        <4>4. HasRole(s)
          BY <1>1, <4>3, CatchesTerm
        <4> QED
          BY <4>2, <4>3, <4>4, Accepts
      <3>2. CASE \E l \in Members : step_snapshot(l, m)
        <4>1. PICK l \in Members : step_snapshot(l, m)
          BY <3>2
        <4> DEFINE s == CatchTerm(raw[m], raw[l].term)
        <4>2. /\ on_ready(m, AcceptSnapshot(s, cached[l]),
                          {Ack(m, raw[l].term, cached[l].index)}, calls)
              /\ Ack(m, raw[l].term, cached[l].index).type = "ack"
          BY <4>1 DEF step_snapshot, Ack
        <4>3. raw[l].term \in Nat
          BY <1>1 DEF Shape, HasRole, HasVote
        <4>4. HasRole(s)
          BY <1>1, <4>3, CatchesTerm
        <4> QED
          BY <4>2, <4>3, <4>4, Accepts
      <3> QED
        BY <1>6, <3>1, <3>2
    <2> DEFINE s == CatchTerm(raw[m], term)
    <2>3. /\ HasRole(s) /\ raw[m].term <= s.term
          /\ \/ s = raw[m]
             \/ raw[m].term < s.term /\ s.vote = None
      BY <1>1, <2>1, CatchesTerm
    <2> HIDE DEF s
    <2>5. Honest(m, r, out)
      BY <1>1, <2>1, <2>3 DEF Honest, SameVote, s
    <2> QED
      BY <2>1, <2>5
  <1>7. CASE \E c \in DOMAIN calls : handle_propose(m, c) /\ raw[m].role = "leader"
    <2>1. PICK c \in DOMAIN calls : handle_propose(m, c) /\ raw[m].role = "leader"
      BY <1>7
    <2> DEFINE r == [raw[m] EXCEPT !.log = Append(@,
                       [term |-> raw[m].term, id |-> calls[c].id, cmd |-> c])]
               cs == [calls EXCEPT ![c].queued = FALSE]
    <2>2. HasRole(r) /\ SameVote(r, raw[m]) /\ r.role = raw[m].role
      BY <1>1 DEF HasRole, HasVote, SameVote
    <2>3. on_ready(m, r, {}, cs)
      BY <2>1 DEF handle_propose
    <2> HIDE DEF r, cs
    <2>4. Honest(m, r, {})
      BY <1>1, <2>2 DEF Honest, SameVote
    <2> QED
      BY <2>3, <2>4
  <1> QED
    BY <1>2, <1>3, <1>4, <1>5, <1>6, <1>7

(* A snapshot, a death or a start changes nobody's vote.                     *)
LEMMA RestartsKeepElections ==
    ASSUME ElectionInv, NEW m \in Members, maintain_snapshot(m) \/ kill(m) \/ start(m)
    PROVE  ElectionInv'
  <1>1. Shape /\ HasVote(disk[m]) /\ HasRole(raw[m])
    BY DEF ElectionInv, Shape
  <1>2. CASE maintain_snapshot(m)
    <2>1. PICK s : /\ disk' = [disk EXCEPT ![m] = install_snapshot(disk[m], s)]
                   /\ UNCHANGED <<raw, status, net>>
      BY <1>2 DEF maintain_snapshot
    <2>2. HasVote(install_snapshot(disk[m], s)) /\ SameVote(install_snapshot(disk[m], s), disk[m])
      BY <1>1, LogWrites
    <2>3. DOMAIN disk' = Members /\ \A n \in Members : HasVote(disk'[n]) /\ SameVote(disk'[n], disk[n])
      BY <1>1, <2>1, <2>2 DEF Shape, SameVote
    <2>4. Shape'
      BY <1>1, <2>1, <2>3 DEF Shape
    <2> QED
      BY <2>1, <2>3, <2>4, QuietKeepsElections DEF Up, SameVote
  <1>3. CASE kill(m)
    <2>1. /\ Shape' /\ ~Up(m)' /\ net' = net /\ disk'[m] = disk[m]
          /\ \A n \in Members \ {m} : disk'[n] = disk[n] /\ raw'[n] = raw[n]
                                      /\ status'[n] = status[n]
      BY <1>1, <1>3, DieBinds DEF kill
    <2> QED
      BY <2>1, QuietKeepsElections DEF Up, SameVote
  <1>4. CASE start(m)
    <2> DEFINE applied == applied_index(store[m])
               d == reconcile(disk[m], applied)
               starts == ~BehindTheStore(disk[m], applied) /\ CanResume(d, applied)
    <2>1. HasVote(d) /\ SameVote(d, disk[m])
      BY <1>1, LogWrites
    <2>2. /\ HasRole(Resume(d, applied)) /\ SameVote(Resume(d, applied), d)
          /\ Resume(d, applied).role = "follower"
      BY <2>1 DEF Resume, HasRole, HasVote, SameVote
    <2>3. /\ disk' = [disk EXCEPT ![m] = IF BehindTheStore(disk[m], applied) THEN disk[m] ELSE d]
          /\ raw' = [raw EXCEPT ![m] = IF starts THEN Resume(d, applied) ELSE raw[m]]
          /\ status' = [status EXCEPT ![m] = IF starts THEN "up" ELSE "refused"]
          /\ net' = net
      BY <1>4 DEF start
    <2> HIDE DEF applied, d, starts
    <2>4. /\ disk'[m] \in {disk[m], d} /\ DOMAIN disk' = Members /\ DOMAIN raw' = Members
          /\ DOMAIN status' = Members
          /\ \/ status'[m] = "up" /\ raw'[m] = Resume(d, applied)
             \/ status'[m] = "refused" /\ raw'[m] = raw[m]
          /\ \A n \in Members \ {m} : disk'[n] = disk[n] /\ raw'[n] = raw[n]
                                      /\ status'[n] = status[n]
      BY <1>1, <2>3 DEF Shape
    <2>5. Shape'
      BY <1>1, <2>1, <2>2, <2>4 DEF Shape
    <2> QED
      BY <2>1, <2>2, <2>3, <2>4, <2>5, QuietKeepsElections DEF Up, SameVote
  <1> QED
    BY <1>2, <1>3, <1>4

(* A cluster that has never run has nothing to remember.                     *)
LEMMA ElectionsInitially == Init => ElectionInv
  <1> SUFFICES ASSUME Init PROVE ElectionInv
    OBVIOUS
  <1>1. /\ \A m \in Members : disk[m] = NoDisk /\ raw[m] = Resume(NoDisk, 0)
        /\ DOMAIN disk = Members /\ DOMAIN raw = Members /\ DOMAIN status = Members
        /\ net = {}
    BY DEF Init
  <1>2. /\ HasVote(NoDisk) /\ HasRole(Resume(NoDisk, 0)) /\ SameVote(NoDisk, Resume(NoDisk, 0))
        /\ Resume(NoDisk, 0).role = "follower"
    BY DEF Resume, NoDisk, HasRole, HasVote, SameVote
  <1>3. Shape
    BY <1>1, <1>2 DEF Shape
  <1>4. MessagesOK /\ VotesKept /\ OneVotePerTerm
    BY <1>1 DEF MessagesOK, Requests, Votes, VotesKept, OneVotePerTerm
  <1>5. VoteIsOnDisk /\ CandidatesVoteForThemselves /\ LeadersWereElected
    BY <1>1, <1>2 DEF VoteIsOnDisk, SameVote, CandidatesVoteForThemselves, LeadersWereElected
  <1> QED
    BY <1>3, <1>4, <1>5 DEF ElectionInv

(* The inductive invariant of elections: votes are on disk before they are   *)
(* sent, one a term, and a leader has a quorum of them.                      *)
THEOREM VotesAreDurable == Spec => []ElectionInv
  <1>1. Init => ElectionInv
    BY ElectionsInitially
  <1>2. ElectionInv /\ [Next]_repVars => ElectionInv'
    <2> SUFFICES ASSUME ElectionInv, [Next]_repVars PROVE ElectionInv'
      OBVIOUS
    <2>1. ASSUME UNCHANGED <<disk, raw, status, net>> PROVE ElectionInv'
      <3>1. Shape'
        BY <2>1 DEF ElectionInv, Shape
      <3> QED
        BY <2>1, <3>1, QuietKeepsElections DEF Up, SameVote
    <2>2. ASSUME NEW m \in Members,
                 tick_campaign(m) \/ step_votes(m) \/ step_acks(m) \/ propose(m)
                    \/ maintain_snapshot(m) \/ kill(m) \/ start(m)
          PROVE  ElectionInv'
      BY <2>1, <2>2, PassesKeepElections, RestartsKeepElections DEF propose, durable
    <2>3. ASSUME NEW m \in Members, NEW q \in net, step_request(m, q) \/ step_append(m, q)
          PROVE  ElectionInv'
      BY <2>3, PassesKeepElections
    <2>4. ASSUME NEW l \in Members, NEW m \in Members, step_snapshot(l, m)
          PROVE  ElectionInv'
      BY <2>4, PassesKeepElections
    <2>5. ASSUME NEW m \in Members, NEW c \in DOMAIN calls, handle_propose(m, c) PROVE ElectionInv'
      <3>1. CASE raw[m].role = "leader"
        BY <2>5, <3>1, PassesKeepElections
      <3>2. CASE raw[m].role # "leader"
        BY <2>1, <2>5, <3>2 DEF handle_propose, durable, volatile
      <3> QED
        BY <3>1, <3>2
    <2>6. ASSUME NEW c \in DOMAIN calls, give_up(c) PROVE ElectionInv'
      BY <2>1, <2>6 DEF give_up, durable, volatile
    <2> QED
      BY <2>1, <2>2, <2>3, <2>4, <2>5, <2>6 DEF Next, repVars, durable, volatile
  <1> QED
    BY <1>1, <1>2, PTL DEF Spec

(* No two members lead in one term, whatever was lost with a death           *)
(* (driver.rs: the hard state is written before the messages go out).        *)
THEOREM AtMostOneLeader == Spec => []OneLeaderPerTerm
  BY VotesAreDurable, OnlyOneIsElected, PTL

(* Logs, and what is known of them from the messages sent.  D is what is on *)
(* the disks and N what has been sent: the invariants are stated over them,  *)
(* so that one write or one message of a pass is a step of its own.          *)

Entry == [term : Nat, id : Nat, cmd : Nat]

(* Two logs have the same first n entries.                                   *)
Shares(l, k, n) == n <= Len(l) /\ n <= Len(k) /\ \A i \in 1 .. n : l[i] = k[i]

Appends(N) == {a \in N : a.type = "append"}
Acks(N)    == {k \in N : k.type = "ack"}

Voters(N, m, term) == {m} \cup {f \in Members : Ballot(f, m, term) \in N}

Rising(l) == \A i, j \in 1 .. Len(l) : i <= j => l[i].term <= l[j].term

AppendOK(N, a) ==
    /\ a.from \in Members /\ a.term \in Nat /\ a.log \in Seq(Entry) /\ a.snap \in Nat
    /\ a.log # <<>> /\ a.log[Len(a.log)].term = a.term
    /\ Rising(a.log)
    /\ a.commit \in 0 .. Len(a.log)
    /\ Quorum(Voters(N, a.from, a.term))
    /\ \E q \in N : q.type = "request" /\ q.from = a.from /\ q.term = a.term

AppendsOK(N) == \A a \in Appends(N) : AppendOK(N, a)

(* The appends of a term are of one leader, whose log only grows.            *)
Chain(N) ==
    \A a, b \in Appends(N) : a.term = b.term =>
        /\ a.from = b.from
        /\ Len(a.log) <= Len(b.log) => Shares(a.log, b.log, Len(a.log))

(* An entry of a log is there with all before it in an append of its term.   *)
Sent(N, l) == \A i \in 1 .. Len(l) : \E a \in Appends(N) : a.term = l[i].term /\ Shares(l, a.log, i)

LogsSent(D, N) ==
    /\ \A m \in Members : Sent(N, D[m].log)
    /\ \A a \in Appends(N) : Sent(N, a.log)

AcksOK(D, N) ==
    \A k \in Acks(N) :
        /\ k.from \in Members /\ k.term \in Nat /\ k.match \in Nat
        /\ k.term <= D[k.from].term
        /\ \E a \in Appends(N) : a.term = k.term /\ k.match <= Len(a.log)

(* No quorum will ever hold entry i of the leader of the term.               *)
Blocked(D, N, term, i) ==
    \E V \in SUBSET Members : Quorum(V) /\ \A f \in V : D[f].term > term /\ ~Holds(f, term, i, N)

(* Entry i of append b is of b's own term.                                   *)
Own(b, i) == i \in 1 .. Len(b.log) /\ b.log[i].term = b.term

Keeps(D, N, l, b, i) == Shares(l, b.log, i) \/ Blocked(D, N, b.term, i)

(* A later leader has what a quorum may hold of an earlier one's.            *)
LaterLeaders(D, N) ==
    \A a, b \in Appends(N) : \A i : Own(b, i) /\ b.term < a.term => Keeps(D, N, a.log, b, i)

(* What a member has acknowledged is on its disk.                            *)
AckedIsOnDisk(D, N) ==
    \A f \in Members : \A b \in Appends(N) : \A i :
        Own(b, i) /\ Holds(f, b.term, i, N) => Keeps(D, N, D[f].log, b, i)

Holders(term, i, N) == {f \in Members : Holds(f, term, i, N)}

Chosen(N, b, i) == Own(b, i) /\ Quorum(Holders(b.term, i, N))

(* The first c entries of a log are part of what a quorum holds.             *)
IsCommitted(N, l, c) ==
    c = 0 \/ \E b \in Appends(N) : \E i : Chosen(N, b, i) /\ c <= i /\ Shares(l, b.log, c)

CommitsOK(D, N) ==
    /\ \A m \in Members : IsCommitted(N, D[m].log, D[m].commit)
    /\ \A a \in Appends(N) : IsCommitted(N, a.log, a.commit)

DiskOK(d) == d.log \in Seq(Entry) /\ d.term \in Nat /\ d.commit \in Nat /\ d.snap \in Nat

LogInv(D, N) ==
    /\ \A m \in Members : DiskOK(D[m])
    /\ AppendsOK(N) /\ Chain(N) /\ LogsSent(D, N) /\ AcksOK(D, N)
    /\ LaterLeaders(D, N) /\ AckedIsOnDisk(D, N) /\ CommitsOK(D, N)

(* No quorum will vote for m in the term.                                    *)
Unelectable(D, N, m, term) ==
    \E V \in SUBSET Members : Quorum(V) /\ \A f \in V :
        /\ f # m /\ Ballot(f, m, term) \notin N
        /\ \/ D[f].term > term
           \/ D[f].term = term /\ D[f].vote \notin {None, m}

(* A candidate of the term, with its disk at d.                              *)
CandidateOK(D, N, m) ==
    LET d == D[m]
    IN  /\ \A f \in Voters(N, m, d.term) : \A b \in Appends(N) : \A i :
              Own(b, i) /\ b.term < d.term /\ Holds(f, b.term, i, N) => Keeps(D, N, d.log, b, i)
        /\ \A q \in N : q.type = "request" /\ q.from = m /\ q.term = d.term =>
              q.last = Len(d.log) /\ q.last_term = LastTerm(d.log)
        /\ \E q \in N : q.type = "request" /\ q.from = m /\ q.term = d.term
        /\ \A a \in Appends(N) : a.from = m => a.term < d.term
        /\ (\A i \in 1 .. Len(d.log) : d.log[i].term < d.term) \/ Unelectable(D, N, m, d.term)

LeaderOK(D, N, m) ==
    /\ \E a \in Appends(N) : a.from = m /\ a.term = D[m].term /\ a.log = D[m].log
    /\ \A a \in Appends(N) : a.term = D[m].term => Len(a.log) <= Len(D[m].log)

RunsOK ==
    \A m \in Members : Up(m) =>
        /\ {"role", "term", "vote", "log", "stable", "commit", "restored", "applied"}
              \subseteq DOMAIN raw[m]
        /\ raw[m].log = disk[m].log /\ raw[m].term = disk[m].term /\ raw[m].vote = disk[m].vote
        /\ raw[m].commit = disk[m].commit /\ raw[m].stable = Len(disk[m].log)
        /\ raw[m].restored = NoSnapshot /\ raw[m].applied \in 0 .. raw[m].commit
        /\ raw[m].role \in {"follower", "candidate", "leader"}
        /\ raw[m].role = "candidate" => CandidateOK(disk, net, m)
        /\ raw[m].role = "leader" => LeaderOK(disk, net, m)

(* Who asked for votes in a term voted for itself in it.                     *)
RequestsKept ==
    \A q \in Requests : /\ q.term <= disk[q.from].term
                        /\ q.term = disk[q.from].term => disk[q.from].vote = q.from

OneVoice ==
    \A q \in Requests : \A v \in Votes : v.from = q.from /\ v.term = q.term => v.to = q.from

VotesAskedFor ==
    \A v \in Votes : \E q \in Requests : q.from = v.to /\ q.term = v.term

(* Whoever was told Ok was told of a command that a quorum holds.            *)
OkIsChosen ==
    \A c \in DOMAIN calls : calls[c].result = "ok" =>
        \E b \in Appends(net) : \E i : Chosen(net, b, i) /\
            \E j \in 1 .. i : b.log[j].cmd = calls[c].got

(* Every set of naturals has a least element.                               *)
LEMMA LeastExists ==
    ASSUME NEW S, S \subseteq Nat, S # {}
    PROVE  \E x \in S : \A y \in S : x <= y
  <1>1. PICK n \in S : TRUE
    OBVIOUS
  <1> DEFINE Below == {0 .. k : k \in {i \in S : i <= n}}
  <1>2. Below \subseteq FiniteSubsetsOf(Nat)
    <2>1. ASSUME NEW k \in Nat PROVE 0 .. k \in FiniteSubsetsOf(Nat)
      BY FS_Interval DEF FiniteSubsetsOf
    <2> QED
      BY <2>1
  <1>3. 0 .. n \in Below
    BY <1>1
  <1>4. PICK U \in Below : \A V \in Below : ~(<<V, U>> \in StrictSubsetOrdering(Nat))
    <2> HIDE DEF Below
    <2> QED
      BY ONLY <1>2, <1>3, WFMin, FS_StrictSubsetOrderingWellFounded
  <1>5. PICK k \in S : k <= n /\ U = 0 .. k
    BY <1>4
  <1>6. ASSUME NEW y \in S, y < k PROVE FALSE
    <2>1. 0 .. y \in Below /\ 0 .. y \subseteq U /\ 0 .. y # U
      BY <1>5, <1>6
    <2>2. <<0 .. y, U>> \in StrictSubsetOrdering(Nat)
      BY <2>1, <1>5 DEF StrictSubsetOrdering
    <2> QED
      BY <2>1, <2>2, <1>4
  <1> QED
    BY <1>5, <1>6

(* Max of a bounded set of naturals is its greatest element.                *)
LEMMA MaxIsGreatest ==
    ASSUME NEW S, S \subseteq Nat, S # {}, NEW n \in Nat, \A y \in S : y <= n
    PROVE  Max(S) \in S /\ \A y \in S : Max(S) >= y
  <1> DEFINE H == {n - y : y \in S}
  <1>1. H \subseteq Nat /\ H # {}
    OBVIOUS
  <1>2. PICK d \in H : \A e \in H : d <= e
    <2> HIDE DEF H
    <2> QED
      BY <1>1, LeastExists
  <1>3. PICK x \in S : d = n - x
    BY <1>2
  <1>4. \A y \in S : n - y \in H
    OBVIOUS
  <1>5. ASSUME NEW y \in S PROVE x >= y
    BY <1>2, <1>3, <1>4
  <1> QED
    BY <1>5 DEF Max

(* Min and Max of two naturals.                                             *)
LEMMA OfTwo ==
    ASSUME NEW i \in Nat, NEW j \in Nat
    PROVE  /\ Max({i, j}) = IF i >= j THEN i ELSE j
           /\ Min({i, j}) = IF i <= j THEN i ELSE j
  <1>1. Max({i, j}) = IF i >= j THEN i ELSE j
    BY DEF Max
  <1>2. Min({i, j}) = IF i <= j THEN i ELSE j
    BY DEF Min
  <1> QED
    BY <1>1, <1>2

(* The last index at which two logs have entries of one term.               *)
LEMMA MatchingIs ==
    ASSUME NEW l \in Seq(Entry), NEW k \in Seq(Entry)
    PROVE  LET n == Matching(l, k)
           IN  /\ n \in Nat /\ n <= Len(l) /\ n <= Len(k)
               /\ n > 0 => l[n].term = k[n].term
               /\ \A i \in 1 .. Len(l) : i <= Len(k) /\ l[i].term = k[i].term => i <= n
  <1> DEFINE p == Min({Len(l), Len(k)})
             S == {0} \cup {n \in 1 .. p : l[n].term = k[n].term}
  <1>0. Len(l) \in Nat /\ Len(k) \in Nat
    OBVIOUS
  <1>1. p = IF Len(l) <= Len(k) THEN Len(l) ELSE Len(k)
    BY <1>0, OfTwo
  <1>a. Matching(l, k) = Max(S)
    BY DEF Matching
  <1> HIDE DEF p
  <1>2. S \subseteq Nat /\ S # {} /\ \A y \in S : y <= Len(l)
    BY <1>0, <1>1
  <1>3. Max(S) \in S /\ \A y \in S : Max(S) >= y
    <2> HIDE DEF S
    <2> QED
      BY <1>0, <1>2, MaxIsGreatest
  <1>4. \A i \in 1 .. Len(l) : i <= Len(k) /\ l[i].term = k[i].term => i \in S
    BY <1>0, <1>1
  <1>5. /\ Max(S) \in Nat /\ Max(S) <= Len(l) /\ Max(S) <= Len(k)
        /\ Max(S) > 0 => l[Max(S)].term = k[Max(S)].term
    BY <1>0, <1>1, <1>3
  <1> HIDE DEF S
  <1> QED
    BY <1>a, <1>3, <1>4, <1>5

(* A log shares itself; sharing goes both ways, and down to shorter parts.   *)
LEMMA SharesFacts ==
    ASSUME NEW l \in Seq(Entry), NEW k \in Seq(Entry)
    PROVE  /\ Shares(l, l, Len(l))
           /\ \A n \in Nat : Shares(l, k, n) => Shares(k, l, n) /\ \A i \in Nat : i <= n => Shares(l, k, i)
           /\ Shares(l, k, 0)
           /\ Shares(l, k, Len(k)) /\ Len(l) = Len(k) => l = k
  <1>1. /\ Shares(l, l, Len(l)) /\ Shares(l, k, 0)
        /\ \A n \in Nat : Shares(l, k, n) => Shares(k, l, n) /\ \A i \in Nat : i <= n => Shares(l, k, i)
    BY DEF Shares
  <1>2. ASSUME Shares(l, k, Len(k)), Len(l) = Len(k) PROVE l = k
    BY <1>2, SeqEqual DEF Shares
  <1> QED
    BY <1>1, <1>2

(* Sharing is passed on.                                                     *)
LEMMA SharesTrans ==
    ASSUME NEW l, NEW k, NEW h, NEW n \in Nat, NEW i \in Nat, Shares(l, k, n), Shares(k, h, i)
    PROVE  /\ n <= i => Shares(l, h, n)
           /\ i <= n => Shares(l, h, i)
  BY DEF Shares

(* Terms rise, messages are added, and an acknowledgement is of the term its *)
(* sender is in.                                                             *)
Grows(D, N, E, M) ==
    /\ N \subseteq M
    /\ \A f \in Members : D[f].term \in Nat /\ E[f].term \in Nat /\ D[f].term <= E[f].term
    /\ \A k \in Acks(M) : k \in N \/ k.term = E[k.from].term

(* What a quorum has left behind stays behind.                               *)
LEMMA BlockedStays ==
    ASSUME NEW D, NEW N, NEW E, NEW M, Grows(D, N, E, M), NEW term \in Nat, NEW i
    PROVE  Blocked(D, N, term, i) => Blocked(E, M, term, i)
  <1> SUFFICES ASSUME NEW V \in SUBSET Members, Quorum(V),
                      \A f \in V : D[f].term > term /\ ~Holds(f, term, i, N)
               PROVE  \A f \in V : E[f].term > term /\ ~Holds(f, term, i, M)
    BY DEF Blocked
  <1> SUFFICES ASSUME NEW f \in V PROVE E[f].term > term /\ ~Holds(f, term, i, M)
    OBVIOUS
  <1>1. E[f].term > term
    BY DEF Grows
  <1>2. ASSUME NEW k \in M, k.type = "ack", k.from = f, k.term = term, k.match >= i
        PROVE  FALSE
    <2>1. k \in N
      BY <1>1, <1>2 DEF Grows, Acks
    <2> QED
      BY <1>2, <2>1 DEF Holds
  <1> QED
    BY <1>1, <1>2 DEF Holds

(* What a log keeps it keeps, as terms and messages grow.                    *)
LEMMA KeepsStays ==
    ASSUME NEW D, NEW N, NEW E, NEW M, Grows(D, N, E, M), NEW b, b.term \in Nat, NEW l, NEW i,
           Keeps(D, N, l, b, i)
    PROVE  Keeps(E, M, l, b, i)
  BY BlockedStays DEF Keeps

(* An acknowledgement is never taken back.                                   *)
LEMMA HoldsStays ==
    ASSUME NEW N, NEW M, N \subseteq M, NEW f, NEW term, NEW i, Holds(f, term, i, N)
    PROVE  Holds(f, term, i, M)
  BY DEF Holds

(* What a quorum holds it holds from then on.                                *)
LEMMA ChosenStays ==
    ASSUME NEW N, NEW M, N \subseteq M, NEW b, NEW i, Chosen(N, b, i)
    PROVE  Chosen(M, b, i)
  <1> DEFINE Q(K) == Holders(b.term, i, K)
  <1>1. Q(N) \subseteq Q(M) /\ Q(M) \subseteq Members
    BY HoldsStays DEF Holders
  <1>2. Quorum(Q(N))
    BY DEF Chosen
  <1>3. Quorum(Q(M))
    <2> HIDE DEF Q
    <2> QED
      BY <1>1, <1>2, QuorumsGrow
  <1> QED
    BY <1>3 DEF Chosen

(* What is committed stays committed.                                        *)
LEMMA CommittedStays ==
    ASSUME NEW N, NEW M, N \subseteq M, NEW l, NEW c, IsCommitted(N, l, c)
    PROVE  IsCommitted(M, l, c)
  <1>1. Appends(N) \subseteq Appends(M)
    BY DEF Appends
  <1> QED
    BY <1>1, ChosenStays DEF IsCommitted

(* The same entries are committed in every log that has them.                *)
LEMMA CommittedShared ==
    ASSUME NEW N, AppendsOK(N), NEW l \in Seq(Entry), NEW k \in Seq(Entry), NEW c \in Nat,
           IsCommitted(N, l, c), NEW d \in Nat, d <= c, Shares(l, k, d)
    PROVE  IsCommitted(N, k, d)
  <1>1. CASE c = 0
    BY <1>1 DEF IsCommitted
  <1>2. CASE c # 0
    <2>0. PICK b \in Appends(N) : \E i : Chosen(N, b, i) /\ c <= i /\ Shares(l, b.log, c)
      BY <1>2 DEF IsCommitted
    <2>1. PICK i : Chosen(N, b, i) /\ c <= i /\ Shares(l, b.log, c)
      BY <2>0
    <2>2. b.log \in Seq(Entry) /\ i \in Nat
      BY <2>1 DEF AppendsOK, AppendOK, Chosen, Own
    <2>3. Shares(k, b.log, d)
      BY <2>1, <2>2, SharesFacts, SharesTrans
    <2> QED
      BY <2>1, <2>2, <2>3 DEF IsCommitted
  <1> QED
    BY <1>1, <1>2

(* A log is as long as what of it is committed.                              *)
LEMMA CommittedIsThere ==
    ASSUME NEW N, NEW l \in Seq(Entry), NEW c \in Nat, IsCommitted(N, l, c)
    PROVE  c <= Len(l)
  BY DEF IsCommitted, Shares

(* Voters stay, and more may join them.                                      *)
LEMMA VotersGrow ==
    ASSUME NEW N, NEW M, N \subseteq M, NEW m \in Members, NEW term
    PROVE  /\ Voters(N, m, term) \subseteq Voters(M, m, term)
           /\ Voters(M, m, term) \in SUBSET Members
           /\ Quorum(Voters(N, m, term)) => Quorum(Voters(M, m, term))
  <1>1. Voters(N, m, term) \subseteq Voters(M, m, term) /\ Voters(M, m, term) \in SUBSET Members
    BY DEF Voters
  <1> QED
    BY <1>1, QuorumsGrow

(* An append sent in order is in order whatever is sent later.               *)
LEMMA AppendOKStays ==
    ASSUME NEW N, NEW M, N \subseteq M, NEW a, AppendOK(N, a)
    PROVE  AppendOK(M, a)
  BY VotersGrow DEF AppendOK

(* What was sent of a log stays sent.                                        *)
LEMMA SentStays ==
    ASSUME NEW N, NEW M, N \subseteq M, NEW l, Sent(N, l)
    PROVE  Sent(M, l)
  BY DEF Sent, Appends

(* Appends of one term agree on what both have.                              *)
LEMMA OneTermShares ==
    ASSUME NEW N, AppendsOK(N), Chain(N), NEW a \in Appends(N), NEW b \in Appends(N), a.term = b.term,
           NEW i \in Nat, i <= Len(a.log), i <= Len(b.log)
    PROVE  Shares(a.log, b.log, i)
  <1>1. a.log \in Seq(Entry) /\ b.log \in Seq(Entry)
    BY DEF AppendsOK, AppendOK
  <1>2. Len(a.log) \in Nat /\ Len(b.log) \in Nat
    BY <1>1
  <1>3. CASE Len(a.log) <= Len(b.log)
    <2>1. Shares(a.log, b.log, Len(a.log))
      BY <1>3 DEF Chain
    <2> QED
      BY <1>1, <1>2, <2>1, SharesFacts
  <1>4. CASE Len(b.log) <= Len(a.log)
    <2>1. Shares(b.log, a.log, Len(b.log))
      BY <1>4 DEF Chain
    <2>2. Shares(b.log, a.log, i)
      BY <1>1, <1>2, <2>1, SharesFacts
    <2> QED
      BY <1>1, <2>2, SharesFacts
  <1> QED
    BY <1>2, <1>3, <1>4

(* Log matching: logs that agree on the term of an entry agree up to it.     *)
LEMMA LogsMatch ==
    ASSUME NEW N, AppendsOK(N), Chain(N), NEW l \in Seq(Entry), NEW k \in Seq(Entry),
           Sent(N, l), Sent(N, k), NEW i \in 1 .. Len(l), i <= Len(k), l[i].term = k[i].term
    PROVE  Shares(l, k, i)
  <1>1. PICK a \in Appends(N) : a.term = l[i].term /\ Shares(l, a.log, i)
    BY DEF Sent
  <1>2. PICK b \in Appends(N) : b.term = k[i].term /\ Shares(k, b.log, i)
    BY DEF Sent
  <1>3. a.log \in Seq(Entry) /\ b.log \in Seq(Entry)
    BY DEF AppendsOK, AppendOK
  <1>4. i \in Nat /\ i <= Len(a.log) /\ i <= Len(b.log)
    BY <1>1, <1>2 DEF Shares
  <1>5. Shares(a.log, b.log, i)
    BY <1>1, <1>2, <1>4, OneTermShares
  <1>6. Shares(l, b.log, i)
    BY <1>1, <1>4, <1>5, SharesTrans
  <1>7. Shares(b.log, k, i)
    BY <1>2, <1>3, <1>4, SharesFacts
  <1> QED
    BY <1>4, <1>6, <1>7, SharesTrans

(* Terms never fall along a log.                                             *)
LEMMA LogsRise ==
    ASSUME NEW N, AppendsOK(N), NEW l \in Seq(Entry), Sent(N, l)
    PROVE  Rising(l)
  <1> SUFFICES ASSUME NEW i \in 1 .. Len(l), NEW j \in 1 .. Len(l), i <= j
               PROVE  l[i].term <= l[j].term
    BY DEF Rising
  <1>1. PICK a \in Appends(N) : Shares(l, a.log, j)
    BY DEF Sent
  <1>2. Rising(a.log) /\ a.log \in Seq(Entry)
    BY DEF AppendsOK, AppendOK
  <1>3. l[i] = a.log[i] /\ l[j] = a.log[j] /\ i \in 1 .. Len(a.log) /\ j \in 1 .. Len(a.log)
    BY <1>1, <1>2 DEF Shares
  <1> QED
    BY <1>2, <1>3 DEF Rising

(* An entry a quorum holds is not one that no quorum will hold.              *)
LEMMA ChosenIsNotBlocked ==
    ASSUME NEW D, NEW N, NEW b, NEW i, Chosen(N, b, i)
    PROVE  ~Blocked(D, N, b.term, i)
  <1> DEFINE Q == Holders(b.term, i, N)
  <1>1. Q \in SUBSET Members /\ Quorum(Q)
    BY DEF Chosen, Holders
  <1>2. ASSUME NEW V \in SUBSET Members, Quorum(V), \A f \in V : ~Holds(f, b.term, i, N) PROVE FALSE
    <2>1. Q \cap V # {}
      <3> HIDE DEF Q
      <3> QED
        BY <1>1, <1>2, QuorumsIntersect
    <2> QED
      BY <1>2, <2>1 DEF Holders
  <1> QED
    BY <1>2 DEF Blocked

(* What a quorum holds of an earlier or the same leader, a leader has.       *)
LEMMA ChosenIsKept ==
    ASSUME NEW D, NEW N, AppendsOK(N), Chain(N), LaterLeaders(D, N),
           NEW a \in Appends(N), NEW b \in Appends(N), NEW i, Chosen(N, b, i), b.term <= a.term,
           NEW j \in Nat, j <= i, j <= Len(a.log)
    PROVE  Shares(a.log, b.log, j)
  <1>1. /\ a.log \in Seq(Entry) /\ b.log \in Seq(Entry) /\ a.term \in Nat /\ b.term \in Nat
        /\ Own(b, i) /\ i \in Nat /\ i <= Len(b.log)
    BY DEF AppendsOK, AppendOK, Chosen, Own
  <1>2. CASE b.term = a.term
    BY <1>1, <1>2, OneTermShares
  <1>3. CASE b.term < a.term
    <2>1. Keeps(D, N, a.log, b, i)
      BY <1>1, <1>3 DEF LaterLeaders
    <2>2. Shares(a.log, b.log, i)
      BY <2>1, ChosenIsNotBlocked DEF Keeps
    <2> QED
      BY <1>1, <2>2, SharesFacts
  <1> QED
    BY <1>1, <1>2, <1>3

(* Two logs agree on what is committed in both.                              *)
LEMMA CommittedAgree ==
    ASSUME NEW D, NEW N, AppendsOK(N), Chain(N), LaterLeaders(D, N),
           NEW l \in Seq(Entry), NEW k \in Seq(Entry), NEW c \in Nat, NEW d \in Nat, c <= d,
           IsCommitted(N, l, c), IsCommitted(N, k, d)
    PROVE  Shares(l, k, c)
  <1>1. CASE c = 0
    BY <1>1, SharesFacts
  <1>2. CASE c # 0
    <2>0. d # 0
      BY <1>2
    <2>1. PICK a \in Appends(N) : \E i : Chosen(N, a, i) /\ c <= i /\ Shares(l, a.log, c)
      BY <1>2 DEF IsCommitted
    <2>2. PICK i : Chosen(N, a, i) /\ c <= i /\ Shares(l, a.log, c)
      BY <2>1
    <2>3. PICK b \in Appends(N) : \E j : Chosen(N, b, j) /\ d <= j /\ Shares(k, b.log, d)
      BY <2>0 DEF IsCommitted
    <2>4. PICK j : Chosen(N, b, j) /\ d <= j /\ Shares(k, b.log, d)
      BY <2>3
    <2>5. /\ a.log \in Seq(Entry) /\ b.log \in Seq(Entry) /\ a.term \in Nat /\ b.term \in Nat
          /\ i \in 1 .. Len(a.log) /\ j \in 1 .. Len(b.log)
      BY <2>2, <2>4 DEF AppendsOK, AppendOK, Chosen, Own
    <2>6. c <= Len(a.log) /\ c <= Len(b.log) /\ c <= j
      BY <2>2, <2>4, <2>5
    <2>7. Shares(a.log, b.log, c)
      <3>1. CASE a.term <= b.term
        <4>1. Shares(b.log, a.log, c)
          BY <2>2, <2>6, <3>1, ChosenIsKept
        <4> QED
          BY <2>5, <4>1, SharesFacts
      <3>2. CASE b.term <= a.term
        BY <2>4, <2>6, <3>2, ChosenIsKept
      <3> QED
        BY <2>5, <3>1, <3>2
    <2>8. Shares(l, b.log, c)
      BY <2>2, <2>7, SharesTrans
    <2>9. Shares(b.log, k, c)
      BY <2>4, <2>5, SharesFacts
    <2> QED
      BY <2>8, <2>9, SharesTrans
  <1> QED
    BY <1>1, <1>2

(* Entry i of an append that is about to go out was sent before, or nobody   *)
(* holds it and no later leader can do without it by accident.               *)
Fresh(D, N, a) ==
    \A i : Own(a, i) =>
        \/ \E b \in Appends(N) : b.term = a.term /\ Shares(a.log, b.log, i)
        \/ /\ \A f \in Members : ~Holds(f, a.term, i, N)
           /\ \A b \in Appends(N) : a.term < b.term => Blocked(D, N, a.term, i)

(* Of the messages one more append adds an append and nothing else.          *)
LEMMA AppendsCount ==
    ASSUME NEW D, NEW N, NEW a, a.type = "append"
    PROVE  /\ Appends(N \cup {a}) = Appends(N) \cup {a}
           /\ Acks(N \cup {a}) = Acks(N)
           /\ \A f, term, i : Holds(f, term, i, N \cup {a}) = Holds(f, term, i, N)
           /\ \A term, i : Blocked(D, N \cup {a}, term, i) = Blocked(D, N, term, i)
           /\ \A m, term : Voters(N \cup {a}, m, term) = Voters(N, m, term)
           /\ \A f, t, term : Ballot(f, t, term) \in N \cup {a} <=> Ballot(f, t, term) \in N
  <1>1. \A f, term, i : Holds(f, term, i, N \cup {a}) <=> Holds(f, term, i, N)
    BY DEF Holds
  <1>2. \A term, i : Blocked(D, N \cup {a}, term, i) <=> Blocked(D, N, term, i)
    BY <1>1 DEF Blocked
  <1>3. \A f, t, term : Ballot(f, t, term) \in N \cup {a} <=> Ballot(f, t, term) \in N
    BY DEF Ballot
  <1>4. \A m, term : Voters(N \cup {a}, m, term) = Voters(N, m, term)
    BY <1>3 DEF Voters
  <1>5. Appends(N \cup {a}) = Appends(N) \cup {a} /\ Acks(N \cup {a}) = Acks(N)
    BY DEF Appends, Acks
  <1>6. /\ \A f, term, i : Holds(f, term, i, N) \in BOOLEAN /\ Holds(f, term, i, N \cup {a}) \in BOOLEAN
        /\ \A term, i : Blocked(D, N, term, i) \in BOOLEAN /\ Blocked(D, N \cup {a}, term, i) \in BOOLEAN
    BY DEF Holds, Blocked
  <1> QED
    BY <1>1, <1>2, <1>3, <1>4, <1>5, <1>6

(* What keeps an entry of an append keeps the same entry of another.         *)
LEMMA KeepsAlike ==
    ASSUME NEW D, NEW N, NEW l \in Seq(Entry), NEW a, a.log \in Seq(Entry), NEW b, b.log \in Seq(Entry),
           a.term = b.term, NEW i, Own(a, i), Shares(a.log, b.log, i)
    PROVE  /\ Own(b, i)
           /\ Keeps(D, N, l, b, i) => Keeps(D, N, l, a, i)
  <1>1. i \in Nat /\ i \in 1 .. Len(a.log) /\ i <= Len(b.log) /\ i >= 1
    BY DEF Own, Shares
  <1>2. Own(b, i)
    BY <1>1 DEF Own, Shares
  <1>3. Shares(b.log, a.log, i)
    BY <1>1, SharesFacts
  <1>4. ASSUME Shares(l, b.log, i) PROVE Shares(l, a.log, i)
    BY <1>1, <1>3, <1>4, SharesTrans
  <1> QED
    BY <1>2, <1>4 DEF Keeps

(* An append goes out.                                                       *)
LEMMA AppendGoesOut ==
    ASSUME NEW D, NEW N, LogInv(D, N), NEW a, a.type = "append", AppendOK(N, a),
           \A b \in Appends(N) : b.term = a.term =>
              b.from = a.from
              /\ (Shares(b.log, a.log, Len(b.log)) \/ Shares(a.log, b.log, Len(a.log))),
           Sent(N \cup {a}, a.log),
           \A b \in Appends(N) : \A i : Own(b, i) /\ b.term < a.term => Keeps(D, N, a.log, b, i),
           Fresh(D, N, a), IsCommitted(N, a.log, a.commit)
    PROVE  LogInv(D, N \cup {a})
  <1> DEFINE M == N \cup {a}
  <1>0. /\ \A m \in Members : DiskOK(D[m])
        /\ AppendsOK(N) /\ Chain(N) /\ LogsSent(D, N) /\ AcksOK(D, N)
        /\ LaterLeaders(D, N) /\ AckedIsOnDisk(D, N) /\ CommitsOK(D, N)
    BY DEF LogInv
  <1>1. /\ N \subseteq M /\ Appends(M) = Appends(N) \cup {a} /\ Acks(M) = Acks(N)
        /\ \A f, term, i : Holds(f, term, i, M) <=> Holds(f, term, i, N)
        /\ \A l, b, i : Keeps(D, M, l, b, i) <=> Keeps(D, N, l, b, i)
    <2>1. /\ N \subseteq M /\ Appends(M) = Appends(N) \cup {a} /\ Acks(M) = Acks(N)
          /\ \A f, term, i : Holds(f, term, i, M) = Holds(f, term, i, N)
          /\ \A term, i : Blocked(D, M, term, i) = Blocked(D, N, term, i)
      BY ONLY AppendsCount, a.type = "append"
    <2> HIDE DEF M
    <2> QED
      BY <2>1 DEF Keeps
  <1> HIDE DEF M
  <1>2. a.log \in Seq(Entry) /\ a.term \in Nat /\ Len(a.log) \in Nat
    BY DEF AppendOK
  <1>3. \A b \in Appends(N) : b.log \in Seq(Entry) /\ b.term \in Nat /\ Len(b.log) \in Nat
    BY <1>0 DEF AppendsOK, AppendOK
  <1>4. AppendsOK(M)
    BY <1>0, <1>1, AppendOKStays DEF AppendsOK
  <1>5. Chain(M)
    <2> SUFFICES ASSUME NEW b \in Appends(M), NEW c \in Appends(M), b.term = c.term
                 PROVE  b.from = c.from
                        /\ (Len(b.log) <= Len(c.log) => Shares(b.log, c.log, Len(b.log)))
      BY DEF Chain
    <2>1. CASE b \in Appends(N) /\ c \in Appends(N)
      BY <1>0, <2>1 DEF Chain
    <2>2. CASE b = a /\ c = a
      BY <1>2, <2>2, SharesFacts
    <2>3. CASE b \in Appends(N) /\ c = a
      <3>1. ASSUME Len(b.log) <= Len(a.log), Shares(a.log, b.log, Len(a.log))
            PROVE  Shares(b.log, a.log, Len(b.log))
        BY <1>2, <1>3, <2>3, <3>1, SharesFacts DEF Shares
      <3> QED
        BY <2>3, <3>1
    <2>4. CASE b = a /\ c \in Appends(N)
      <3>1. ASSUME Len(a.log) <= Len(c.log), Shares(c.log, a.log, Len(c.log))
            PROVE  Shares(a.log, c.log, Len(a.log))
        BY <1>2, <1>3, <2>4, <3>1, SharesFacts DEF Shares
      <3> QED
        BY <2>4, <3>1
    <2> QED
      BY <1>1, <2>1, <2>2, <2>3, <2>4
  <1>6. LogsSent(D, M)
    BY <1>0, <1>1, SentStays DEF LogsSent, M
  <1>7. AcksOK(D, M)
    BY <1>0, <1>1 DEF AcksOK
  <1>8. ASSUME NEW i, Own(a, i), NEW l \in Seq(Entry),
               \E f \in Members : Holds(f, a.term, i, N) /\
                  \A b \in Appends(N) : Own(b, i) /\ b.term = a.term => Keeps(D, N, l, b, i)
        PROVE  Keeps(D, N, l, a, i)
    <2>1. PICK b \in Appends(N) : b.term = a.term /\ Shares(a.log, b.log, i)
      BY <1>8 DEF Fresh
    <2> QED
      BY <1>2, <1>3, <1>8, <2>1, KeepsAlike
  <1>9. LaterLeaders(D, M)
    <2> SUFFICES ASSUME NEW c \in Appends(M), NEW b \in Appends(M), NEW i, Own(b, i), b.term < c.term
                 PROVE  Keeps(D, N, c.log, b, i)
      BY <1>1 DEF LaterLeaders
    <2>1. CASE b \in Appends(N) /\ c \in Appends(N)
      BY <1>0, <2>1 DEF LaterLeaders
    <2>2. CASE b \in Appends(N) /\ c = a
      BY <2>2
    <2>3. CASE b = a /\ c = a
      BY <1>2, <2>3
    <2>4. CASE b = a /\ c \in Appends(N)
      <3>1. CASE \E e \in Appends(N) : e.term = a.term /\ Shares(a.log, e.log, i)
        <4>1. PICK e \in Appends(N) : e.term = a.term /\ Shares(a.log, e.log, i)
          BY <3>1
        <4>2. Own(e, i)
          BY <1>2, <1>3, <2>4, <4>1, KeepsAlike
        <4>3. Keeps(D, N, c.log, e, i)
          BY <1>0, <2>4, <4>1, <4>2 DEF LaterLeaders
        <4> QED
          BY <1>2, <1>3, <2>4, <4>1, <4>3, KeepsAlike
      <3>2. CASE Blocked(D, N, a.term, i)
        BY <2>4, <3>2 DEF Keeps
      <3> QED
        BY <2>4, <3>1, <3>2 DEF Fresh
    <2> QED
      BY <1>1, <2>1, <2>2, <2>3, <2>4
  <1>10. AckedIsOnDisk(D, M)
    <2> SUFFICES ASSUME NEW f \in Members, NEW b \in Appends(M), NEW i, Own(b, i),
                        Holds(f, b.term, i, N)
                 PROVE  Keeps(D, N, D[f].log, b, i)
      BY <1>1 DEF AckedIsOnDisk
    <2>1. CASE b \in Appends(N)
      BY <1>0, <2>1 DEF AckedIsOnDisk
    <2>2. CASE b = a
      <3>1. D[f].log \in Seq(Entry)
        BY <1>0 DEF DiskOK
      <3>2. \A e \in Appends(N) : Own(e, i) /\ e.term = a.term => Keeps(D, N, D[f].log, e, i)
        BY <1>0, <2>2 DEF AckedIsOnDisk
      <3> QED
        BY <1>8, <2>2, <3>1, <3>2
    <2> QED
      BY <1>1, <2>1, <2>2
  <1>11. CommitsOK(D, M)
    BY <1>0, <1>1, CommittedStays DEF CommitsOK
  <1> QED
    BY <1>0, <1>4, <1>5, <1>6, <1>7, <1>9, <1>10, <1>11 DEF LogInv, M

(* A member has reached the terms it spoke of.                               *)
SaidInTerm(D, N) ==
    \A q \in Said(N) : q.from \in Members /\ q.term \in Nat /\ q.term <= D[q.from].term

(* All is well with the logs, the candidates in C and the leaders in L.      *)
Good(D, N, C, L) ==
    /\ LogInv(D, N)
    /\ SaidInTerm(D, N)
    /\ \A n \in C : CandidateOK(D, N, n)
    /\ \A n \in L : LeaderOK(D, N, n)

(* A new append leaves what is known of the other candidates.                *)
LEMMA AppendAndCandidates ==
    ASSUME NEW D, NEW N, LogInv(D, N), NEW a, a.type = "append", AppendOK(N, a), Fresh(D, N, a),
           NEW n \in Members, n # a.from, CandidateOK(D, N, n)
    PROVE  CandidateOK(D, N \cup {a}, n)
  <1> DEFINE M == N \cup {a}
             d == D[n]
  <1>1. /\ N \subseteq M /\ Appends(M) = Appends(N) \cup {a}
        /\ \A f, term, i : Holds(f, term, i, M) = Holds(f, term, i, N)
        /\ \A term, i : Blocked(D, M, term, i) = Blocked(D, N, term, i)
        /\ \A p, term : Voters(M, p, term) = Voters(N, p, term)
        /\ \A f, t, term : Ballot(f, t, term) \in M <=> Ballot(f, t, term) \in N
    BY ONLY AppendsCount, a.type = "append", ZenonT(40)
  <1>2. \A q \in M : q.type = "request" => q \in N
    OBVIOUS
  <1> HIDE DEF M
  <1>3. \A l, b, i : Keeps(D, M, l, b, i) = Keeps(D, N, l, b, i)
    BY <1>1 DEF Keeps
  <1>4. /\ d.log \in Seq(Entry) /\ a.log \in Seq(Entry)
        /\ \A b \in Appends(N) : b.log \in Seq(Entry)
    BY DEF LogInv, DiskOK, AppendsOK, AppendOK
  <1>5. ASSUME NEW f \in Voters(N, n, d.term), NEW b \in Appends(M), NEW i,
               Own(b, i), b.term < d.term, Holds(f, b.term, i, N)
        PROVE  Keeps(D, N, d.log, b, i)
    <2>1. CASE b \in Appends(N)
      BY <1>5, <2>1 DEF CandidateOK
    <2>2. CASE b = a
      <3>0. f \in Members
        BY DEF Voters
      <3>1. PICK e \in Appends(N) : e.term = a.term /\ Shares(a.log, e.log, i)
        BY <1>5, <2>2, <3>0 DEF Fresh
      <3>2. Own(e, i)
        BY <1>4, <1>5, <2>2, <3>1, KeepsAlike
      <3>3. Keeps(D, N, d.log, e, i)
        BY <1>5, <2>2, <3>1, <3>2 DEF CandidateOK
      <3> QED
        BY <1>4, <1>5, <2>2, <3>1, <3>3, KeepsAlike
    <2> QED
      BY <1>1, <1>5, <2>1, <2>2
  <1>6. Unelectable(D, N, n, d.term) => Unelectable(D, M, n, d.term)
    BY <1>1 DEF Unelectable
  <1>7. \A b \in Appends(M) : b.from = n => b.term < d.term
    BY <1>1 DEF CandidateOK
  <1>8. \E q \in M : q.type = "request" /\ q.from = n /\ q.term = d.term
    BY <1>1 DEF CandidateOK
  <1>9. \A q \in M : q.type = "request" /\ q.from = n /\ q.term = d.term =>
              q.last = Len(d.log) /\ q.last_term = LastTerm(d.log)
    BY <1>2 DEF CandidateOK
  <1>10. (\A i \in 1 .. Len(d.log) : d.log[i].term < d.term) \/ Unelectable(D, M, n, d.term)
    BY <1>6 DEF CandidateOK
  <1>11. \A f \in Voters(M, n, d.term) : \A b \in Appends(M) : \A i :
              Own(b, i) /\ b.term < d.term /\ Holds(f, b.term, i, M) => Keeps(D, M, d.log, b, i)
    BY <1>1, <1>3, <1>5
  <1> QED
    BY <1>7, <1>8, <1>9, <1>10, <1>11 DEF CandidateOK, M

(* And what is known of the other leaders.                                   *)
LEMMA AppendAndLeaders ==
    ASSUME NEW D, NEW N, NEW a, a.type = "append",
           \A b \in Appends(N) : b.term = a.term => b.from = a.from,
           NEW n \in Members, n # a.from, LeaderOK(D, N, n)
    PROVE  LeaderOK(D, N \cup {a}, n)
  <1>1. Appends(N \cup {a}) = Appends(N) \cup {a}
    BY ONLY AppendsCount, a.type = "append"
  <1>2. a.term # D[n].term
    BY DEF LeaderOK
  <1> QED
    BY <1>1, <1>2 DEF LeaderOK

(* All is still well when an append has gone out.                            *)
LEMMA SendsAppend ==
    ASSUME NEW D, NEW N, NEW C \in SUBSET Members, NEW L \in SUBSET Members,
           Good(D, N, C, L), NEW a, a.type = "append", AppendOK(N, a), a.from \notin C \cup L,
           \A b \in Appends(N) : b.term = a.term =>
              b.from = a.from
              /\ (Shares(b.log, a.log, Len(b.log)) \/ Shares(a.log, b.log, Len(a.log))),
           Sent(N \cup {a}, a.log),
           \A b \in Appends(N) : \A i : Own(b, i) /\ b.term < a.term => Keeps(D, N, a.log, b, i),
           Fresh(D, N, a), IsCommitted(N, a.log, a.commit)
    PROVE  Good(D, N \cup {a}, C, L)
  <1>1. LogInv(D, N \cup {a})
    BY AppendGoesOut DEF Good
  <1>2. SaidInTerm(D, N \cup {a})
    BY DEF Good, SaidInTerm, Said
  <1>3. \A n \in C : CandidateOK(D, N \cup {a}, n)
    BY AppendAndCandidates DEF Good
  <1>4. \A n \in L : LeaderOK(D, N \cup {a}, n)
    BY AppendAndLeaders DEF Good
  <1> QED
    BY <1>1, <1>2, <1>3, <1>4 DEF Good

(* An append goes out again, perhaps with another commit index.              *)
LEMMA SendsAgain ==
    ASSUME NEW D, NEW N, NEW C \in SUBSET Members, NEW L \in SUBSET Members,
           Good(D, N, C, L), NEW a, a.type = "append", a.from \notin C \cup L, a.snap \in Nat,
           NEW b \in Appends(N), b.from = a.from, b.term = a.term, b.log = a.log,
           a.commit \in Nat, IsCommitted(N, a.log, a.commit)
    PROVE  Good(D, N \cup {a}, C, L)
  <1>0. AppendsOK(N) /\ Chain(N) /\ LogsSent(D, N) /\ LaterLeaders(D, N)
    BY DEF Good, LogInv
  <1>1. AppendOK(N, b) /\ a.log \in Seq(Entry) /\ Len(a.log) \in Nat
    BY <1>0 DEF AppendsOK, AppendOK
  <1>2. a.commit \in 0 .. Len(a.log)
    BY <1>1, CommittedIsThere
  <1>3. AppendOK(N, a)
    BY <1>1, <1>2 DEF AppendOK
  <1>4. \A e \in Appends(N) : e.term = a.term =>
              e.from = a.from
              /\ (Shares(e.log, a.log, Len(e.log)) \/ Shares(a.log, e.log, Len(a.log)))
    <2> SUFFICES ASSUME NEW e \in Appends(N), e.term = a.term
                 PROVE  e.from = a.from
                        /\ (Shares(e.log, a.log, Len(e.log)) \/ Shares(a.log, e.log, Len(a.log)))
      OBVIOUS
    <2>1. e.log \in Seq(Entry) /\ Len(e.log) \in Nat
      BY <1>0 DEF AppendsOK, AppendOK
    <2> QED
      BY <1>0, <1>1, <2>1 DEF Chain
  <1>5. Sent(N \cup {a}, a.log)
    BY <1>0, SentStays DEF LogsSent
  <1>6. \A e \in Appends(N) : \A i : Own(e, i) /\ e.term < a.term => Keeps(D, N, a.log, e, i)
    BY <1>0 DEF LaterLeaders
  <1>7. Fresh(D, N, a)
    <2>1. \A i : Own(a, i) => Shares(a.log, b.log, i)
      BY <1>1, SharesFacts DEF Own
    <2> QED
      BY <2>1 DEF Fresh
  <1> QED
    BY <1>3, <1>4, <1>5, <1>6, <1>7, SendsAppend

(* Member m writes to its disk: D becomes E.                                 *)
Writes(D, E, m) ==
    /\ \A f \in Members \ {m} : E[f] = D[f]
    /\ DiskOK(E[m])
    /\ D[m].term <= E[m].term
    /\ E[m].term = D[m].term => D[m].vote \in {None, E[m].vote}

(* All is still well when the log written keeps what the member acknowledged *)
(* and what it knows to be committed.                                        *)
LEMMA WritesDisk ==
    ASSUME NEW D, NEW N, NEW m \in Members, NEW C \in SUBSET (Members \ {m}),
           NEW L \in SUBSET (Members \ {m}), Good(D, N, C, L), NEW E, Writes(D, E, m),
           Sent(N, E[m].log), IsCommitted(N, E[m].log, E[m].commit),
           \A b \in Appends(N) : \A i : Own(b, i) /\ Holds(m, b.term, i, N) => Keeps(D, N, E[m].log, b, i)
    PROVE  Good(E, N, C, L)
  <1>0. /\ \A f \in Members : DiskOK(D[f])
        /\ AppendsOK(N) /\ Chain(N) /\ LogsSent(D, N) /\ AcksOK(D, N)
        /\ LaterLeaders(D, N) /\ AckedIsOnDisk(D, N) /\ CommitsOK(D, N)
        /\ SaidInTerm(D, N) /\ \A n \in C : CandidateOK(D, N, n)
        /\ \A n \in L : LeaderOK(D, N, n)
    BY DEF Good, LogInv
  <1>1. \A f \in Members : /\ DiskOK(E[f]) /\ D[f].term \in Nat /\ E[f].term \in Nat
                           /\ D[f].term <= E[f].term
                           /\ E[f].term = D[f].term => D[f].vote \in {None, E[f].vote} \/ E[f].vote = D[f].vote
    <2> SUFFICES ASSUME NEW f \in Members
                 PROVE  /\ DiskOK(E[f]) /\ D[f].term \in Nat /\ E[f].term \in Nat
                        /\ D[f].term <= E[f].term
                        /\ E[f].term = D[f].term => D[f].vote \in {None, E[f].vote} \/ E[f].vote = D[f].vote
      OBVIOUS
    <2>1. CASE f = m
      BY <1>0, <2>1 DEF Writes, DiskOK
    <2>2. CASE f # m
      BY <1>0, <2>2 DEF Writes, DiskOK
    <2> QED
      BY <2>1, <2>2
  <1>2. Grows(D, N, E, N)
    BY <1>1 DEF Grows, Acks
  <1>3. \A b \in Appends(N) : b.term \in Nat
    BY <1>0 DEF AppendsOK, AppendOK
  <1>4. \A b \in Appends(N) : \A l, i : Keeps(D, N, l, b, i) => Keeps(E, N, l, b, i)
    BY <1>2, <1>3, KeepsStays
  <1>5. LogsSent(E, N)
    BY <1>0 DEF LogsSent, Writes
  <1>6. AcksOK(E, N)
    <2> SUFFICES ASSUME NEW k \in Acks(N) PROVE k.term <= E[k.from].term
      BY <1>0 DEF AcksOK
    <2> QED
      BY <1>0, <1>1 DEF AcksOK
  <1>7. LaterLeaders(E, N)
    BY <1>0, <1>4 DEF LaterLeaders
  <1>8. AckedIsOnDisk(E, N)
    <2> SUFFICES ASSUME NEW f \in Members, NEW b \in Appends(N), NEW i, Own(b, i), Holds(f, b.term, i, N)
                 PROVE  Keeps(E, N, E[f].log, b, i)
      BY DEF AckedIsOnDisk
    <2>1. CASE f = m
      BY <1>4, <2>1
    <2>2. CASE f # m
      BY <1>0, <1>4, <2>2 DEF AckedIsOnDisk, Writes
    <2> QED
      BY <2>1, <2>2
  <1>9. CommitsOK(E, N)
    BY <1>0 DEF CommitsOK, Writes
  <1>10. SaidInTerm(E, N)
    <2> SUFFICES ASSUME NEW q \in Said(N) PROVE q.from \in Members /\ q.term \in Nat /\ q.term <= E[q.from].term
      BY DEF SaidInTerm
    <2> QED
      BY <1>0, <1>1 DEF SaidInTerm
  <1>11. ASSUME NEW n \in C PROVE CandidateOK(E, N, n)
    <2>1. n \in Members /\ E[n] = D[n] /\ CandidateOK(D, N, n)
      BY <1>0 DEF Writes
    <2>2. Unelectable(D, N, n, D[n].term) => Unelectable(E, N, n, D[n].term)
      <3> SUFFICES ASSUME NEW V \in SUBSET Members, Quorum(V),
                          \A f \in V : /\ f # n /\ Ballot(f, n, D[n].term) \notin N
                                       /\ \/ D[f].term > D[n].term
                                          \/ D[f].term = D[n].term /\ D[f].vote \notin {None, n}
                   PROVE  \A f \in V : /\ f # n /\ Ballot(f, n, D[n].term) \notin N
                                       /\ \/ E[f].term > D[n].term
                                          \/ E[f].term = D[n].term /\ E[f].vote \notin {None, n}
        BY DEF Unelectable
      <3> SUFFICES ASSUME NEW f \in V
                   PROVE  \/ E[f].term > D[n].term
                          \/ E[f].term = D[n].term /\ E[f].vote \notin {None, n}
        OBVIOUS
      <3>1. D[n].term \in Nat /\ D[f].term \in Nat /\ E[f].term \in Nat
        BY <1>1, <2>1
      <3> QED
        BY <1>1, <3>1
    <2>3. \A f \in Voters(N, n, D[n].term) : \A b \in Appends(N) : \A i :
              Own(b, i) /\ b.term < D[n].term /\ Holds(f, b.term, i, N) => Keeps(E, N, D[n].log, b, i)
      BY <1>4, <2>1 DEF CandidateOK
    <2> QED
      BY <2>1, <2>2, <2>3 DEF CandidateOK
  <1>12. \A n \in L : LeaderOK(E, N, n)
    BY <1>0 DEF Writes, LeaderOK
  <1> QED
    BY <1>0, <1>1, <1>5, <1>6, <1>7, <1>8, <1>9, <1>10, <1>11, <1>12 DEF Good, LogInv

(* The candidate who sent q has all that a log l has.                        *)
UpToDate(q, l) ==
    \/ q.last_term > LastTerm(l)
    \/ q.last_term = LastTerm(l) /\ q.last >= Len(l)

(* A log that is up to date has what the other keeps of an earlier leader.   *)
LEMMA UpToDateKeeps ==
    ASSUME NEW D, NEW N, AppendsOK(N), Chain(N), LaterLeaders(D, N),
           NEW l \in Seq(Entry), Sent(N, l), NEW k \in Seq(Entry), Sent(N, k),
           NEW q, q.last = Len(l), q.last_term = LastTerm(l), UpToDate(q, k),
           NEW b \in Appends(N), NEW i, Own(b, i), Keeps(D, N, k, b, i)
    PROVE  Keeps(D, N, l, b, i)
  <1> SUFFICES ASSUME Shares(k, b.log, i) PROVE Keeps(D, N, l, b, i)
    BY DEF Keeps
  <1>1. /\ b.log \in Seq(Entry) /\ b.term \in Nat /\ i \in Nat /\ i >= 1 /\ i <= Len(k)
        /\ k[i].term = b.term /\ Len(k) \in Nat /\ Len(l) \in Nat
    BY DEF AppendsOK, AppendOK, Own, Shares
  <1>2. LastTerm(k) = k[Len(k)].term /\ LastTerm(k) >= b.term
    <2>1. k # <<>> /\ Last(k) = k[Len(k)]
      BY <1>1 DEF Last
    <2>2. Rising(k)
      BY LogsRise
    <2>3. b.term <= k[Len(k)].term
      BY <1>1, <2>2 DEF Rising
    <2>4. k[Len(k)] \in Entry
      BY <1>1
    <2> QED
      BY <1>1, <2>1, <2>3, <2>4 DEF LastTerm, Entry
  <1>3. LastTerm(k) \in Nat
    <2>1. k[Len(k)] \in Entry
      BY <1>1
    <2> QED
      BY <1>2, <2>1 DEF Entry
  <1>4. CASE l = <<>>
    <2>1. LastTerm(l) = 0 /\ Len(l) = 0
      BY <1>4 DEF LastTerm
    <2> QED
      BY <1>1, <1>2, <1>3, <2>1 DEF UpToDate
  <1>5. CASE l # <<>>
    <2>1. Len(l) \in 1 .. Len(l) /\ LastTerm(l) = l[Len(l)].term /\ l[Len(l)] \in Entry
      BY <1>1, <1>5 DEF LastTerm, Last
    <2>2. LastTerm(l) \in Nat
      BY <2>1 DEF Entry
    <2>3. CASE LastTerm(l) = LastTerm(k)
      <3>1. Len(l) >= Len(k) /\ Len(k) \in 1 .. Len(k)
        BY <1>1, <1>3, <2>2, <2>3 DEF UpToDate
      <3>2. PICK a \in Appends(N) : a.term = LastTerm(l) /\ Shares(l, a.log, Len(l))
        BY <2>1 DEF Sent
      <3>3. PICK c \in Appends(N) : c.term = LastTerm(k) /\ Shares(k, c.log, Len(k))
        BY <1>2, <3>1 DEF Sent
      <3>4. a.log \in Seq(Entry) /\ c.log \in Seq(Entry)
        BY DEF AppendsOK, AppendOK
      <3>5. i <= Len(a.log) /\ i <= Len(c.log)
        BY <1>1, <3>1, <3>2, <3>3, <3>4 DEF Shares
      <3>6. Shares(a.log, c.log, i)
        BY <1>1, <2>3, <3>2, <3>3, <3>5, OneTermShares
      <3>7. Shares(l, a.log, i) /\ Shares(c.log, k, i)
        BY <1>1, <3>1, <3>2, <3>3, <3>4, SharesFacts
      <3>8. Shares(l, c.log, i)
        BY <1>1, <3>6, <3>7, SharesTrans
      <3>9. Shares(l, k, i)
        BY <1>1, <3>7, <3>8, SharesTrans
      <3> QED
        BY <1>1, <3>9, SharesTrans DEF Keeps
    <2>4. CASE LastTerm(l) > LastTerm(k)
      <3>1. PICK a \in Appends(N) : a.term = LastTerm(l) /\ Shares(l, a.log, Len(l))
        BY <2>1 DEF Sent
      <3>2. a.log \in Seq(Entry) /\ Rising(a.log)
        BY DEF AppendsOK, AppendOK
      <3>3. Keeps(D, N, a.log, b, i)
        BY <1>1, <1>2, <1>3, <2>2, <2>4, <3>1 DEF LaterLeaders
      <3>4. ASSUME Shares(a.log, b.log, i) PROVE Shares(l, b.log, i)
        <4>1. i <= Len(l)
          <5> SUFFICES ASSUME i > Len(l) PROVE FALSE
            BY <1>1
          <5>1. Len(l) \in 1 .. Len(a.log) /\ i \in 1 .. Len(a.log) /\ Len(l) <= i
            BY <1>1, <2>1, <3>1, <3>2, <3>4 DEF Shares
          <5>2. a.log[Len(l)].term <= a.log[i].term
            BY <3>2, <5>1 DEF Rising
          <5>3. a.log[Len(l)] = l[Len(l)]
            BY <2>1, <3>1 DEF Shares
          <5>4. a.log[i] = b.log[i]
            BY <1>1, <3>4 DEF Shares
          <5> QED
            BY <1>1, <1>2, <1>3, <2>1, <2>2, <2>4, <5>2, <5>3, <5>4 DEF Own
        <4>2. Shares(l, a.log, i)
          BY <1>1, <3>1, <3>2, <4>1, SharesFacts
        <4> QED
          BY <1>1, <3>4, <4>2, SharesTrans
      <3> QED
        BY <3>3, <3>4 DEF Keeps
    <2> QED
      BY <1>3, <2>2, <2>3, <2>4 DEF UpToDate
  <1> QED
    BY <1>4, <1>5

(* What member m may say once d is on its disk, N having been sent: it       *)
(* acknowledges what it has of an append, it votes for candidates up to date *)
(* and as its disk says, and asks for votes in its own term.                 *)
MaySay(d, N, m, out) ==
    /\ \A a \in out : a.type # "append"
    /\ \A k \in out : k.type = "ack" =>
          /\ k.from = m /\ k.term = d.term /\ k.match \in Nat
          /\ \E a \in Appends(N) : /\ a.term = k.term /\ k.match <= Len(a.log)
                                   /\ Shares(d.log, a.log, k.match)
    /\ \A q \in out : q.type = "request" => q.from = m /\ q.term = d.term
    /\ \A v \in out : v.type = "vote" =>
          /\ v = Ballot(m, d.vote, d.term)
          /\ \E q \in N : /\ q.type = "request" /\ q.from = v.to /\ q.term = v.term
                          /\ UpToDate(q, d.log)

(* What a member says leaves what is known of the other candidates.          *)
LEMMA SaysToCandidates ==
    ASSUME NEW D, NEW N, NEW m \in Members, LogInv(D, N), NEW out, MaySay(D[m], N, m, out),
           SaidInTerm(D, N \cup out), NEW n \in Members, n # m, CandidateOK(D, N, n),
           \A b \in Appends(N) : \A l, i : Keeps(D, N, l, b, i) => Keeps(D, N \cup out, l, b, i)
    PROVE  CandidateOK(D, N \cup out, n)
  <1> DEFINE M == N \cup out
             d == D[n]
  <1>0. /\ \A f \in Members : DiskOK(D[f])
        /\ AppendsOK(N) /\ Chain(N) /\ LogsSent(D, N) /\ AcksOK(D, N)
        /\ LaterLeaders(D, N) /\ AckedIsOnDisk(D, N)
    BY DEF LogInv
  <1>1. Appends(M) = Appends(N) /\ N \subseteq M /\ \A v \in M : v \in N \/ v \in out
    BY DEF Appends, MaySay
  <1>t. d.log \in Seq(Entry) /\ D[m].log \in Seq(Entry) /\ d.term \in Nat /\ D[m].term \in Nat
    BY <1>0 DEF DiskOK
  <1>2. ASSUME NEW f \in Voters(M, n, d.term), NEW b \in Appends(N), NEW i,
               Own(b, i), b.term < d.term, Holds(f, b.term, i, M)
        PROVE  Keeps(D, M, d.log, b, i)
    <2>0. b.term \in Nat
      BY <1>0 DEF AppendsOK, AppendOK
    <2>1. f \in Members /\ D[f].term \in Nat /\ d.term <= D[f].term
      <3>0. f \in Members /\ D[f].term \in Nat
        BY <1>0 DEF Voters, DiskOK
      <3>1. CASE f = n
        BY <1>t, <3>0, <3>1
      <3>2. CASE Ballot(f, n, d.term) \in M
        <4>1. Ballot(f, n, d.term) \in Said(M)
          BY <3>2 DEF Said, Ballot
        <4>2. Ballot(f, n, d.term).from = f /\ Ballot(f, n, d.term).term = d.term
          BY DEF Ballot
        <4> QED
          BY <3>0, <4>1, <4>2 DEF SaidInTerm
      <3> QED
        BY <3>1, <3>2 DEF Voters
    <2>2. Holds(f, b.term, i, N)
      <3>1. PICK k \in M : k.type = "ack" /\ k.from = f /\ k.term = b.term /\ k.match >= i
        BY <1>2 DEF Holds
      <3>2. k \in N
        <4> SUFFICES ASSUME k \in out PROVE FALSE
          BY <1>1, <3>1
        <4>1. k.from = m /\ k.term = D[m].term
          BY <3>1 DEF MaySay
        <4> QED
          BY <1>2, <1>t, <2>0, <2>1, <3>1, <4>1
      <3> QED
        BY <3>1, <3>2 DEF Holds
    <2>3. CASE f \in Voters(N, n, d.term)
      BY <1>1, <1>2, <2>2, <2>3 DEF CandidateOK
    <2>4. CASE f \notin Voters(N, n, d.term)
      <3>1. Ballot(f, n, d.term) \in out
        BY <1>2, <2>4 DEF Voters
      <3>2. /\ Ballot(f, n, d.term) = Ballot(m, D[m].vote, D[m].term)
            /\ \E q \in N : /\ q.type = "request" /\ q.from = Ballot(f, n, d.term).to
                            /\ q.term = Ballot(f, n, d.term).term /\ UpToDate(q, D[m].log)
        BY <3>1 DEF MaySay, Ballot
      <3>3. f = m /\ n = D[m].vote /\ d.term = D[m].term
        BY <3>2 DEF Ballot
      <3>4. PICK q \in N : /\ q.type = "request" /\ q.from = n /\ q.term = d.term
                           /\ UpToDate(q, D[m].log)
        BY <3>2 DEF Ballot
      <3>5. q.last = Len(d.log) /\ q.last_term = LastTerm(d.log)
        BY <3>4 DEF CandidateOK
      <3>6. Keeps(D, N, D[m].log, b, i)
        BY <1>0, <1>2, <2>2, <3>3 DEF AckedIsOnDisk
      <3>7. Sent(N, d.log) /\ Sent(N, D[m].log)
        BY <1>0 DEF LogsSent
      <3>8. Keeps(D, N, d.log, b, i)
        BY <1>0, <1>t, <1>2, <3>4, <3>5, <3>6, <3>7, UpToDateKeeps
      <3> QED
        BY <3>8
    <2> QED
      BY <2>3, <2>4
  <1>3. \A q \in M : q.type = "request" /\ q.from = n => q \in N
    BY <1>1 DEF MaySay
  <1>4. Unelectable(D, N, n, d.term) => Unelectable(D, M, n, d.term)
    <2> SUFFICES ASSUME NEW f \in Members, Ballot(f, n, d.term) \in out,
                        \/ D[f].term > d.term
                        \/ D[f].term = d.term /\ D[f].vote \notin {None, n}
                 PROVE  FALSE
      BY <1>1 DEF Unelectable
    <2>1. Ballot(f, n, d.term) = Ballot(m, D[m].vote, D[m].term)
      BY DEF MaySay, Ballot
    <2>2. f = m /\ n = D[m].vote /\ d.term = D[m].term
      BY <2>1 DEF Ballot
    <2> QED
      BY <1>t, <2>2
  <1>5. \A b \in Appends(M) : b.from = n => b.term < d.term
    BY <1>1 DEF CandidateOK
  <1>6. \E q \in M : q.type = "request" /\ q.from = n /\ q.term = d.term
    BY <1>1 DEF CandidateOK
  <1>7. \A q \in M : q.type = "request" /\ q.from = n /\ q.term = d.term =>
              q.last = Len(d.log) /\ q.last_term = LastTerm(d.log)
    BY <1>3 DEF CandidateOK
  <1>8. (\A i \in 1 .. Len(d.log) : d.log[i].term < d.term) \/ Unelectable(D, M, n, d.term)
    BY <1>4 DEF CandidateOK
  <1>9. \A f \in Voters(M, n, d.term) : \A b \in Appends(M) : \A i :
              Own(b, i) /\ b.term < d.term /\ Holds(f, b.term, i, M) => Keeps(D, M, d.log, b, i)
    BY <1>1, <1>2
  <1> HIDE DEF M
  <1> QED
    BY <1>5, <1>6, <1>7, <1>8, <1>9 DEF CandidateOK, M

(* All is still well when that is said.                                      *)
LEMMA SaysMore ==
    ASSUME NEW D, NEW N, NEW m \in Members, NEW C \in SUBSET (Members \ {m}),
           NEW L \in SUBSET (Members \ {m}), Good(D, N, C, L), NEW out, MaySay(D[m], N, m, out)
    PROVE  Good(D, N \cup out, C, L)
  <1> DEFINE M == N \cup out
  <1>0. /\ \A f \in Members : DiskOK(D[f])
        /\ AppendsOK(N) /\ Chain(N) /\ LogsSent(D, N) /\ AcksOK(D, N)
        /\ LaterLeaders(D, N) /\ AckedIsOnDisk(D, N) /\ CommitsOK(D, N)
        /\ SaidInTerm(D, N) /\ \A n \in C : CandidateOK(D, N, n)
        /\ \A n \in L : LeaderOK(D, N, n)
    BY DEF Good, LogInv
  <1>1. Appends(M) = Appends(N) /\ N \subseteq M /\ \A v \in M : v \in N \/ v \in out
    BY DEF Appends, MaySay
  <1>t. D[m].log \in Seq(Entry) /\ \A f \in Members : D[f].term \in Nat
    BY <1>0 DEF DiskOK
  <1>2. \A k \in Acks(M) : k \in N \/ (k \in out /\ k.from = m /\ k.term = D[m].term /\ k.match \in Nat)
    BY <1>1 DEF Acks, MaySay
  <1>3. Grows(D, N, D, M)
    <2> HIDE DEF M
    <2>1. \A f \in Members : D[f].term <= D[f].term
      BY <1>t
    <2>2. \A k \in Acks(M) : k \in N \/ k.term = D[k.from].term
      BY <1>2
    <2> QED
      BY <1>1, <1>t, <2>1, <2>2 DEF Grows
  <1>4. \A b \in Appends(N) : b.term \in Nat /\ b.log \in Seq(Entry)
    BY <1>0 DEF AppendsOK, AppendOK
  <1>5. \A b \in Appends(N) : \A l, i : Keeps(D, N, l, b, i) => Keeps(D, M, l, b, i)
    BY <1>3, <1>4, KeepsStays
  <1>6. AppendsOK(M)
    BY <1>0, <1>1, AppendOKStays DEF AppendsOK
  <1>7. Chain(M)
    BY <1>0, <1>1 DEF Chain
  <1>8. LogsSent(D, M)
    BY <1>0, <1>1, SentStays DEF LogsSent
  <1>9. AcksOK(D, M)
    <2> SUFFICES ASSUME NEW k \in Acks(M)
                 PROVE  /\ k.from \in Members /\ k.term \in Nat /\ k.match \in Nat
                        /\ k.term <= D[k.from].term
                        /\ \E a \in Appends(N) : a.term = k.term /\ k.match <= Len(a.log)
      BY <1>1 DEF AcksOK
    <2>1. CASE k \in N
      BY <1>0, <2>1 DEF AcksOK, Acks
    <2>2. CASE k \in out /\ k.from = m /\ k.term = D[m].term /\ k.match \in Nat
      <3>1. \E a \in Appends(N) : a.term = k.term /\ k.match <= Len(a.log)
        BY <2>2 DEF MaySay, Acks
      <3> QED
        BY <1>t, <2>2, <3>1
    <2> QED
      BY <1>2, <2>1, <2>2
  <1>10. LaterLeaders(D, M)
    BY <1>0, <1>1, <1>5 DEF LaterLeaders
  <1>11. AckedIsOnDisk(D, M)
    <2> SUFFICES ASSUME NEW f \in Members, NEW b \in Appends(N), NEW i, Own(b, i), Holds(f, b.term, i, M)
                 PROVE  Keeps(D, M, D[f].log, b, i)
      BY <1>1 DEF AckedIsOnDisk
    <2>1. PICK k \in M : k.type = "ack" /\ k.from = f /\ k.term = b.term /\ k.match >= i
      BY DEF Holds
    <2>2. CASE k \in N
      <3>1. Holds(f, b.term, i, N)
        BY <2>1, <2>2 DEF Holds
      <3> QED
        BY <1>0, <1>5, <3>1 DEF AckedIsOnDisk
    <2>3. CASE k \in out
      <3>1. PICK a \in Appends(N) : /\ a.term = k.term /\ k.match <= Len(a.log)
                                    /\ Shares(D[m].log, a.log, k.match)
        BY <2>1, <2>3 DEF MaySay
      <3>2. k.from = m /\ k.match \in Nat
        BY <2>1, <2>3 DEF MaySay
      <3>3. i \in Nat /\ i <= Len(b.log) /\ i <= Len(a.log) /\ i <= k.match
        BY <1>4, <2>1, <3>1, <3>2 DEF Own
      <3>4. Shares(a.log, b.log, i)
        BY <1>0, <2>1, <3>1, <3>3, OneTermShares
      <3>5. Shares(D[m].log, a.log, i)
        BY <1>4, <1>t, <3>1, <3>2, <3>3, SharesFacts
      <3>6. Shares(D[m].log, b.log, i)
        BY <3>3, <3>4, <3>5, SharesTrans
      <3> QED
        BY <2>1, <3>2, <3>6 DEF Keeps
    <2> QED
      BY <1>1, <2>2, <2>3
  <1>12. CommitsOK(D, M)
    BY <1>0, <1>1, CommittedStays DEF CommitsOK
  <1>13. SaidInTerm(D, M)
    <2> SUFFICES ASSUME NEW q \in Said(M)
                 PROVE  q.from \in Members /\ q.term \in Nat /\ q.term <= D[q.from].term
      BY DEF SaidInTerm
    <2>1. CASE q \in N
      BY <1>0, <2>1 DEF SaidInTerm, Said
    <2>2. CASE q \in out
      <3>1. q.type \in {"request", "vote"}
        BY DEF Said
      <3>2. q.from = m /\ q.term = D[m].term
        BY <2>2, <3>1 DEF MaySay, Ballot
      <3> QED
        BY <1>t, <3>2
    <2> QED
      BY <1>1, <2>1, <2>2 DEF Said
  <1>14. \A n \in C : CandidateOK(D, M, n)
    <2> SUFFICES ASSUME NEW n \in C PROVE CandidateOK(D, M, n)
      OBVIOUS
    <2>1. LogInv(D, N) /\ n \in Members /\ n # m /\ CandidateOK(D, N, n)
      BY <1>0 DEF Good
    <2> QED
      BY <1>5, <1>13, <2>1, SaysToCandidates
  <1>15. \A n \in L : LeaderOK(D, M, n)
    BY <1>0, <1>1 DEF LeaderOK
  <1> HIDE DEF M
  <1> QED
    BY <1>0, <1>6, <1>7, <1>8, <1>9, <1>10, <1>11, <1>12, <1>13, <1>14, <1>15 DEF Good, LogInv, M

(* The stages of a pass in which no snapshot was received: what is on disk   *)
(* with the log written, with the hard state, and with the commit index that *)
(* advance moves; what is sent by then; and the raw node that comes out.     *)
WithLog(m, r) ==
    IF r.stable < Len(r.log)
    THEN append(disk[m], r.stable + 1, SubSeq(r.log, r.stable + 1, Len(r.log)))
    ELSE disk[m]

WithState(m, r) == set_hard_state(WithLog(m, r), r)

Spoken(m, r, out) == SentUnpersisted(m, r, out) \cup persisted_messages(m, r, out)

Advanced(r) == [r EXCEPT !.stable = Len(r.log), !.restored = NoSnapshot]

Finished(m, r, out) ==
    [Advanced(r) EXCEPT !.commit = Committed(Advanced(r), Spoken(m, r, out))]

WithCommit(m, r, out) == set_hard_state(WithState(m, r), Finished(m, r, out))

AllSent(m, r, out) == Spoken(m, r, out) \cup bcast_append(m, Finished(m, r, out))

On(m, d) == [disk EXCEPT ![m] = d]

RawOK(r) ==
    /\ r.log \in Seq(Entry) /\ r.term \in Nat /\ r.commit \in Nat
    /\ r.stable \in 0 .. Len(r.log) /\ r.applied \in 0 .. r.stable /\ r.applied <= r.commit
    /\ r.restored = NoSnapshot
    /\ {"role", "term", "vote", "log", "stable", "commit", "restored", "applied"} \subseteq DOMAIN r

(* What raft has made of member m, and what it has it say.                   *)
Proper(m, r, out) ==
    /\ RawOK(r)
    /\ disk[m].term <= r.term
    /\ r.term = disk[m].term => disk[m].vote \in {None, r.vote}
    /\ disk[m].commit <= r.commit
    /\ Shares(disk[m].log, r.log, r.stable)
    /\ r.stable = Len(r.log) => disk[m].log = r.log
    /\ LET N == SentUnpersisted(m, r, out)
       IN  /\ Sent(N, r.log)
           /\ IsCommitted(N, r.log, r.commit)
           /\ \A b \in Appends(N) : \A i :
                 Own(b, i) /\ Holds(m, b.term, i, N) => Keeps(disk, N, r.log, b, i)
           /\ MaySay(r, N, m, out)

(* A disk has these fields, whatever they hold.                              *)
HasLog(d) == {"log", "snap", "term", "vote", "commit"} \subseteq DOMAIN d

(* A leader commits what it had, or an entry of its term on a quorum.        *)
LEMMA CommittedIs ==
    ASSUME NEW r, r.log \in Seq(Entry), r.commit \in Nat, NEW N
    PROVE  LET c == Committed(r, N)
           IN  /\ c \in Nat /\ r.commit <= c
               /\ \/ c = r.commit
                  \/ /\ r.role = "leader" /\ c \in 1 .. Len(r.log) /\ r.log[c].term = r.term
                     /\ Quorum(Holders(r.term, c, N))
  <1> DEFINE S == {n \in r.commit + 1 .. Len(r.log) :
                     /\ r.role = "leader" /\ r.log[n].term = r.term
                     /\ Quorum(Holders(r.term, n, N))}
             T == {r.commit} \cup S
  <1>1. T \subseteq Nat /\ T # {} /\ r.commit \in T
    OBVIOUS
  <1>2. PICK h \in Nat : \A y \in T : y <= h
    <2>1. CASE r.commit <= Len(r.log)
      BY <2>1
    <2>2. CASE ~(r.commit <= Len(r.log))
      BY <2>2
    <2> QED
      BY <2>1, <2>2
  <1>3. Max(T) \in T /\ \A y \in T : Max(T) >= y
    <2> HIDE DEF T
    <2> QED
      BY <1>1, <1>2, MaxIsGreatest
  <1>4. Committed(r, N) = Max(T)
    BY DEF Committed, Holders
  <1>5. \A n \in S : /\ r.role = "leader" /\ n \in 1 .. Len(r.log) /\ r.log[n].term = r.term
                     /\ Quorum(Holders(r.term, n, N))
    OBVIOUS
  <1>6. Max(T) = r.commit \/ Max(T) \in S
    BY <1>3
  <1> HIDE DEF S, T
  <1> QED
    BY <1>1, <1>3, <1>4, <1>5, <1>6

(* A beginning of one sequence, continued with the rest of another that      *)
(* shares it.                                                                *)
LEMMA Continued ==
    ASSUME NEW l \in Seq(Entry), NEW k \in Seq(Entry), NEW n \in 0 .. Len(k), Shares(l, k, n)
    PROVE  SubSeq(l, 1, n) \o SubSeq(k, n + 1, Len(k)) = k
  <1> DEFINE a == SubSeq(l, 1, n)
             b == SubSeq(k, n + 1, Len(k))
  <1>0. Len(k) \in Nat /\ n \in Nat
    OBVIOUS
  <1>1. n <= Len(l) /\ \A i \in 1 .. n : l[i] = k[i]
    BY DEF Shares
  <1>2. a \in Seq(Entry) /\ Len(a) = n /\ \A i \in 1 .. n : a[i] = k[i]
    BY <1>1
  <1>3. b \in Seq(Entry) /\ Len(b) = Len(k) - n /\ \A i \in 1 .. Len(k) - n : b[i] = k[n + i]
    OBVIOUS
  <1> HIDE DEF a, b
  <1>4. a \o b \in Seq(Entry) /\ Len(a \o b) = Len(k)
    <2>1. a \o b \in Seq(Entry) /\ Len(a \o b) = Len(a) + Len(b)
      BY <1>2, <1>3, ConcatProperties
    <2> QED
      BY <1>0, <1>2, <1>3, <2>1
  <1>5. \A i \in 1 .. Len(k) : (a \o b)[i] = k[i]
    <2> SUFFICES ASSUME NEW i \in 1 .. Len(k) PROVE (a \o b)[i] = k[i]
      OBVIOUS
    <2>0. (a \o b)[i] = IF i <= n THEN a[i] ELSE b[i - n]
      <3>1. \A j \in 1 .. Len(a) + Len(b) : (a \o b)[j] = IF j <= Len(a) THEN a[j] ELSE b[j - Len(a)]
        BY <1>2, <1>3, ConcatProperties
      <3>2. Len(a) = n /\ Len(a) + Len(b) = Len(k)
        BY <1>0, <1>2, <1>3
      <3> QED
        BY <3>1, <3>2
    <2>1. CASE i <= n
      BY <1>0, <1>2, <2>0, <2>1
    <2>2. CASE ~(i <= n)
      <3>1. i - n \in 1 .. Len(k) - n /\ n + (i - n) = i
        BY <1>0, <2>2
      <3> QED
        BY <1>3, <2>0, <2>2, <3>1
    <2> QED
      BY <2>1, <2>2
  <1>6. a \o b = k
    BY <1>4, <1>5, SeqEqual
  <1> QED
    BY <1>6 DEF a, b

(* What each stage has on disk.                                              *)
LEMMA StagesWrite ==
    ASSUME NEW m \in Members, NEW r, RawOK(r), NEW out, HasLog(disk[m]), DiskOK(disk[m]),
           Shares(disk[m].log, r.log, r.stable), r.stable = Len(r.log) => disk[m].log = r.log
    PROVE  /\ LET d == WithLog(m, r)
              IN  /\ d.log = r.log /\ d.snap = disk[m].snap /\ d.term = disk[m].term
                  /\ d.vote = disk[m].vote /\ d.commit = disk[m].commit /\ HasLog(d) /\ DiskOK(d)
           /\ LET d == WithState(m, r)
              IN  /\ d.log = r.log /\ d.snap = disk[m].snap /\ d.term = r.term
                  /\ d.vote = r.vote /\ d.commit = r.commit /\ HasLog(d) /\ DiskOK(d)
           /\ LET d == WithCommit(m, r, out)
              IN  /\ d.log = r.log /\ d.snap = disk[m].snap /\ d.term = r.term
                  /\ d.vote = r.vote /\ d.commit = Finished(m, r, out).commit
                  /\ HasLog(d) /\ DiskOK(d)
           /\ LET q == Finished(m, r, out)
              IN  /\ q.log = r.log /\ q.term = r.term /\ q.vote = r.vote /\ q.role = r.role
                  /\ q.stable = Len(r.log) /\ q.restored = NoSnapshot /\ q.applied = r.applied
                  /\ q.commit \in Nat /\ r.commit <= q.commit
                  /\ {"role", "term", "vote", "log", "stable", "commit", "restored", "applied"} \subseteq DOMAIN q
                  /\ \/ q.commit = r.commit
                     \/ /\ r.role = "leader" /\ q.commit \in 1 .. Len(r.log)
                        /\ r.log[q.commit].term = r.term
                        /\ Quorum(Holders(r.term, q.commit, Spoken(m, r, out)))
  <1>1. /\ WithLog(m, r).log = r.log /\ WithLog(m, r).snap = disk[m].snap
        /\ WithLog(m, r).term = disk[m].term /\ WithLog(m, r).vote = disk[m].vote
        /\ WithLog(m, r).commit = disk[m].commit /\ HasLog(WithLog(m, r))
    <2>1. CASE r.stable < Len(r.log)
      <3>1. SubSeq(disk[m].log, 1, r.stable) \o SubSeq(r.log, r.stable + 1, Len(r.log)) = r.log
        BY Continued DEF RawOK, DiskOK
      <3>2. (r.stable + 1) - 1 = r.stable
        BY DEF RawOK
      <3> DEFINE e == SubSeq(r.log, r.stable + 1, Len(r.log))
      <3>3. WithLog(m, r) = append(disk[m], r.stable + 1, e)
        BY <2>1 DEF WithLog
      <3> HIDE DEF e
      <3>4. append(disk[m], r.stable + 1, e) = [disk[m] EXCEPT !.log = SubSeq(disk[m].log, 1, r.stable) \o e]
        <4> DEFINE h == (r.stable + 1) - 1
        <4>1. append(disk[m], r.stable + 1, e) = [disk[m] EXCEPT !.log = SubSeq(disk[m].log, 1, h) \o e]
          BY DEF append
        <4> HIDE DEF h
        <4>2. h = r.stable
          BY <3>2 DEF h
        <4> QED
          BY <4>1, <4>2
      <3> QED
        BY <3>1, <3>3, <3>4 DEF HasLog, e
    <2>2. CASE ~(r.stable < Len(r.log))
      <3>1. r.stable = Len(r.log)
        BY <2>2 DEF RawOK
      <3> QED
        BY <2>2, <3>1 DEF WithLog
    <2> QED
      BY <2>1, <2>2
  <1>2. DiskOK(WithLog(m, r))
    BY <1>1 DEF DiskOK, RawOK
  <1>3. LET d == WithState(m, r)
        IN  /\ d.log = r.log /\ d.snap = disk[m].snap /\ d.term = r.term
            /\ d.vote = r.vote /\ d.commit = r.commit /\ HasLog(d)
    BY <1>1 DEF WithState, set_hard_state, HasLog
  <1>4. DiskOK(WithState(m, r))
    BY <1>3 DEF DiskOK, RawOK
  <1>5. LET q == Advanced(r)
        IN  /\ q.log = r.log /\ q.term = r.term /\ q.vote = r.vote /\ q.role = r.role
            /\ q.stable = Len(r.log) /\ q.restored = NoSnapshot /\ q.applied = r.applied
            /\ q.commit = r.commit /\ DOMAIN q = DOMAIN r
    BY DEF Advanced, RawOK
  <1> DEFINE c == Committed(Advanced(r), Spoken(m, r, out))
  <1>6. /\ c \in Nat /\ r.commit <= c
        /\ \/ c = r.commit
           \/ /\ r.role = "leader" /\ c \in 1 .. Len(r.log) /\ r.log[c].term = r.term
              /\ Quorum(Holders(r.term, c, Spoken(m, r, out)))
    <2>1. Advanced(r).log \in Seq(Entry) /\ Advanced(r).commit \in Nat
      BY <1>5 DEF RawOK
    <2> QED
      BY <1>5, <2>1, CommittedIs
  <1>7. Finished(m, r, out) = [Advanced(r) EXCEPT !.commit = c]
    BY DEF Finished
  <1> HIDE DEF c
  <1>8. LET q == Finished(m, r, out)
        IN  /\ q.log = r.log /\ q.term = r.term /\ q.vote = r.vote /\ q.role = r.role
            /\ q.stable = Len(r.log) /\ q.restored = NoSnapshot /\ q.applied = r.applied
            /\ q.commit = c
            /\ {"role", "term", "vote", "log", "stable", "commit", "restored", "applied"} \subseteq DOMAIN q
    BY <1>5, <1>7 DEF RawOK
  <1>9. LET d == WithCommit(m, r, out)
        IN  /\ d.log = r.log /\ d.snap = disk[m].snap /\ d.term = r.term
            /\ d.vote = r.vote /\ d.commit = c /\ HasLog(d)
    BY <1>3, <1>8 DEF WithCommit, set_hard_state, HasLog
  <1>10. DiskOK(WithCommit(m, r, out))
    BY <1>6, <1>9 DEF DiskOK, RawOK
  <1> QED
    BY <1>1, <1>2, <1>3, <1>4, <1>6, <1>8, <1>9, <1>10

(* Good wherever a pass may stop.                                            *)
LEMMA StagesAreGood ==
    ASSUME NEW m \in Members, NEW r, NEW out, Proper(m, r, out), HasLog(disk[m]),
           DOMAIN disk = Members, NEW C \in SUBSET (Members \ {m}), NEW L \in SUBSET (Members \ {m}),
           Good(disk, SentUnpersisted(m, r, out), C, L)
    PROVE  /\ Good(On(m, WithLog(m, r)), SentUnpersisted(m, r, out), C, L)
           /\ Good(On(m, WithState(m, r)), SentUnpersisted(m, r, out), C, L)
           /\ Good(On(m, WithState(m, r)), Spoken(m, r, out), C, L)
           /\ Good(On(m, WithCommit(m, r, out)), AllSent(m, r, out), C, L)
           /\ IsCommitted(SentUnpersisted(m, r, out), r.log, r.commit)
           /\ IsCommitted(AllSent(m, r, out), r.log, Finished(m, r, out).commit)
  <1> DEFINE N1 == SentUnpersisted(m, r, out)
             N2 == Spoken(m, r, out)
             q == Finished(m, r, out)
             d2 == WithLog(m, r)
             d3 == WithState(m, r)
             d4 == WithCommit(m, r, out)
  <1>0. /\ RawOK(r) /\ DiskOK(disk[m])
        /\ AppendsOK(N1)
    BY DEF Proper, Good, LogInv
  <1>a. Shares(disk[m].log, r.log, r.stable) /\ (r.stable = Len(r.log) => disk[m].log = r.log)
    BY DEF Proper
  <1>1. /\ d2.log = r.log /\ d2.snap = disk[m].snap /\ d2.term = disk[m].term
        /\ d2.vote = disk[m].vote /\ d2.commit = disk[m].commit /\ HasLog(d2) /\ DiskOK(d2)
        /\ d3.log = r.log /\ d3.snap = disk[m].snap /\ d3.term = r.term
        /\ d3.vote = r.vote /\ d3.commit = r.commit /\ HasLog(d3) /\ DiskOK(d3)
        /\ d4.log = r.log /\ d4.snap = disk[m].snap /\ d4.term = r.term
        /\ d4.vote = r.vote /\ d4.commit = q.commit /\ HasLog(d4) /\ DiskOK(d4)
    BY <1>0, <1>a, StagesWrite
  <1>2. /\ q.log = r.log /\ q.term = r.term /\ q.role = r.role
        /\ q.commit \in Nat /\ r.commit <= q.commit
        /\ \/ q.commit = r.commit
           \/ /\ r.role = "leader" /\ q.commit \in 1 .. Len(r.log)
              /\ r.log[q.commit].term = r.term
              /\ Quorum(Holders(r.term, q.commit, N2))
    BY <1>0, <1>a, StagesWrite
  <1>3. \A d : On(m, d)[m] = d /\ \A f \in Members \ {m} : On(m, d)[f] = disk[f]
    BY DEF On
  <1>4. /\ r.log \in Seq(Entry) /\ r.term \in Nat /\ r.commit \in Nat /\ Len(r.log) \in Nat
        /\ disk[m].term \in Nat /\ disk[m].commit \in Nat /\ disk[m].snap \in Nat
    BY <1>0 DEF RawOK, DiskOK
  <1>5. /\ disk[m].term <= r.term /\ disk[m].commit <= r.commit
        /\ r.term = disk[m].term => disk[m].vote \in {None, r.vote}
        /\ Sent(N1, r.log) /\ IsCommitted(N1, r.log, r.commit)
        /\ \A b \in Appends(N1) : \A i :
                 Own(b, i) /\ Holds(m, b.term, i, N1) => Keeps(disk, N1, r.log, b, i)
        /\ MaySay(r, N1, m, out)
    BY DEF Proper
  <1>6. r.role = "leader" => \E a \in Appends(N1) : a.from = m /\ a.term = r.term /\ a.log = r.log
    <2> SUFFICES ASSUME r.role = "leader"
                 PROVE  \E a \in Appends(N1) : a.from = m /\ a.term = r.term /\ a.log = r.log
      OBVIOUS
    <2> DEFINE a == [type |-> "append", from |-> m, term |-> r.term, log |-> r.log,
                     commit |-> r.commit, snap |-> disk[m].snap]
    <2>1. a \in N1
      BY DEF SentUnpersisted, bcast_append
    <2>2. a.type = "append" /\ a.from = m /\ a.term = r.term /\ a.log = r.log
      OBVIOUS
    <2> QED
      BY <2>1, <2>2 DEF Appends
  <1>m. MaySay(d3, N1, m, persisted_messages(m, r, out))
    <2> DEFINE k == Ack(m, r.term, Len(r.log))
    <2>1. MaySay(d3, N1, m, out)
      BY <1>1, <1>5 DEF MaySay
    <2>2. k.type = "ack" /\ k.from = m /\ k.term = r.term /\ k.match = Len(r.log)
      BY DEF Ack
    <2>3. Shares(r.log, r.log, Len(r.log))
      BY <1>4, SharesFacts
    <2>4. r.role = "leader" =>
            \E a \in Appends(N1) : /\ a.term = k.term /\ k.match <= Len(a.log)
                                   /\ Shares(d3.log, a.log, k.match)
      BY <1>1, <1>4, <1>6, <2>2, <2>3
    <2> HIDE DEF k
    <2>5. persisted_messages(m, r, out) = out \cup (IF r.role = "leader" THEN {k} ELSE {})
      BY DEF persisted_messages, k
    <2> QED
      BY <1>1, <1>4, <2>1, <2>2, <2>4, <2>5 DEF MaySay
  <1>c. IsCommitted(N1, r.log, disk[m].commit)
    <2>1. r.commit <= Len(r.log)
      BY <1>4, <1>5, CommittedIsThere
    <2>2. Shares(r.log, r.log, disk[m].commit)
      BY <1>4, <1>5, <2>1, SharesFacts
    <2> QED
      BY <1>0, <1>4, <1>5, <2>2, CommittedShared
  <1>n. N1 \subseteq N2 /\ N2 = N1 \cup persisted_messages(m, r, out)
        /\ AllSent(m, r, out) = N2 \cup bcast_append(m, q)
    BY DEF Spoken, AllSent
  <1> HIDE DEF N1, N2, q, d2, d3, d4
  <1>7. Good(On(m, d2), N1, C, L)
    <2> DEFINE E == On(m, d2)
    <2>1. E[m] = d2 /\ \A f \in Members \ {m} : E[f] = disk[f]
      BY <1>3
    <2> HIDE DEF E
    <2>2. Writes(disk, E, m)
      BY <1>1, <1>4, <2>1 DEF Writes
    <2>3. Good(E, N1, C, L)
      BY <1>1, <1>5, <1>c, <2>1, <2>2, WritesDisk DEF N1
    <2> QED
      BY <2>3 DEF E
  <1>8. Good(On(m, d3), N1, C, L)
    <2> DEFINE E == On(m, d3)
    <2>1. E[m] = d3 /\ \A f \in Members \ {m} : E[f] = disk[f]
      BY <1>3
    <2> HIDE DEF E
    <2>2. Writes(disk, E, m)
      BY <1>1, <1>4, <1>5, <2>1 DEF Writes
    <2>3. Good(E, N1, C, L)
      BY <1>1, <1>5, <2>1, <2>2, WritesDisk DEF N1
    <2> QED
      BY <2>3 DEF E
  <1>9. Good(On(m, d3), N2, C, L)
    <2> DEFINE E == On(m, d3)
    <2>1. E[m] = d3
      BY <1>3
    <2> HIDE DEF E
    <2>2. Good(E, N1, C, L)
      BY <1>8 DEF E
    <2>3. Good(E, N2, C, L)
      BY <1>m, <1>n, <2>1, <2>2, SaysMore
    <2> QED
      BY <2>3 DEF E
  <1>10. IsCommitted(N2, r.log, q.commit)
    <2>1. CASE q.commit = r.commit
      BY <1>5, <1>n, <2>1, CommittedStays
    <2>2. CASE /\ r.role = "leader" /\ q.commit \in 1 .. Len(r.log)
               /\ r.log[q.commit].term = r.term
               /\ Quorum(Holders(r.term, q.commit, N2))
      <3>1. PICK a \in Appends(N1) : a.from = m /\ a.term = r.term /\ a.log = r.log
        BY <1>6, <2>2
      <3>2. a \in Appends(N2)
        BY <1>n DEF Appends
      <3>3. Chosen(N2, a, q.commit)
        BY <2>2, <3>1 DEF Chosen, Own
      <3>4. q.commit \in Nat /\ q.commit <= Len(r.log)
        BY <2>2
      <3>5. Shares(r.log, a.log, q.commit) /\ q.commit <= q.commit
        BY <1>4, <3>1, <3>4, SharesFacts
      <3> QED
        BY <3>2, <3>3, <3>5 DEF IsCommitted
    <2> QED
      BY <1>2, <2>1, <2>2
  <1>11. Good(On(m, d4), N2, C, L)
    <2> DEFINE D == On(m, d3)
               E == On(m, d4)
    <2>1. E[m] = d4 /\ D[m] = d3 /\ \A f \in Members \ {m} : E[f] = disk[f] /\ D[f] = disk[f]
      BY <1>3
    <2>0. Good(D, N2, C, L)
      BY <1>9
    <2> HIDE DEF D, E
    <2>2. Writes(D, E, m)
      BY <1>1, <1>4, <2>1 DEF Writes
    <2>3. Sent(N2, E[m].log)
      BY <1>1, <1>5, <1>n, <2>1, SentStays
    <2>4. \A b \in Appends(N2) : \A i :
             Own(b, i) /\ Holds(m, b.term, i, N2) => Keeps(D, N2, E[m].log, b, i)
      <3>1. AckedIsOnDisk(D, N2)
        BY <2>0 DEF Good, LogInv
      <3> QED
        BY <1>1, <2>1, <3>1 DEF AckedIsOnDisk
    <2>5. IsCommitted(N2, E[m].log, E[m].commit)
      BY <1>1, <1>10, <2>1
    <2>6. Good(E, N2, C, L)
      BY <2>0, <2>2, <2>3, <2>4, <2>5, WritesDisk
    <2> QED
      BY <2>6 DEF E
  <1>12. Good(On(m, d4), AllSent(m, r, out), C, L)
    <2>1. CASE r.role # "leader"
      <3>1. AllSent(m, r, out) = N2
        BY <1>2, <1>n, <2>1 DEF bcast_append
      <3> QED
        BY <1>11, <3>1
    <2>2. CASE r.role = "leader"
      <3> DEFINE a == [type |-> "append", from |-> m, term |-> q.term, log |-> q.log,
                       commit |-> q.commit, snap |-> disk[m].snap]
                 E == On(m, d4)
      <3>1. AllSent(m, r, out) = N2 \cup {a}
        BY <1>2, <1>n, <2>2 DEF bcast_append
      <3>2. /\ a.type = "append" /\ a.from = m /\ a.term = r.term /\ a.log = r.log
            /\ a.commit = q.commit /\ a.snap = disk[m].snap
        BY <1>2
      <3>3. Good(E, N2, C, L)
        BY <1>11
      <3> HIDE DEF a, E
      <3>4. PICK b \in Appends(N1) : b.from = m /\ b.term = r.term /\ b.log = r.log
        BY <1>6, <2>2
      <3>5. b \in Appends(N2)
        BY <1>n DEF Appends
      <3>6. /\ C \in SUBSET Members /\ L \in SUBSET Members /\ a.from \notin C \cup L
            /\ a.snap \in Nat /\ a.commit \in Nat /\ IsCommitted(N2, a.log, a.commit)
            /\ b.from = a.from /\ b.term = a.term /\ b.log = a.log
        BY <1>2, <1>4, <1>10, <3>2, <3>4
      <3>7. Good(E, N2 \cup {a}, C, L)
        BY <3>2, <3>3, <3>5, <3>6, SendsAgain
      <3> QED
        BY <3>1, <3>7 DEF E
    <2> QED
      BY <2>1, <2>2
  <1>13. IsCommitted(AllSent(m, r, out), r.log, q.commit)
    <2>1. N2 \subseteq AllSent(m, r, out)
      BY <1>n
    <2> QED
      BY <1>10, <2>1, CommittedStays
  <1> QED
    BY <1>5, <1>7, <1>8, <1>9, <1>12, <1>13 DEF N1, N2, q, d2, d3, d4

(* A member whose disk is written as it was.                                 *)
LEMMA UnwrittenIsGood ==
    ASSUME NEW m \in Members, DOMAIN disk = Members, NEW N,
           NEW C \in SUBSET (Members \ {m}), NEW L \in SUBSET (Members \ {m}), Good(disk, N, C, L)
    PROVE  Good(On(m, disk[m]), N, C, L)
  <1> DEFINE E == On(m, disk[m])
  <1>1. E[m] = disk[m] /\ \A f \in Members : E[f] = disk[f]
    BY DEF On
  <1> HIDE DEF E
  <1>2. DiskOK(disk[m]) /\ LogsSent(disk, N) /\ AckedIsOnDisk(disk, N) /\ CommitsOK(disk, N)
    BY DEF Good, LogInv
  <1>3. Writes(disk, E, m)
    BY <1>1, <1>2 DEF Writes, DiskOK
  <1>4. /\ Sent(N, E[m].log) /\ IsCommitted(N, E[m].log, E[m].commit)
        /\ \A b \in Appends(N) : \A i :
              Own(b, i) /\ Holds(m, b.term, i, N) => Keeps(disk, N, E[m].log, b, i)
    BY <1>1, <1>2 DEF LogsSent, AckedIsOnDisk, CommitsOK
  <1>5. Good(E, N, C, L)
    BY <1>3, <1>4, WritesDisk
  <1> QED
    BY <1>5 DEF E

IsSeq(cs) == \E S : cs \in Seq(S)

CallOK(call) == {"at", "id", "queued", "result", "got"} \subseteq DOMAIN call /\ call.id \in Nat

CallsOK(cs) == IsSeq(cs) /\ \A c \in DOMAIN cs : CallOK(cs[c])

(* What has the domain of a sequence is one.                                 *)
LEMMA SeqOfDomain ==
    ASSUME NEW cs, IsSeq(cs), NEW ds, ds = [c \in DOMAIN cs |-> ds[c]]
    PROVE  IsSeq(ds)
  <1>1. PICK S : cs \in Seq(S)
    BY DEF IsSeq
  <1> DEFINE T == {ds[c] : c \in DOMAIN cs}
  <1>2. DOMAIN cs = 1 .. Len(cs) /\ Len(cs) \in Nat
    BY <1>1
  <1>3. ds \in [1 .. Len(cs) -> T]
    BY <1>2
  <1>4. ds \in Seq(T)
    BY <1>2, <1>3, SeqDef
  <1> QED
    BY <1>4 DEF IsSeq

(* Of the calls cs, those now told Ok are told of an entry applied.          *)
TellsOnly(cs, ds, log, i, k) ==
    /\ DOMAIN ds = DOMAIN cs
    /\ CallsOK(ds)
    /\ \A c \in DOMAIN ds :
          /\ ds[c].queued => cs[c].queued
          /\ ds[c].result = "ok" =>
                \/ cs[c].result = "ok" /\ ds[c].got = cs[c].got
                \/ \E j \in i + 1 .. k : ds[c].got = log[j].cmd

(* complete tells its own waiters only, of entries it was given.             *)
LEMMA Completes ==
    ASSUME NEW m, NEW cs, CallsOK(cs), NEW log \in Seq(Entry), NEW i \in Nat, NEW k \in Nat,
           i <= k, k <= Len(log)
    PROVE  TellsOnly(cs, complete(m, cs, SubSeq(log, i + 1, k)), log, i, k)
  <1> DEFINE e == SubSeq(log, i + 1, k)
             mine(c) == {h \in DOMAIN e : e[h].id = cs[c].id}
             ds == complete(m, cs, e)
  <1>1. DOMAIN e = 1 .. k - i /\ \A h \in 1 .. k - i : e[h] = log[i + h]
    OBVIOUS
  <1> HIDE DEF e
  <1>2. DOMAIN ds = DOMAIN cs /\ ds = [c \in DOMAIN cs |-> ds[c]]
    BY DEF complete
  <1>3. ASSUME NEW c \in DOMAIN cs
        PROVE  ds[c] = IF WaitsAt(cs[c], m) /\ mine(c) # {}
                       THEN [cs[c] EXCEPT !.result = "ok", !.got = e[Min(mine(c))].cmd]
                       ELSE cs[c]
    BY <1>3 DEF complete
  <1> HIDE DEF ds
  <1>4. ASSUME NEW c \in DOMAIN cs, mine(c) # {}
        PROVE  \E j \in i + 1 .. k : e[Min(mine(c))] = log[j]
    <2> DEFINE S == mine(c)
    <2>1. S \subseteq Nat /\ S # {} /\ S \subseteq 1 .. k - i
      BY <1>1, <1>4
    <2> HIDE DEF S
    <2>2. PICK x \in S : \A y \in S : x <= y
      BY <2>1, LeastExists
    <2>3. Min(S) \in S
      BY <2>2 DEF Min
    <2>4. Min(S) \in 1 .. k - i /\ i + Min(S) \in i + 1 .. k
      <3>1. \A y \in 1 .. k - i : i + y \in i + 1 .. k
        OBVIOUS
      <3> QED
        BY <2>1, <2>3, <3>1
    <2> QED
      BY <1>1, <2>4 DEF S
  <1>5. ASSUME NEW c \in DOMAIN cs
        PROVE  /\ CallOK(ds[c])
               /\ ds[c].queued => cs[c].queued
               /\ ds[c].result = "ok" =>
                     \/ cs[c].result = "ok" /\ ds[c].got = cs[c].got
                     \/ \E j \in i + 1 .. k : ds[c].got = log[j].cmd
    <2>1. CallOK(cs[c])
      BY DEF CallsOK
    <2>2. CASE WaitsAt(cs[c], m) /\ mine(c) # {}
      <3> DEFINE g == e[Min(mine(c))].cmd
      <3>1. ds[c] = [cs[c] EXCEPT !.result = "ok", !.got = g]
        BY <1>3, <2>2
      <3>2. \E j \in i + 1 .. k : g = log[j].cmd
        BY <1>4, <2>2
      <3> HIDE DEF g
      <3>3. ds[c].got = g /\ ds[c].queued = cs[c].queued /\ CallOK(ds[c])
        BY <2>1, <3>1 DEF CallOK
      <3> QED
        BY <2>1, <3>2, <3>3
    <2>3. CASE ~(WaitsAt(cs[c], m) /\ mine(c) # {})
      BY <1>3, <2>1, <2>3
    <2> QED
      BY <2>2, <2>3
  <1>s. IsSeq(ds)
    BY <1>2, SeqOfDomain DEF CallsOK
  <1>6. TellsOnly(cs, ds, log, i, k)
    BY <1>2, <1>5, <1>s DEF TellsOnly, CallsOK
  <1> QED
    BY <1>6 DEF ds, e

(* Failing calls tells nobody that a write succeeded.                        *)
LEMMA FailsTellNobodyOk ==
    ASSUME NEW m, NEW cs, NEW log, NEW i, NEW k, NEW ds, TellsOnly(cs, ds, log, i, k),
           NEW reason, reason # "ok"
    PROVE  /\ TellsOnly(cs, fail_all(m, ds, reason), log, i, k)
           /\ TellsOnly(cs, Abandoned(m, ds), log, i, k)
  <1>1. ASSUME NEW why, why # "ok" PROVE TellsOnly(cs, fail_all(m, ds, why), log, i, k)
    <2> DEFINE es == fail_all(m, ds, why)
    <2>1. DOMAIN es = DOMAIN ds /\ DOMAIN ds = DOMAIN cs /\ es = [c \in DOMAIN ds |-> es[c]]
      BY DEF fail_all, TellsOnly
    <2>2. \A c \in DOMAIN ds : es[c] = IF WaitsAt(ds[c], m) THEN [ds[c] EXCEPT !.result = why] ELSE ds[c]
      BY DEF fail_all
    <2> HIDE DEF es
    <2>3. ASSUME NEW c \in DOMAIN ds
          PROVE  /\ CallOK(es[c])
                 /\ es[c].queued = ds[c].queued
                 /\ es[c].result = "ok" => ds[c].result = "ok" /\ es[c].got = ds[c].got
      <3>1. CallOK(ds[c])
        BY DEF TellsOnly, CallsOK
      <3>2. CASE WaitsAt(ds[c], m)
        <4>1. es[c] = [ds[c] EXCEPT !.result = why]
          BY <2>2, <3>2
        <4> QED
          BY <1>1, <3>1, <4>1 DEF CallOK
      <3>3. CASE ~WaitsAt(ds[c], m)
        BY <2>2, <3>1, <3>3
      <3> QED
        BY <3>2, <3>3
    <2>s. IsSeq(es)
      BY <2>1, SeqOfDomain DEF TellsOnly, CallsOK
    <2>4. TellsOnly(cs, es, log, i, k)
      BY <2>1, <2>3, <2>s DEF TellsOnly, CallsOK
    <2> QED
      BY <2>4 DEF es
  <1>2. TellsOnly(cs, Abandoned(m, ds), log, i, k)
    <2> DEFINE fs == fail_all(m, ds, "unknown")
               es == Abandoned(m, ds)
    <2>1. TellsOnly(cs, fs, log, i, k) /\ DOMAIN fs = DOMAIN ds
      BY <1>1 DEF TellsOnly
    <2>2. /\ DOMAIN es = DOMAIN ds /\ es = [c \in DOMAIN ds |-> es[c]]
          /\ \A c \in DOMAIN ds : es[c] = IF ds[c].at = m THEN [fs[c] EXCEPT !.queued = FALSE] ELSE ds[c]
      BY DEF Abandoned
    <2> HIDE DEF es, fs
    <2>3. ASSUME NEW c \in DOMAIN ds
          PROVE  /\ CallOK(es[c])
                 /\ es[c].queued => ds[c].queued
                 /\ es[c].result = "ok" => \/ ds[c].result = "ok" /\ es[c].got = ds[c].got
                                           \/ fs[c].result = "ok" /\ es[c].got = fs[c].got
      <3>1. CallOK(ds[c]) /\ CallOK(fs[c])
        BY <2>1 DEF TellsOnly, CallsOK
      <3>2. CASE ds[c].at = m
        <4>1. es[c] = [fs[c] EXCEPT !.queued = FALSE]
          BY <2>2, <3>2
        <4> QED
          BY <3>1, <4>1 DEF CallOK
      <3>3. CASE ds[c].at # m
        BY <2>2, <3>1, <3>3
      <3> QED
        BY <3>2, <3>3
    <2>s. IsSeq(es)
      BY <2>2, SeqOfDomain DEF TellsOnly, CallsOK
    <2>4. TellsOnly(cs, es, log, i, k)
      BY <2>1, <2>2, <2>3, <2>s DEF TellsOnly, CallsOK
    <2> QED
      BY <2>4 DEF es
  <1> QED
    BY <1>1, <1>2

(* Where applying stops.                                                     *)
LEMMA StopsAtIs ==
    ASSUME NEW log, NEW i \in Nat, NEW j \in Nat, i <= j
    PROVE  LET k == StopsAt(log, i, j)
           IN  k \in i + 1 .. j + 1 /\ \A h \in i + 1 .. k - 1 : log[h].cmd \notin Refuses
  <1> DEFINE S == {j + 1} \cup {k \in i + 1 .. j : log[k].cmd \in Refuses}
  <1>1. S \subseteq Nat /\ S # {} /\ S \subseteq i + 1 .. j + 1
        /\ \A h \in i + 1 .. j : log[h].cmd \in Refuses => h \in S
    OBVIOUS
  <1>2. StopsAt(log, i, j) = Min(S)
    BY DEF StopsAt
  <1> HIDE DEF S
  <1>3. PICK x \in S : \A y \in S : x <= y
    BY <1>1, LeastExists
  <1>4. Min(S) \in S /\ \A y \in S : Min(S) <= y
    BY <1>3 DEF Min
  <1> DEFINE k == Min(S)
  <1>5. k \in i + 1 .. j + 1
    BY <1>1, <1>4
  <1>6. \A h \in i + 1 .. k - 1 : h \in i + 1 .. j /\ ~(k <= h)
    <2> HIDE DEF k
    <2> QED
      BY <1>5
  <1>7. \A h \in i + 1 .. k - 1 : log[h].cmd \notin Refuses
    BY <1>1, <1>4, <1>6
  <1> QED
    BY <1>2, <1>5, <1>7

(* With nothing refused, applying adds every command.                        *)
LEMMA AppliesAll ==
    ASSUME NEW s, NEW log, NEW i \in Nat, NEW j \in Nat,
           \A h \in i + 1 .. j : log[h].cmd \notin Refuses
    PROVE  ApplyTo(s, log, i, j) = s \cup Commands(log, i, j)
  BY DEF ApplyTo, Commands

(* The commands of two adjoining parts of a log.                             *)
LEMMA CommandsJoin ==
    ASSUME NEW log, NEW i \in Nat, NEW j \in Nat, NEW k \in Nat, i <= j, j <= k
    PROVE  Commands(log, i, k) = Commands(log, i, j) \cup Commands(log, j, k)
  BY DEF Commands

(* The variables are functions of the members.                               *)
Functions ==
    /\ DOMAIN disk = Members /\ DOMAIN raw = Members /\ DOMAIN status = Members
    /\ DOMAIN store = Members /\ DOMAIN cached = Members

(* What a pass of member m leaves behind, k being the last entry applied: it *)
(* is over, or the process died at one of the stages.                        *)
StoppedAt(m, r, out, d, sent, k) ==
    /\ disk' = On(m, d) /\ net' = sent
    /\ k <= r.commit /\ k <= r.stable
    /\ ~Up(m)'

CameThrough(m, r, out, k) ==
    /\ disk' = On(m, WithCommit(m, r, out)) /\ net' = AllSent(m, r, out)
    /\ k <= Finished(m, r, out).commit
    /\ Up(m)' => /\ k = Finished(m, r, out).commit
                 /\ raw'[m] = [Finished(m, r, out) EXCEPT !.applied = k]

Outcome(m, r, out, cs) ==
    /\ Functions'
    /\ \A n \in Members \ {m} :
          /\ disk'[n] = disk[n] /\ raw'[n] = raw[n] /\ status'[n] = status[n]
          /\ store'[n] = store[n] /\ cached'[n] = cached[n]
    /\ cached'[m] \in {cached[m], NoSnapshot}
    /\ \E k \in Nat :
          /\ r.applied <= k
          /\ TellsOnly(cs, calls', r.log, r.applied, k)
          /\ store'[m] \in Left(store[m] \cup Commands(r.log, r.applied, k))
          /\ Up(m)' => store'[m] = store[m] \cup Commands(r.log, r.applied, k)
          /\ \/ StoppedAt(m, r, out, disk[m], SentUnpersisted(m, r, out), k)
             \/ StoppedAt(m, r, out, WithLog(m, r), SentUnpersisted(m, r, out), k)
             \/ StoppedAt(m, r, out, WithState(m, r), SentUnpersisted(m, r, out), k)
             \/ StoppedAt(m, r, out, WithState(m, r), Spoken(m, r, out), k)
             \/ CameThrough(m, r, out, k)

(* A death in a pass.                                                        *)
LEMMA DiesOutcome ==
    ASSUME Functions, NEW m \in Members, NEW r, NEW out, NEW cs, NEW d, NEW s, NEW sent, NEW ds,
           Die(m, d, s, sent, ds), NEW k \in Nat, r.applied <= k, s = store[m] \cup Commands(r.log, r.applied, k),
           TellsOnly(cs, ds, r.log, r.applied, k),
           \/ /\ k <= r.commit /\ k <= r.stable
              /\ \/ d = disk[m] /\ sent = SentUnpersisted(m, r, out)
                 \/ d = WithLog(m, r) /\ sent = SentUnpersisted(m, r, out)
                 \/ d = WithState(m, r) /\ sent = SentUnpersisted(m, r, out)
                 \/ d = WithState(m, r) /\ sent = Spoken(m, r, out)
           \/ /\ k <= Finished(m, r, out).commit
              /\ d = WithCommit(m, r, out) /\ sent = AllSent(m, r, out)
    PROVE  Outcome(m, r, out, cs)
  <1>1. PICK kept \in Left(s) :
           /\ disk' = On(m, d) /\ net' = sent /\ store' = [store EXCEPT ![m] = kept]
           /\ status' = [status EXCEPT ![m] = "down"]
           /\ raw' = [raw EXCEPT ![m] = Resume(NoDisk, 0)]
           /\ cached' = [cached EXCEPT ![m] = NoSnapshot]
           /\ calls' = Abandoned(m, ds)
    BY DEF Die, On
  <1>2. TellsOnly(cs, calls', r.log, r.applied, k)
    <2>1. TellsOnly(cs, Abandoned(m, ds), r.log, r.applied, k)
      BY FailsTellNobodyOk
    <2> QED
      BY <1>1, <2>1
  <1>3. /\ ~Up(m)' /\ store'[m] = kept /\ cached'[m] = NoSnapshot /\ Functions'
        /\ \A n \in Members \ {m} :
              /\ disk'[n] = disk[n] /\ raw'[n] = raw[n] /\ status'[n] = status[n]
              /\ store'[n] = store[n] /\ cached'[n] = cached[n]
    BY <1>1 DEF Functions, Up, On
  <1>4. \/ StoppedAt(m, r, out, disk[m], SentUnpersisted(m, r, out), k)
        \/ StoppedAt(m, r, out, WithLog(m, r), SentUnpersisted(m, r, out), k)
        \/ StoppedAt(m, r, out, WithState(m, r), SentUnpersisted(m, r, out), k)
        \/ StoppedAt(m, r, out, WithState(m, r), Spoken(m, r, out), k)
        \/ CameThrough(m, r, out, k)
    BY <1>1, <1>3 DEF StoppedAt, CameThrough
  <1> QED
    BY <1>1, <1>2, <1>3, <1>4 DEF Outcome

(* A pass in which no snapshot was received has such an outcome.             *)
LEMMA OnReadyOutcome ==
    ASSUME Functions, NEW m \in Members, Up(m), NEW r, RawOK(r), NEW out, NEW cs, CallsOK(cs),
           on_ready(m, r, out, cs), r.commit <= Len(r.log),
           Finished(m, r, out).commit <= Len(r.log), r.commit <= Finished(m, r, out).commit,
           Finished(m, r, out).commit \in Nat
    PROVE  Outcome(m, r, out, cs)
  <1> DEFINE c1 == Max({r.applied, Min({r.commit, r.stable})})
             k1 == StopsAt(r.log, r.applied, c1)
             s2 == ApplyTo(store[m], r.log, r.applied, k1 - 1)
             early == SentUnpersisted(m, r, out)
             sent == Spoken(m, r, out)
             r4 == Finished(m, r, out)
             d2 == WithLog(m, r)
             d3 == WithState(m, r)
             d4 == WithCommit(m, r, out)
             k2 == StopsAt(r.log, c1, r4.commit)
             s4 == ApplyTo(s2, r.log, c1, k2 - 1)
             sent4 == AllSent(m, r, out)
             stops == k1 <= c1 \/ k2 <= r4.commit
             Told(k) == complete(m, cs, SubSeq(r.log, r.applied + 1, k))
  <1>1. \/ /\ disk' = [disk EXCEPT ![m] = IF k1 <= c1 THEN disk[m] ELSE d4]
           /\ store' = [store EXCEPT ![m] = IF k1 <= c1 THEN s2 ELSE s4]
           /\ net' = IF k1 <= c1 THEN early ELSE sent4
           /\ raw' = [raw EXCEPT ![m] = [r4 EXCEPT !.applied = k2 - 1]]
           /\ status' = [status EXCEPT ![m] = IF stops THEN "stopped" ELSE @]
           /\ calls' = IF k1 <= c1 THEN Abandoned(m, Told(k1 - 1))
                       ELSE IF stops THEN Abandoned(m, Told(k2 - 1))
                       ELSE observe_role(m, Told(k2 - 1), r.role)
           /\ UNCHANGED cached
        \/ Die(m, disk[m], store[m], early, cs)
        \/ \E k \in r.applied .. k1 - 1 :
              Die(m, disk[m], ApplyTo(store[m], r.log, r.applied, k), early, Told(k))
        \/ k1 > c1 /\ \/ Die(m, d2, s2, early, Told(c1))
                      \/ Die(m, d3, s2, early, Told(c1))
                      \/ \E k \in c1 .. k2 - 1 :
                            Die(m, d4, ApplyTo(s2, r.log, c1, k), sent4, Told(k))
                      \/ Die(m, d3, s2, sent, Told(c1))
    BY DEF on_ready, RawOK, WithLog, WithState, WithCommit, Finished, Advanced, Spoken, AllSent
  <1> HIDE DEF c1, k1, s2, early, sent, r4, d2, d3, d4, k2, s4, sent4, stops, Told
  <1>2. /\ r.applied \in Nat /\ r.commit \in Nat /\ r.stable \in Nat /\ r.log \in Seq(Entry)
        /\ Len(r.log) \in Nat
        /\ c1 \in Nat /\ r.applied <= c1 /\ c1 <= r.commit /\ c1 <= r.stable
    <2>1. r.applied \in Nat /\ r.commit \in Nat /\ r.stable \in Nat /\ r.log \in Seq(Entry)
          /\ Len(r.log) \in Nat /\ r.applied <= r.commit /\ r.applied <= r.stable
      BY DEF RawOK
    <2>2. Min({r.commit, r.stable}) = IF r.commit <= r.stable THEN r.commit ELSE r.stable
      BY <2>1, OfTwo
    <2> DEFINE b == Min({r.commit, r.stable})
    <2>3. b \in Nat /\ r.applied <= b /\ b <= r.commit /\ b <= r.stable
      BY <2>1, <2>2
    <2> HIDE DEF b
    <2>4. Max({r.applied, b}) = b
      <3>1. Max({r.applied, b}) = IF r.applied >= b THEN r.applied ELSE b
        BY <2>1, <2>3, OfTwo
      <3> QED
        BY <2>1, <2>3, <3>1
    <2>5. c1 = b
      BY <2>4 DEF c1, b
    <2> QED
      BY <2>1, <2>3, <2>5
  <1>3. r4.commit \in Nat /\ r.commit <= r4.commit /\ r4.commit <= Len(r.log) /\ c1 <= r4.commit
    BY <1>2 DEF r4
  <1>4. k1 \in r.applied + 1 .. c1 + 1 /\ \A h \in r.applied + 1 .. k1 - 1 : r.log[h].cmd \notin Refuses
    BY <1>2, StopsAtIs DEF k1
  <1>5. k2 \in c1 + 1 .. r4.commit + 1 /\ \A h \in c1 + 1 .. k2 - 1 : r.log[h].cmd \notin Refuses
    BY <1>2, <1>3, StopsAtIs DEF k2
  <1>6. \A k \in r.applied .. k1 - 1 : ApplyTo(store[m], r.log, r.applied, k) = store[m] \cup Commands(r.log, r.applied, k)
    <2> SUFFICES ASSUME NEW k \in r.applied .. k1 - 1
                 PROVE  ApplyTo(store[m], r.log, r.applied, k) = store[m] \cup Commands(r.log, r.applied, k)
      OBVIOUS
    <2>1. k \in Nat /\ \A h \in r.applied + 1 .. k : h \in r.applied + 1 .. k1 - 1
      BY <1>2, <1>4
    <2> QED
      <3>1. r.applied \in Nat
        BY <1>2
      <3> QED
        BY ONLY <2>1, <3>1, <1>4, AppliesAll
  <1>7. k1 > c1 => \A k \in c1 .. k2 - 1 :
                      ApplyTo(s2, r.log, c1, k) = store[m] \cup Commands(r.log, r.applied, k)
    <2> SUFFICES ASSUME k1 > c1, NEW k \in c1 .. k2 - 1
                 PROVE  ApplyTo(s2, r.log, c1, k) = store[m] \cup Commands(r.log, r.applied, k)
      OBVIOUS
    <2>1. k \in Nat /\ c1 <= k /\ \A h \in c1 + 1 .. k : h \in c1 + 1 .. k2 - 1
      BY <1>2, <1>5
    <2>2. ApplyTo(s2, r.log, c1, k) = s2 \cup Commands(r.log, c1, k)
      BY <1>2, <1>5, <2>1, AppliesAll
    <2>3. k1 - 1 = c1 /\ c1 \in r.applied .. k1 - 1
      <3>1. r.applied \in Nat /\ c1 \in Nat /\ r.applied <= c1 /\ k1 > c1 /\ k1 \in r.applied + 1 .. c1 + 1
        BY <1>2, <1>4
      <3> QED
        BY ONLY <3>1
    <2>4. s2 = store[m] \cup Commands(r.log, r.applied, c1)
      BY <1>6, <2>3 DEF s2
    <2>5. Commands(r.log, r.applied, k) = Commands(r.log, r.applied, c1) \cup Commands(r.log, c1, k)
      <3>1. r.applied \in Nat /\ c1 \in Nat /\ k \in Nat /\ r.applied <= c1 /\ c1 <= k
        BY <1>2, <2>1
      <3> QED
        BY ONLY <3>1, CommandsJoin
    <2> QED
      BY <2>2, <2>4, <2>5
  <1>8. \A k \in Nat : r.applied <= k /\ k <= Len(r.log) => TellsOnly(cs, Told(k), r.log, r.applied, k)
    BY <1>2, Completes DEF Told
  <1>9. \A k \in r.applied .. k1 - 1 : k \in Nat /\ r.applied <= k /\ k <= c1 /\ k <= Len(r.log)
                                        /\ k <= r.commit /\ k <= r.stable
    BY <1>2, <1>3, <1>4
  <1>10. \A k \in c1 .. k2 - 1 : k \in Nat /\ r.applied <= k /\ k <= r4.commit /\ k <= Len(r.log)
    <2>1. /\ c1 \in Nat /\ r.applied \in Nat /\ r.applied <= c1 /\ r4.commit \in Nat
          /\ Len(r.log) \in Nat /\ r4.commit <= Len(r.log) /\ k2 \in c1 + 1 .. r4.commit + 1
      BY <1>2, <1>3, <1>5
    <2> QED
      BY ONLY <2>1
  <1>11. CASE Die(m, disk[m], store[m], early, cs)
    <2>1. Commands(r.log, r.applied, r.applied) = {}
      BY <1>2 DEF Commands
    <2>2. TellsOnly(cs, cs, r.log, r.applied, r.applied)
      BY DEF TellsOnly
    <2>3. store[m] = store[m] \cup Commands(r.log, r.applied, r.applied)
      BY <2>1
    <2> QED
      BY <1>2, <1>11, <2>2, <2>3, DiesOutcome DEF early, RawOK
  <1>12. CASE \E k \in r.applied .. k1 - 1 :
                 Die(m, disk[m], ApplyTo(store[m], r.log, r.applied, k), early, Told(k))
    <2>1. PICK k \in r.applied .. k1 - 1 :
             Die(m, disk[m], ApplyTo(store[m], r.log, r.applied, k), early, Told(k))
      BY <1>12
    <2> QED
      BY <1>6, <1>8, <1>9, <2>1, DiesOutcome DEF early
  <1>13. CASE k1 > c1 /\ \/ Die(m, d2, s2, early, Told(c1))
                         \/ Die(m, d3, s2, early, Told(c1))
                         \/ Die(m, d3, s2, sent, Told(c1))
    <2>1. k1 - 1 = c1 /\ c1 \in r.applied .. k1 - 1
      BY <1>2, <1>4, <1>13
    <2>2. s2 = store[m] \cup Commands(r.log, r.applied, c1)
      BY <1>6, <2>1 DEF s2
    <2>3. TellsOnly(cs, Told(c1), r.log, r.applied, c1)
      BY <1>8, <1>9, <2>1
    <2> QED
      BY <1>2, <1>13, <2>2, <2>3, DiesOutcome DEF early, sent, d2, d3
  <1>14. CASE k1 > c1 /\ \E k \in c1 .. k2 - 1 :
                            Die(m, d4, ApplyTo(s2, r.log, c1, k), sent4, Told(k))
    <2>1. PICK k \in c1 .. k2 - 1 : Die(m, d4, ApplyTo(s2, r.log, c1, k), sent4, Told(k))
      BY <1>14
    <2>2. TellsOnly(cs, Told(k), r.log, r.applied, k)
      BY <1>8, <1>10
    <2>3. ApplyTo(s2, r.log, c1, k) = store[m] \cup Commands(r.log, r.applied, k)
      BY <1>7, <1>14
    <2>4. k \in Nat /\ r.applied <= k /\ k <= r4.commit
      BY <1>10
    <2> QED
      BY <2>1, <2>2, <2>3, <2>4, DiesOutcome DEF sent4, d4, r4
  <1>15. CASE /\ disk' = [disk EXCEPT ![m] = IF k1 <= c1 THEN disk[m] ELSE d4]
              /\ store' = [store EXCEPT ![m] = IF k1 <= c1 THEN s2 ELSE s4]
              /\ net' = IF k1 <= c1 THEN early ELSE sent4
              /\ raw' = [raw EXCEPT ![m] = [r4 EXCEPT !.applied = k2 - 1]]
              /\ status' = [status EXCEPT ![m] = IF stops THEN "stopped" ELSE @]
              /\ calls' = IF k1 <= c1 THEN Abandoned(m, Told(k1 - 1))
                          ELSE IF stops THEN Abandoned(m, Told(k2 - 1))
                          ELSE observe_role(m, Told(k2 - 1), r.role)
              /\ UNCHANGED cached
    <2>1. /\ Functions' /\ cached'[m] = cached[m]
          /\ \A n \in Members \ {m} :
                /\ disk'[n] = disk[n] /\ raw'[n] = raw[n] /\ status'[n] = status[n]
                /\ store'[n] = store[n] /\ cached'[n] = cached[n]
          /\ store'[m] = IF k1 <= c1 THEN s2 ELSE s4
          /\ status'[m] = IF stops THEN "stopped" ELSE status[m]
          /\ raw'[m] = [r4 EXCEPT !.applied = k2 - 1]
      BY <1>15 DEF Functions
    <2>2. \A s : s \in Left(s)
      BY DEF Left
    <2>3. CASE k1 <= c1
      <3> DEFINE k == k1 - 1
      <3>1. k \in r.applied .. k1 - 1
        BY <1>2, <1>4
      <3>2. k \in Nat /\ r.applied <= k /\ k <= r.commit /\ k <= r.stable /\ k <= Len(r.log)
        BY <1>9, <3>1
      <3>3. s2 = store[m] \cup Commands(r.log, r.applied, k)
        BY <1>6, <3>1 DEF s2
      <3>4. TellsOnly(cs, Told(k), r.log, r.applied, k)
        BY <1>8, <3>2
      <3>5. calls' = Abandoned(m, Told(k))
        BY <1>15, <2>3
      <3>6. TellsOnly(cs, calls', r.log, r.applied, k)
        <4> HIDE DEF k
        <4>1. TellsOnly(cs, Abandoned(m, Told(k)), r.log, r.applied, k)
          BY ONLY <3>4, FailsTellNobodyOk
        <4> QED
          BY <3>5, <4>1
      <3>7. ~Up(m)' /\ disk' = On(m, disk[m]) /\ net' = early
        BY <1>15, <2>1, <2>3 DEF Up, On, stops
      <3>8. StoppedAt(m, r, out, disk[m], SentUnpersisted(m, r, out), k)
        BY <3>2, <3>7 DEF StoppedAt, early
      <3>9. store'[m] = store[m] \cup Commands(r.log, r.applied, k)
        BY <2>1, <2>3, <3>3
      <3> HIDE DEF k
      <3> QED
        BY <2>1, <2>2, <3>2, <3>6, <3>8, <3>9 DEF Outcome
    <2>4. CASE ~(k1 <= c1)
      <3> DEFINE k == k2 - 1
      <3>1. k \in c1 .. k2 - 1
        BY <1>2, <1>3, <1>5
      <3>2. k \in Nat /\ r.applied <= k /\ k <= r4.commit /\ k <= Len(r.log)
        BY <1>10, <3>1
      <3>3. s4 = store[m] \cup Commands(r.log, r.applied, k)
        BY <1>2, <1>4, <1>7, <2>4, <3>1 DEF s4
      <3>4. TellsOnly(cs, Told(k), r.log, r.applied, k)
        BY <1>8, <3>2
      <3>5. calls' = IF stops THEN Abandoned(m, Told(k)) ELSE observe_role(m, Told(k), r.role)
        BY <1>15, <2>4
      <3>6. TellsOnly(cs, calls', r.log, r.applied, k)
        <4> HIDE DEF k
        <4>1. /\ TellsOnly(cs, Abandoned(m, Told(k)), r.log, r.applied, k)
              /\ TellsOnly(cs, fail_all(m, Told(k), "lost"), r.log, r.applied, k)
          BY ONLY <3>4, FailsTellNobodyOk
        <4>2. observe_role(m, Told(k), r.role) \in {Told(k), fail_all(m, Told(k), "lost")}
          BY DEF observe_role
        <4> QED
          BY <3>4, <3>5, <4>1, <4>2
      <3>7. disk' = On(m, d4) /\ net' = sent4
        BY <1>15, <2>4 DEF On
      <3>8. Up(m)' => k = r4.commit
        <4>1. Up(m)' => ~stops
          BY <2>1 DEF Up
        <4>2. ~stops => k = r4.commit
          BY <1>3, <1>5 DEF stops
        <4> QED
          BY <4>1, <4>2
      <3>9. CameThrough(m, r, out, k)
        BY <2>1, <3>2, <3>7, <3>8 DEF CameThrough, d4, sent4, r4
      <3>10. store'[m] = store[m] \cup Commands(r.log, r.applied, k)
        BY <2>1, <2>4, <3>3
      <3> HIDE DEF k
      <3> QED
        BY <2>1, <2>2, <3>2, <3>6, <3>9, <3>10 DEF Outcome
    <2> QED
      BY <2>3, <2>4
  <1> QED
    BY <1>1, <1>11, <1>12, <1>13, <1>14, <1>15

(* Who voted in a term, for one who asked, is in it or later.                *)
LEMMA VotersInTerm ==
    ASSUME NEW D, NEW N, SaidInTerm(D, N), \A f \in Members : D[f].term \in Nat,
           NEW q \in N, q.type = "request", NEW f \in Voters(N, q.from, q.term)
    PROVE  f \in Members /\ q.term \in Nat /\ q.term <= D[f].term
  <1>1. q.from \in Members /\ q.term \in Nat /\ q.term <= D[q.from].term
    BY DEF SaidInTerm, Said
  <1>2. CASE f = q.from
    BY <1>1, <1>2
  <1>3. CASE f # q.from
    <2>1. Ballot(f, q.from, q.term) \in N /\ f \in Members
      BY <1>3 DEF Voters
    <2>2. /\ Ballot(f, q.from, q.term).type = "vote" /\ Ballot(f, q.from, q.term).from = f
          /\ Ballot(f, q.from, q.term).term = q.term
      BY DEF Ballot
    <2>3. Ballot(f, q.from, q.term) \in Said(N)
      BY <2>1, <2>2 DEF Said
    <2> QED
      BY <1>1, <2>1, <2>2, <2>3 DEF SaidInTerm
  <1> QED
    BY <1>2, <1>3

(* Once a later term has a leader, what nobody holds nobody will.            *)
LEMMA NobodyWill ==
    ASSUME NEW D, NEW N, SaidInTerm(D, N), \A f \in Members : D[f].term \in Nat,
           AppendsOK(N), NEW b \in Appends(N), NEW term \in Nat, term < b.term, NEW i,
           \A f \in Members : ~Holds(f, term, i, N)
    PROVE  Blocked(D, N, term, i)
  <1>1. /\ b.from \in Members /\ b.term \in Nat /\ Quorum(Voters(N, b.from, b.term))
        /\ \E q \in N : q.type = "request" /\ q.from = b.from /\ q.term = b.term
    BY DEF AppendsOK, AppendOK
  <1>2. PICK q \in N : q.type = "request" /\ q.from = b.from /\ q.term = b.term
    BY <1>1
  <1> DEFINE V == Voters(N, b.from, b.term)
  <1>3. V \in SUBSET Members
    BY <1>1 DEF Voters
  <1>4. \A f \in V : b.term <= D[f].term
    <2> SUFFICES ASSUME NEW f \in V PROVE b.term <= D[f].term
      OBVIOUS
    <2>1. f \in Voters(N, q.from, q.term)
      BY <1>2
    <2> QED
      BY <1>2, <2>1, VotersInTerm
  <1>5. \A f \in V : D[f].term > term /\ ~Holds(f, term, i, N)
    BY <1>1, <1>3, <1>4
  <1> HIDE DEF V
  <1>6. Quorum(V)
    BY <1>1 DEF V
  <1> QED
    BY <1>3, <1>5, <1>6 DEF Blocked

(* A log with an entry more.                                                 *)
LEMMA OneMore ==
    ASSUME NEW l \in Seq(Entry), NEW e \in Entry
    PROVE  LET k == Append(l, e)
           IN  /\ k \in Seq(Entry) /\ Len(k) = Len(l) + 1 /\ k # <<>> /\ k[Len(k)] = e
               /\ Shares(l, k, Len(l))
               /\ \A i \in 1 .. Len(l) : k[i] = l[i]
               /\ \A h : \A i \in Nat : Shares(l, h, i) => Shares(k, h, i)
               /\ \A h : \A i \in Nat : Shares(h, l, i) => Shares(h, k, i)
  <1> DEFINE k == Append(l, e)
  <1>1. /\ k \in Seq(Entry) /\ Len(k) = Len(l) + 1 /\ k # <<>> /\ k[Len(k)] = e
        /\ \A i \in 1 .. Len(l) : k[i] = l[i]
    OBVIOUS
  <1>2. Len(l) \in Nat
    OBVIOUS
  <1> HIDE DEF k
  <1>3. Shares(l, k, Len(l))
    BY <1>1, <1>2 DEF Shares
  <1>4. ASSUME NEW h, NEW i \in Nat, Shares(l, h, i) PROVE Shares(k, h, i)
    <2>1. i <= Len(k)
      BY <1>1, <1>2, <1>4 DEF Shares
    <2> QED
      BY <1>1, <1>2, <1>4, <2>1 DEF Shares
  <1>5. ASSUME NEW h, NEW i \in Nat, Shares(h, l, i) PROVE Shares(h, k, i)
    BY <1>1, <1>2, <1>5 DEF Shares
  <1> QED
    BY <1>1, <1>3, <1>4, <1>5 DEF k

(* A leader has added an entry to its log, and sends it before it has        *)
(* written it.                                                               *)
LEMMA NewEntryGoesOut ==
    ASSUME NEW D, NEW N, NEW C \in SUBSET Members, NEW L \in SUBSET Members, Good(D, N, C, L),
           NEW m \in Members, m \notin C \cup L, NEW l \in Seq(Entry), Sent(N, l),
           NEW e \in Entry, \A i \in 1 .. Len(l) : l[i].term <= e.term,
           NEW a, a.type = "append", a.from = m, a.term = e.term, a.log = Append(l, e),
           a.snap \in Nat, a.commit \in Nat, IsCommitted(N, l, a.commit),
           Quorum(Voters(N, m, e.term)),
           \E q \in N : q.type = "request" /\ q.from = m /\ q.term = e.term,
           \A b \in Appends(N) : b.term = e.term =>
              b.from = m /\ Len(b.log) <= Len(l) /\ Shares(b.log, l, Len(b.log)),
           \A b \in Appends(N) : \A i : Own(b, i) /\ b.term < e.term => Keeps(D, N, l, b, i)
    PROVE  Good(D, N \cup {a}, C, L)
  <1>0. /\ \A f \in Members : D[f].term \in Nat
        /\ AppendsOK(N) /\ AcksOK(D, N) /\ SaidInTerm(D, N)
    BY DEF Good, LogInv, DiskOK
  <1>1. /\ a.log \in Seq(Entry) /\ Len(a.log) = Len(l) + 1 /\ a.log # <<>> /\ a.log[Len(a.log)] = e
        /\ Shares(l, a.log, Len(l))
        /\ \A i \in 1 .. Len(l) : a.log[i] = l[i]
        /\ \A h : \A i \in Nat : Shares(l, h, i) => Shares(a.log, h, i)
        /\ \A h : \A i \in Nat : Shares(h, l, i) => Shares(h, a.log, i)
    BY OneMore
  <1>2. Len(l) \in Nat /\ e.term \in Nat /\ Len(a.log) \in Nat
    BY <1>1 DEF Entry
  <1>b. \A b \in Appends(N) : b.log \in Seq(Entry) /\ Len(b.log) \in Nat /\ b.term \in Nat
    BY <1>0 DEF AppendsOK, AppendOK
  <1>3. AppendOK(N, a)
    <2>1. Rising(a.log)
      <3> SUFFICES ASSUME NEW i \in 1 .. Len(a.log), NEW j \in 1 .. Len(a.log), i <= j
                   PROVE  a.log[i].term <= a.log[j].term
        BY DEF Rising
      <3>1. CASE j \in 1 .. Len(l)
        <4>1. i \in 1 .. Len(l)
          BY <1>2, <3>1
        <4>2. Rising(l)
          BY <1>0, LogsRise
        <4> QED
          BY <1>1, <3>1, <4>1, <4>2 DEF Rising
      <3>2. CASE j = Len(a.log) /\ i \in 1 .. Len(l)
        BY <1>1, <3>2
      <3>3. CASE j = Len(a.log) /\ i = Len(a.log)
        BY <1>1, <1>2, <3>3
      <3>4. j \in 1 .. Len(l) \/ (j = Len(a.log) /\ (i \in 1 .. Len(l) \/ i = Len(a.log)))
        BY <1>1, <1>2
      <3> QED
        BY <3>1, <3>2, <3>3, <3>4
    <2>2. a.commit \in 0 .. Len(a.log)
      BY <1>1, <1>2, CommittedIsThere
    <2> QED
      BY <1>1, <1>2, <2>1, <2>2 DEF AppendOK
  <1>4. \A b \in Appends(N) : b.term = a.term =>
              b.from = a.from
              /\ (Shares(b.log, a.log, Len(b.log)) \/ Shares(a.log, b.log, Len(a.log)))
    BY <1>1, <1>b
  <1>5. Sent(N \cup {a}, a.log)
    <2> SUFFICES ASSUME NEW i \in 1 .. Len(a.log)
                 PROVE  \E b \in Appends(N \cup {a}) : b.term = a.log[i].term /\ Shares(a.log, b.log, i)
      BY DEF Sent
    <2>1. CASE i = Len(a.log)
      <3>1. a \in Appends(N \cup {a})
        BY DEF Appends
      <3>2. Shares(a.log, a.log, i)
        BY <1>1, <2>1, SharesFacts
      <3> QED
        BY <1>1, <2>1, <3>1, <3>2
    <2>2. CASE i # Len(a.log)
      <3>1. i \in 1 .. Len(l) /\ i \in Nat
        BY <1>1, <1>2, <2>2
      <3>2. PICK b \in Appends(N) : b.term = l[i].term /\ Shares(l, b.log, i)
        BY <3>1 DEF Sent
      <3>3. b \in Appends(N \cup {a})
        BY DEF Appends
      <3> QED
        BY <1>1, <3>1, <3>2, <3>3
    <2> QED
      BY <2>1, <2>2
  <1>6. \A b \in Appends(N) : \A i : Own(b, i) /\ b.term < a.term => Keeps(D, N, a.log, b, i)
    BY <1>1 DEF Keeps, Own
  <1>7. Fresh(D, N, a)
    <2> SUFFICES ASSUME NEW i, Own(a, i)
                 PROVE  \/ \E b \in Appends(N) : b.term = a.term /\ Shares(a.log, b.log, i)
                        \/ /\ \A f \in Members : ~Holds(f, a.term, i, N)
                           /\ \A b \in Appends(N) : a.term < b.term => Blocked(D, N, a.term, i)
      BY DEF Fresh
    <2>0. i \in 1 .. Len(a.log) /\ i \in Nat /\ a.log[i].term = e.term
      BY DEF Own
    <2>1. CASE i <= Len(l)
      <3>1. i \in 1 .. Len(l) /\ l[i].term = e.term
        BY <1>1, <1>2, <2>0, <2>1
      <3>2. PICK b \in Appends(N) : b.term = l[i].term /\ Shares(l, b.log, i)
        BY <3>1 DEF Sent
      <3> QED
        BY <1>1, <2>0, <3>1, <3>2
    <2>2. CASE ~(i <= Len(l))
      <3>1. \A f \in Members : ~Holds(f, a.term, i, N)
        <4> SUFFICES ASSUME NEW f \in Members, NEW k \in N, k.type = "ack", k.term = e.term,
                            k.match >= i
                     PROVE  FALSE
          BY DEF Holds
        <4>1. k \in Acks(N)
          BY DEF Acks
        <4>2. k.match \in Nat
          BY <1>0, <4>1 DEF AcksOK
        <4>3. PICK b \in Appends(N) : b.term = e.term /\ k.match <= Len(b.log)
          BY <1>0, <4>1 DEF AcksOK
        <4>4. Len(b.log) <= Len(l)
          BY <4>3
        <4> QED
          BY <1>2, <1>b, <2>0, <2>2, <4>2, <4>3, <4>4
      <3>2. \A b \in Appends(N) : a.term < b.term => Blocked(D, N, a.term, i)
        <4> SUFFICES ASSUME NEW b \in Appends(N), a.term < b.term PROVE Blocked(D, N, a.term, i)
          OBVIOUS
        <4>1. a.term \in Nat
          BY <1>2
        <4> QED
          BY <1>0, <3>1, <4>1, NobodyWill
      <3> QED
        BY <3>1, <3>2
    <2> QED
      BY <2>1, <2>2
  <1>8. IsCommitted(N, a.log, a.commit)
    <2>1. a.commit <= Len(l)
      BY CommittedIsThere
    <2>2. Shares(l, a.log, a.commit)
      BY <1>1, <1>2, <2>1, SharesFacts
    <2>3. a.commit <= a.commit
      BY <1>2
    <2> QED
      BY <1>0, <1>1, <2>2, <2>3, CommittedShared
  <1>9. a.from \notin C \cup L
    OBVIOUS
  <1> QED
    BY <1>3, <1>4, <1>5, <1>6, <1>7, <1>8, <1>9, SendsAppend

(* A leader's log has all that the leader has acknowledged.                  *)
LEMMA LeadersKeep ==
    ASSUME NEW D, NEW N, LogInv(D, N), NEW m \in Members, NEW a \in Appends(N), a.term = D[m].term,
           \A b \in Appends(N) : b.term = a.term => Len(b.log) <= Len(a.log),
           NEW b \in Appends(N), NEW i, Own(b, i), Holds(m, b.term, i, N)
    PROVE  Keeps(D, N, a.log, b, i)
  <1>0. /\ AppendsOK(N) /\ Chain(N) /\ AcksOK(D, N) /\ LaterLeaders(D, N)
        /\ a.log \in Seq(Entry) /\ b.log \in Seq(Entry) /\ a.term \in Nat /\ b.term \in Nat
        /\ i \in 1 .. Len(b.log)
    BY DEF LogInv, AppendsOK, AppendOK, Own
  <1>1. PICK k \in N : k.type = "ack" /\ k.from = m /\ k.term = b.term /\ k.match >= i
    BY DEF Holds
  <1>2. b.term <= a.term
    BY <1>0, <1>1 DEF AcksOK, Acks
  <1>3. CASE b.term < a.term
    BY <1>0, <1>3 DEF LaterLeaders
  <1>4. CASE b.term = a.term
    <2>1. Len(b.log) <= Len(a.log) /\ i \in Nat /\ i <= Len(b.log) /\ i <= Len(a.log)
      BY <1>0, <1>4
    <2>2. Shares(a.log, b.log, i)
      BY <1>0, <1>4, <2>1, OneTermShares
    <2> QED
      BY <2>2 DEF Keeps
  <1> QED
    BY <1>0, <1>2, <1>3, <1>4

(* The invariant of the logs.                                                *)
LogsInv ==
    /\ ElectionInv /\ Functions /\ CallsOK(calls)
    /\ \A m \in Members : HasLog(disk[m])
    /\ LogInv(disk, net) /\ SaidInTerm(disk, net)
    /\ RunsOK /\ RequestsKept /\ VotesAskedFor /\ OneVoice

(* The other members that run as candidates, or as leaders.                  *)
Others(m, role) == {n \in Members \ {m} : Up(n) /\ raw[n].role = role}

(* What becomes of the role that raft gives member m in a pass.              *)
RolesOK(m, r, out) ==
    /\ r.role \in {"follower", "candidate", "leader"}
    /\ r.role = "leader" =>
          \A a \in Appends(net) : a.term = r.term => Len(a.log) <= Len(r.log)
    /\ r.role = "candidate" => CandidateOK(On(m, WithCommit(m, r, out)), AllSent(m, r, out), m)
    /\ \A q \in out : q.type = "request" => r.vote = m /\ disk[m].term < r.term

(* Where the log comes from that a pass writes, cs being the calls as the    *)
(* pass finds them.                                                          *)
LogFrom(m, r, cs) ==
    \/ r.log = disk[m].log
    \/ \E a \in Appends(net) : r.log = a.log
    \/ \E e \in Entry :
          /\ r.log = Append(disk[m].log, e)
          /\ e.cmd = 0 \/ (e.cmd \in DOMAIN calls /\ calls[e.cmd].queued /\ ~cs[e.cmd].queued)

CallsFrom(cs) ==
    /\ CallsOK(cs) /\ DOMAIN cs = DOMAIN calls
    /\ \A c \in DOMAIN cs : /\ cs[c].queued => calls[c].queued
                            /\ cs[c].result = calls[c].result /\ cs[c].got = calls[c].got

PassOK(m, r, out, cs) ==
    /\ Proper(m, r, out) /\ r.applied = raw[m].applied
    /\ Good(disk, SentUnpersisted(m, r, out), Others(m, "candidate"), Others(m, "leader"))
    /\ RolesOK(m, r, out)
    /\ LogFrom(m, r, cs)
    /\ CallsFrom(cs)
    /\ on_ready(m, r, out, cs)

(* What is known of a member that runs.                                      *)
Runs(m) ==
    /\ RawOK(raw[m]) /\ raw[m].stable = Len(raw[m].log) /\ raw[m].commit <= Len(raw[m].log)
    /\ raw[m].log = disk[m].log /\ raw[m].term = disk[m].term /\ raw[m].vote = disk[m].vote
    /\ raw[m].commit = disk[m].commit
    /\ raw[m].role \in {"follower", "candidate", "leader"}
    /\ raw[m].role = "candidate" => CandidateOK(disk, net, m)
    /\ raw[m].role = "leader" => LeaderOK(disk, net, m)
    /\ Good(disk, net, Others(m, "candidate"), Others(m, "leader"))
    /\ DiskOK(disk[m]) /\ Sent(net, disk[m].log) /\ IsCommitted(net, disk[m].log, disk[m].commit)
    /\ CallsFrom(calls)

(* The invariant, read off for one member.                                   *)
LEMMA WhatRuns ==
    ASSUME LogsInv, NEW m \in Members, Up(m)
    PROVE  Runs(m)
  <1>1. LogInv(disk, net) /\ RunsOK /\ SaidInTerm(disk, net) /\ CallsOK(calls)
    BY DEF LogsInv
  <1>2. DiskOK(disk[m]) /\ Sent(net, disk[m].log) /\ IsCommitted(net, disk[m].log, disk[m].commit)
    BY <1>1 DEF LogInv, LogsSent, CommitsOK
  <1>3. disk[m].commit <= Len(disk[m].log)
    BY <1>2, CommittedIsThere DEF DiskOK
  <1>4. RawOK(raw[m])
    BY <1>1, <1>2, <1>3 DEF RunsOK, RawOK, DiskOK
  <1>5. Good(disk, net, Others(m, "candidate"), Others(m, "leader"))
    BY <1>1 DEF Good, Others, RunsOK
  <1>6. CallsFrom(calls)
    BY <1>1 DEF CallsFrom
  <1>7. /\ raw[m].log = disk[m].log /\ raw[m].term = disk[m].term /\ raw[m].vote = disk[m].vote
        /\ raw[m].commit = disk[m].commit /\ raw[m].stable = Len(raw[m].log)
        /\ raw[m].role \in {"follower", "candidate", "leader"}
        /\ raw[m].role = "candidate" => CandidateOK(disk, net, m)
        /\ raw[m].role = "leader" => LeaderOK(disk, net, m)
    BY <1>1 DEF RunsOK
  <1> QED
    BY <1>2, <1>3, <1>4, <1>5, <1>6, <1>7 DEF Runs

(* The fields in which nothing has happened.                                 *)
SameLog(r, m) ==
    /\ RawOK(r) /\ r.log = raw[m].log /\ r.stable = raw[m].stable /\ r.applied = raw[m].applied

(* A pass of a follower or a candidate that changes no log.                  *)
LEMMA QuietIsProper ==
    ASSUME NEW m \in Members, Runs(m), NEW r, SameLog(r, m), r.commit = raw[m].commit,
           r.role # "leader", raw[m].term <= r.term,
           r.term = raw[m].term => raw[m].vote \in {None, r.vote},
           NEW out, MaySay(r, net, m, out)
    PROVE  /\ Proper(m, r, out)
           /\ Good(disk, SentUnpersisted(m, r, out), Others(m, "candidate"), Others(m, "leader"))
  <1>1. SentUnpersisted(m, r, out) = net
    BY DEF SentUnpersisted, bcast_append
  <1>2. /\ DiskOK(disk[m]) /\ Sent(net, disk[m].log) /\ IsCommitted(net, disk[m].log, disk[m].commit)
        /\ raw[m].log = disk[m].log /\ raw[m].term = disk[m].term /\ raw[m].vote = disk[m].vote
        /\ raw[m].commit = disk[m].commit /\ raw[m].stable = Len(raw[m].log)
        /\ Good(disk, net, Others(m, "candidate"), Others(m, "leader"))
    BY DEF Runs
  <1>3. /\ RawOK(r) /\ r.log = disk[m].log /\ r.stable = Len(disk[m].log) /\ r.commit = disk[m].commit
    BY <1>2 DEF SameLog
  <1>4. Shares(disk[m].log, r.log, r.stable)
    BY <1>2, <1>3, SharesFacts DEF DiskOK
  <1>5. \A b \in Appends(net) : \A i : Own(b, i) /\ Holds(m, b.term, i, net) => Keeps(disk, net, r.log, b, i)
    BY <1>2, <1>3 DEF Good, LogInv, AckedIsOnDisk
  <1>6. disk[m].commit <= r.commit
    BY <1>2, <1>3 DEF DiskOK
  <1> QED
    BY <1>1, <1>2, <1>3, <1>4, <1>5, <1>6 DEF Proper

(* A pass of a leader, with what it sends first already known to be good.    *)
LEMMA LeaderIsProper ==
    ASSUME NEW m \in Members, Runs(m), NEW r, RawOK(r), r.role = "leader",
           r.term = raw[m].term, r.vote = raw[m].vote, raw[m].commit <= r.commit,
           r.stable = raw[m].stable, Shares(raw[m].log, r.log, r.stable),
           r.stable = Len(r.log) => raw[m].log = r.log,
           \A b \in Appends(net) : b.term = r.term => Len(b.log) <= Len(r.log),
           IsCommitted(net, r.log, r.commit), NEW C, NEW L,
           Good(disk, SentUnpersisted(m, r, {}), C, L)
    PROVE  Proper(m, r, {})
  <1> DEFINE N == SentUnpersisted(m, r, {})
             a == [type |-> "append", from |-> m, term |-> r.term, log |-> r.log,
                   commit |-> r.commit, snap |-> disk[m].snap]
  <1>1. N = net \cup {a}
    BY DEF SentUnpersisted, bcast_append
  <1>2. a.type = "append" /\ a.term = r.term /\ a.log = r.log
    OBVIOUS
  <1> HIDE DEF a, N
  <1>3. Appends(N) = Appends(net) \cup {a} /\ net \subseteq N
    <2>1. Appends(net \cup {a}) = Appends(net) \cup {a}
      BY <1>2, AppendsCount
    <2> QED
      BY <1>1, <2>1
  <1>4. LogInv(disk, N)
    BY DEF Good, N
  <1>5. /\ raw[m].log = disk[m].log /\ raw[m].term = disk[m].term /\ raw[m].vote = disk[m].vote
        /\ raw[m].commit = disk[m].commit /\ disk[m].term \in Nat
    BY DEF Runs, DiskOK
  <1>6. \A b \in Appends(N) : \A i : Own(b, i) /\ Holds(m, b.term, i, N) => Keeps(disk, N, r.log, b, i)
    <2>1. \A b \in Appends(N) : b.term = a.term => Len(b.log) <= Len(a.log)
      <3>1. Len(a.log) \in Nat
        BY <1>2 DEF RawOK
      <3> QED
        BY <1>2, <1>3, <3>1
    <2>2. a \in Appends(N) /\ a.term = disk[m].term
      BY <1>2, <1>3, <1>5
    <2> QED
      BY <1>2, <1>4, <2>1, <2>2, LeadersKeep
  <1>7. Sent(N, r.log)
    BY <1>2, <1>3, <1>4 DEF LogInv, LogsSent
  <1>8. IsCommitted(N, r.log, r.commit)
    BY <1>3, CommittedStays
  <1>9. MaySay(r, N, m, {})
    BY DEF MaySay
  <1>10. /\ disk[m].term <= r.term
         /\ r.term = disk[m].term => disk[m].vote \in {None, r.vote}
         /\ disk[m].commit <= r.commit
         /\ Shares(disk[m].log, r.log, r.stable)
         /\ r.stable = Len(r.log) => disk[m].log = r.log
    BY <1>5
  <1> QED
    BY <1>6, <1>7, <1>8, <1>9, <1>10 DEF Proper, N

(* A leader that has counted a quorum of acknowledgements.                   *)
LEMMA AcksPass ==
    ASSUME LogsInv, NEW m \in Members, step_acks(m)
    PROVE  \E r, out, cs : PassOK(m, r, out, cs)
  <1> DEFINE r == [raw[m] EXCEPT !.commit = Committed(raw[m], net)]
             c == Committed(raw[m], net)
             C == Others(m, "candidate")
             L == Others(m, "leader")
  <1>0. Up(m) /\ on_ready(m, r, {}, calls) /\ c > raw[m].commit
    BY DEF step_acks
  <1>1. Runs(m)
    BY <1>0, WhatRuns
  <1>2. /\ RawOK(raw[m]) /\ raw[m].stable = Len(raw[m].log) /\ raw[m].commit <= Len(raw[m].log)
        /\ raw[m].log = disk[m].log /\ raw[m].term = disk[m].term /\ raw[m].vote = disk[m].vote
        /\ raw[m].commit = disk[m].commit /\ Good(disk, net, C, L) /\ DiskOK(disk[m])
        /\ CallsFrom(calls)
        /\ raw[m].role = "leader" => LeaderOK(disk, net, m)
    BY <1>1 DEF Runs
  <1>3. /\ c \in Nat /\ raw[m].role = "leader" /\ c \in 1 .. Len(raw[m].log)
        /\ raw[m].log[c].term = raw[m].term /\ Quorum(Holders(raw[m].term, c, net))
    <2>1. /\ c \in Nat
          /\ \/ c = raw[m].commit
             \/ /\ raw[m].role = "leader" /\ c \in 1 .. Len(raw[m].log)
                /\ raw[m].log[c].term = raw[m].term
                /\ Quorum(Holders(raw[m].term, c, net))
      BY <1>2, CommittedIs DEF RawOK
    <2> QED
      BY <1>0, <1>2, <2>1 DEF RawOK
  <1> HIDE DEF c
  <1>4. /\ RawOK(r) /\ r.log = raw[m].log /\ r.term = raw[m].term /\ r.vote = raw[m].vote
        /\ r.role = raw[m].role /\ r.commit = c /\ r.stable = raw[m].stable
        /\ r.applied = raw[m].applied
    <2>1. r = [raw[m] EXCEPT !.commit = c]
      BY DEF c
    <2> HIDE DEF r
    <2>2. /\ r.log = raw[m].log /\ r.term = raw[m].term /\ r.vote = raw[m].vote
          /\ r.role = raw[m].role /\ r.commit = c /\ r.stable = raw[m].stable
          /\ r.applied = raw[m].applied /\ r.restored = raw[m].restored /\ DOMAIN r = DOMAIN raw[m]
      BY <1>2, <2>1 DEF RawOK
    <2> QED
      BY <1>0, <1>2, <1>3, <2>2 DEF RawOK, c
  <1> HIDE DEF r
  <1>5. PICK b \in Appends(net) : b.from = m /\ b.term = disk[m].term /\ b.log = disk[m].log
    BY <1>2, <1>3 DEF LeaderOK
  <1>6. IsCommitted(net, r.log, c)
    <2>1. Chosen(net, b, c)
      BY <1>2, <1>3, <1>5 DEF Chosen, Own
    <2>2. Shares(r.log, b.log, c) /\ c <= c
      BY <1>2, <1>3, <1>4, <1>5, SharesFacts DEF DiskOK
    <2> QED
      BY <2>1, <2>2 DEF IsCommitted
  <1>7. \A a \in Appends(net) : a.term = r.term => Len(a.log) <= Len(r.log)
    BY <1>2, <1>3, <1>4 DEF LeaderOK
  <1>8. Good(disk, SentUnpersisted(m, r, {}), C, L)
    <2> DEFINE a == [type |-> "append", from |-> m, term |-> r.term, log |-> r.log,
                     commit |-> r.commit, snap |-> disk[m].snap]
    <2>1. SentUnpersisted(m, r, {}) = net \cup {a}
      BY <1>3, <1>4 DEF SentUnpersisted, bcast_append
    <2>2. /\ a.type = "append" /\ a.from = m /\ a.term = r.term /\ a.log = r.log
          /\ a.commit = r.commit /\ a.snap = disk[m].snap
      OBVIOUS
    <2> HIDE DEF a
    <2>3. /\ C \in SUBSET Members /\ L \in SUBSET Members /\ a.from \notin C \cup L /\ a.snap \in Nat
          /\ b.from = a.from /\ b.term = a.term /\ b.log = a.log
          /\ a.commit \in Nat /\ IsCommitted(net, a.log, a.commit)
      BY <1>2, <1>3, <1>4, <1>5, <1>6, <2>2 DEF Others, DiskOK
    <2> HIDE DEF C, L
    <2> QED
      BY <1>2, <1>5, <2>1, <2>2, <2>3, SendsAgain
  <1>9. Proper(m, r, {})
    <2>1. Shares(raw[m].log, r.log, r.stable) /\ r.stable = Len(r.log)
      BY <1>2, <1>4, SharesFacts DEF RawOK
    <2>2. raw[m].commit <= r.commit /\ IsCommitted(net, r.log, r.commit) /\ r.role = "leader"
      BY <1>0, <1>2, <1>3, <1>4, <1>6 DEF RawOK, c
    <2> QED
      BY <1>1, <1>4, <1>7, <1>8, <2>1, <2>2, LeaderIsProper
  <1>10. RolesOK(m, r, {})
    BY <1>3, <1>4, <1>7 DEF RolesOK
  <1>11. LogFrom(m, r, calls)
    BY <1>2, <1>4 DEF LogFrom
  <1>12. on_ready(m, r, {}, calls)
    BY <1>0 DEF r
  <1>13. PassOK(m, r, {}, calls)
    BY <1>2, <1>4, <1>8, <1>9, <1>10, <1>11, <1>12 DEF PassOK
  <1> QED
    BY <1>13

(* An append from a leader, however late.                                    *)
LEMMA AppendPass ==
    ASSUME LogsInv, NEW m \in Members, NEW a \in net, step_append(m, a)
    PROVE  \E r, out, cs : PassOK(m, r, out, cs)
  <1> DEFINE s == CatchTerm(raw[m], a.term)
             r == AcceptAppend(s, a)
             k == Ack(m, a.term, Len(a.log))
             n == Matching(raw[m].log, a.log)
             C == Others(m, "candidate")
             L == Others(m, "leader")
  <1>0. /\ Up(m) /\ on_ready(m, r, {k}, calls) /\ a.type = "append" /\ a.term >= raw[m].term
        /\ ~(n < Len(a.log) /\ n < raw[m].commit)
    BY DEF step_append, Contradicts
  <1>1. Runs(m)
    BY <1>0, WhatRuns
  <1>2. /\ RawOK(raw[m]) /\ raw[m].stable = Len(raw[m].log) /\ raw[m].commit <= Len(raw[m].log)
        /\ raw[m].log = disk[m].log /\ raw[m].term = disk[m].term /\ raw[m].vote = disk[m].vote
        /\ raw[m].commit = disk[m].commit /\ Good(disk, net, C, L) /\ DiskOK(disk[m])
        /\ Sent(net, disk[m].log) /\ IsCommitted(net, disk[m].log, disk[m].commit)
        /\ CallsFrom(calls)
    BY <1>1 DEF Runs
  <1>i. /\ AppendsOK(net) /\ Chain(net) /\ LogsSent(disk, net) /\ AcksOK(disk, net)
        /\ LaterLeaders(disk, net) /\ AckedIsOnDisk(disk, net) /\ CommitsOK(disk, net)
    BY <1>2 DEF Good, LogInv
  <1>a. /\ a \in Appends(net) /\ a.term \in Nat /\ a.log \in Seq(Entry) /\ Len(a.log) \in Nat
        /\ a.log # <<>> /\ a.commit \in 0 .. Len(a.log) /\ IsCommitted(net, a.log, a.commit)
        /\ Sent(net, a.log)
    <2>1. a \in Appends(net)
      BY <1>0 DEF Appends
    <2> QED
      BY <1>i, <2>1 DEF AppendsOK, AppendOK, CommitsOK, LogsSent
  <1>3. /\ n \in Nat /\ n <= Len(raw[m].log) /\ n <= Len(a.log)
        /\ n > 0 => raw[m].log[n].term = a.log[n].term
        /\ \A i \in 1 .. Len(raw[m].log) : i <= Len(a.log) /\ raw[m].log[i].term = a.log[i].term => i <= n
    BY <1>2, <1>a, MatchingIs DEF RawOK
  <1>4. Shares(raw[m].log, a.log, n)
    <2>1. CASE n = 0
      BY <1>2, <1>a, <2>1, SharesFacts DEF RawOK
    <2>2. CASE n > 0
      BY <1>2, <1>3, <1>a, <1>i, <2>2, LogsMatch DEF RawOK
    <2> QED
      BY <1>3, <2>1, <2>2
  <1>5. /\ s.log = raw[m].log /\ s.term = a.term /\ s.stable = raw[m].stable
        /\ s.commit = raw[m].commit /\ s.applied = raw[m].applied /\ s.restored = raw[m].restored
        /\ DOMAIN s = DOMAIN raw[m]
        /\ (s.vote = raw[m].vote \/ a.term > raw[m].term)
    BY <1>0, <1>2, <1>a DEF CatchTerm, RawOK
  <1> HIDE DEF s
  <1>6. /\ r.role = "follower" /\ r.term = a.term /\ r.vote = s.vote
        /\ r.log = IF n < Len(a.log) THEN a.log ELSE raw[m].log
        /\ r.stable = IF n < Len(a.log) THEN Min({raw[m].stable, n}) ELSE raw[m].stable
        /\ r.commit = Max({raw[m].commit, a.commit})
        /\ r.applied = raw[m].applied /\ r.restored = raw[m].restored /\ DOMAIN r = DOMAIN raw[m]
    <2>1. r = [s EXCEPT !.role = "follower",
                  !.log = IF n < Len(a.log) THEN a.log ELSE s.log,
                  !.stable = IF n < Len(a.log) THEN Min({s.stable, n}) ELSE s.stable,
                  !.commit = Max({s.commit, a.commit})]
      BY <1>5 DEF AcceptAppend
    <2> HIDE DEF r, n
    <2> QED
      BY <1>2, <1>5, <2>1 DEF RawOK
  <1> HIDE DEF r, n
  <1>7. /\ raw[m].commit \in Nat /\ Len(raw[m].log) \in Nat /\ raw[m].term \in Nat
        /\ raw[m].applied \in Nat /\ raw[m].applied <= raw[m].commit
        /\ raw[m].log \in Seq(Entry)
    BY <1>2 DEF RawOK
  <1>8. /\ r.commit = IF raw[m].commit >= a.commit THEN raw[m].commit ELSE a.commit
        /\ r.stable = IF n < Len(a.log) THEN n ELSE Len(raw[m].log)
        /\ n < Len(a.log) => raw[m].commit <= n
    <2>1. Max({raw[m].commit, a.commit}) = IF raw[m].commit >= a.commit THEN raw[m].commit ELSE a.commit
      BY <1>7, <1>a, OfTwo
    <2>2. Min({raw[m].stable, n}) = IF raw[m].stable <= n THEN raw[m].stable ELSE n
      <3>1. raw[m].stable \in Nat /\ n \in Nat
        BY <1>2, <1>3, <1>7
      <3> QED
        BY ONLY <3>1, OfTwo
    <2>3. n < Len(a.log) => raw[m].commit <= n
      BY <1>0, <1>3, <1>7, <1>a
    <2>4. r.commit = IF raw[m].commit >= a.commit THEN raw[m].commit ELSE a.commit
      BY <1>6, <2>1
    <2>5. r.stable = IF n < Len(a.log) THEN n ELSE Len(raw[m].log)
      <3>1. CASE n < Len(a.log)
        <4>1. r.stable = Min({raw[m].stable, n})
          BY <1>6, <3>1
        <4>2. raw[m].stable = Len(raw[m].log)
          BY <1>2
        <4> QED
          BY <1>3, <1>7, <2>2, <3>1, <4>1, <4>2
      <3>2. CASE ~(n < Len(a.log))
        BY <1>2, <1>6, <3>2
      <3> QED
        BY <3>1, <3>2
    <2> QED
      BY <2>3, <2>4, <2>5
  <1>9. RawOK(r)
    <2>1. r.log \in Seq(Entry) /\ r.term \in Nat /\ r.commit \in Nat
      BY <1>6, <1>7, <1>8, <1>a
    <2>2. r.stable \in 0 .. Len(r.log) /\ r.applied \in 0 .. r.stable /\ r.applied <= r.commit
      BY <1>3, <1>6, <1>7, <1>8, <1>a, <1>2
    <2> QED
      BY <1>2, <1>6, <2>1, <2>2 DEF RawOK
  <1>10. /\ Shares(disk[m].log, r.log, r.stable)
         /\ r.stable = Len(r.log) => disk[m].log = r.log
         /\ Shares(raw[m].log, r.log, raw[m].commit)
         /\ Shares(a.log, r.log, Len(a.log))
         /\ Sent(net, r.log)
    <2>1. CASE n < Len(a.log)
      <3>1. Shares(a.log, a.log, Len(a.log)) /\ Shares(raw[m].log, a.log, raw[m].commit)
        BY <1>3, <1>4, <1>7, <1>8, <1>a, <2>1, SharesFacts
      <3>2. r.log = a.log /\ r.stable = n /\ n # Len(a.log)
        BY <1>3, <1>6, <1>8, <1>a, <2>1
      <3> QED
        BY <1>2, <1>4, <1>a, <3>1, <3>2
    <2>2. CASE ~(n < Len(a.log))
      <3>1. n = Len(a.log)
        BY <1>3, <1>a, <2>2
      <3>2. /\ Shares(raw[m].log, raw[m].log, Len(raw[m].log))
            /\ Shares(raw[m].log, raw[m].log, raw[m].commit)
            /\ Shares(a.log, raw[m].log, Len(a.log))
        BY <1>2, <1>4, <1>7, <1>a, <3>1, SharesFacts
      <3> QED
        BY <1>2, <1>6, <1>8, <2>2, <3>2
    <2> QED
      BY <2>1, <2>2
  <1>11. IsCommitted(net, r.log, r.commit)
    <2>1. r.log \in Seq(Entry) /\ raw[m].commit <= raw[m].commit /\ a.commit <= a.commit /\ a.commit \in Nat
      BY <1>7, <1>9, <1>a DEF RawOK
    <2>2. IsCommitted(net, r.log, raw[m].commit)
      BY <1>2, <1>7, <1>10, <1>i, <2>1, CommittedShared
    <2>3. IsCommitted(net, r.log, a.commit)
      <3>1. Shares(a.log, r.log, a.commit)
        BY <1>10, <1>a, <2>1, SharesFacts
      <3> QED
        BY <1>i, <1>a, <2>1, <3>1, CommittedShared
    <2> QED
      BY <1>8, <2>2, <2>3
  <1>12. \A b \in Appends(net) : \A i : Own(b, i) /\ Holds(m, b.term, i, net) => Keeps(disk, net, r.log, b, i)
    <2> SUFFICES ASSUME NEW b \in Appends(net), NEW i, Own(b, i), Holds(m, b.term, i, net)
                 PROVE  Keeps(disk, net, r.log, b, i)
      OBVIOUS
    <2>0. Keeps(disk, net, raw[m].log, b, i)
      BY <1>2, <1>i DEF AckedIsOnDisk
    <2>1. CASE ~(n < Len(a.log))
      BY <1>6, <2>0, <2>1
    <2>2. CASE n < Len(a.log)
      <3>0. r.log = a.log
        BY <1>6, <2>2
      <3>1. b.log \in Seq(Entry) /\ b.term \in Nat /\ i \in 1 .. Len(b.log) /\ i \in Nat
        BY <1>i DEF AppendsOK, AppendOK, Own
      <3>2. b.term <= a.term
        <4>1. PICK h \in net : h.type = "ack" /\ h.from = m /\ h.term = b.term
          BY DEF Holds
        <4>2. b.term <= disk[m].term
          BY <1>i, <4>1 DEF AcksOK, Acks
        <4> QED
          BY <1>0, <1>2, <1>7, <1>a, <3>1, <4>2
      <3>3. CASE b.term < a.term
        BY <1>a, <1>i, <3>0, <3>3 DEF LaterLeaders
      <3>4. CASE b.term = a.term /\ i <= Len(a.log)
        <4>1. Shares(a.log, b.log, i)
          BY <1>a, <1>i, <3>1, <3>4, OneTermShares
        <4> QED
          BY <3>0, <4>1 DEF Keeps
      <3>5. CASE b.term = a.term /\ i > Len(a.log)
        <4>1. CASE Blocked(disk, net, b.term, i)
          BY <4>1 DEF Keeps
        <4>2. CASE Shares(raw[m].log, b.log, i)
          <5> DEFINE j == Len(a.log)
          <5>1. j \in 1 .. i /\ j \in 1 .. Len(raw[m].log) /\ j <= Len(b.log)
            BY <1>7, <1>a, <3>1, <3>5, <4>2 DEF Shares
          <5>2. Shares(a.log, b.log, j)
            BY <1>a, <1>i, <3>5, <5>1, OneTermShares
          <5>3. a.log[j] = b.log[j] /\ raw[m].log[j] = b.log[j]
            BY <4>2, <5>1, <5>2 DEF Shares
          <5>4. j <= n
            <6>1. j \in 1 .. Len(raw[m].log) /\ j <= Len(a.log) /\ raw[m].log[j].term = a.log[j].term
              BY <1>a, <5>1, <5>3
            <6> QED
              BY ONLY <1>3, <6>1
          <5> QED
            BY <1>3, <1>a, <2>2, <5>4
        <4> QED
          BY <2>0, <4>1, <4>2 DEF Keeps
      <3> QED
        BY <1>a, <3>1, <3>2, <3>3, <3>4, <3>5
    <2> QED
      BY <2>1, <2>2
  <1>13. MaySay(r, net, m, {k})
    <2>1. k.type = "ack" /\ k.from = m /\ k.term = a.term /\ k.match = Len(a.log)
      BY DEF Ack
    <2>2. Shares(r.log, a.log, Len(a.log))
      BY <1>9, <1>10, <1>a, SharesFacts DEF RawOK
    <2> HIDE DEF k
    <2>3. \E b \in Appends(net) : b.term = k.term /\ k.match <= Len(b.log) /\ Shares(r.log, b.log, k.match)
      BY <1>a, <2>1, <2>2
    <2> QED
      BY <1>6, <1>a, <2>1, <2>3 DEF MaySay
  <1>14. SentUnpersisted(m, r, {k}) = net
    BY <1>6 DEF SentUnpersisted, bcast_append
  <1>15. disk[m].term <= r.term /\ disk[m].commit <= r.commit
         /\ (r.term = disk[m].term => disk[m].vote \in {None, r.vote})
    BY <1>0, <1>2, <1>5, <1>6, <1>7, <1>8, <1>a
  <1>16. Proper(m, r, {k})
    BY <1>9, <1>10, <1>11, <1>12, <1>13, <1>14, <1>15 DEF Proper
  <1>17. RolesOK(m, r, {k})
    BY <1>6 DEF RolesOK, Ack
  <1>18. LogFrom(m, r, calls)
    BY <1>2, <1>6, <1>a DEF LogFrom
  <1>19. PassOK(m, r, {k}, calls)
    <2>1. on_ready(m, r, {k}, calls)
      BY <1>0 DEF r, s
    <2> QED
      BY <1>2, <1>6, <1>14, <1>16, <1>17, <1>18, <2>1 DEF PassOK
  <1> QED
    BY <1>19

(* A member asks for votes, and for its own.                                 *)
LEMMA CampaignPass ==
    ASSUME LogsInv, NEW m \in Members, tick_campaign(m)
    PROVE  \E r, out, cs : PassOK(m, r, out, cs)
  <1> DEFINE r == Campaign(raw[m], m)
             q == [type |-> "request", from |-> m, term |-> raw[m].term + 1,
                   last |-> Len(raw[m].log), last_term |-> LastTerm(raw[m].log)]
             C == Others(m, "candidate")
             L == Others(m, "leader")
  <1>0. Up(m) /\ on_ready(m, r, {q}, calls)
    BY DEF tick_campaign
  <1>1. Runs(m)
    BY <1>0, WhatRuns
  <1>2. /\ RawOK(raw[m]) /\ raw[m].stable = Len(raw[m].log)
        /\ raw[m].log = disk[m].log /\ raw[m].term = disk[m].term /\ raw[m].vote = disk[m].vote
        /\ raw[m].commit = disk[m].commit /\ Good(disk, net, C, L) /\ DiskOK(disk[m])
        /\ CallsFrom(calls)
    BY <1>1 DEF Runs
  <1>3. /\ HasLog(disk[m]) /\ DOMAIN disk = Members /\ SaidInTerm(disk, net)
        /\ RequestsKept /\ VotesAskedFor /\ VotesKept /\ MessagesOK
        /\ LogInv(disk, net)
    BY DEF LogsInv, Functions, ElectionInv
  <1>4. /\ q.type = "request" /\ q.from = m /\ q.term = disk[m].term + 1
        /\ q.last = Len(disk[m].log) /\ q.last_term = LastTerm(disk[m].log)
    BY <1>2
  <1> HIDE DEF q
  <1>5. /\ SameLog(r, m) /\ r.commit = raw[m].commit /\ r.term = disk[m].term + 1 /\ r.vote = m
        /\ r.role = "candidate"
    <2>1. /\ r.log = raw[m].log /\ r.stable = raw[m].stable /\ r.applied = raw[m].applied
          /\ r.commit = raw[m].commit /\ r.term = raw[m].term + 1 /\ r.vote = m
          /\ r.role = "candidate" /\ r.restored = raw[m].restored /\ DOMAIN r = DOMAIN raw[m]
      BY <1>2 DEF Campaign, RawOK
    <2> HIDE DEF r
    <2>2. RawOK(r)
      BY <1>2, <2>1 DEF RawOK
    <2> QED
      BY <1>2, <2>1, <2>2 DEF SameLog
  <1> HIDE DEF r
  <1>t. disk[m].term \in Nat /\ disk[m].term < r.term /\ \A f \in Members : disk[f].term \in Nat
    BY <1>2, <1>3, <1>5 DEF DiskOK, LogInv
  <1>6. MaySay(r, net, m, {q})
    BY <1>4, <1>5 DEF MaySay
  <1>7. Proper(m, r, {q}) /\ Good(disk, SentUnpersisted(m, r, {q}), C, L)
    <2>1. r.role # "leader" /\ raw[m].term <= r.term /\ r.term # raw[m].term
      BY <1>2, <1>5, <1>t
    <2> QED
      BY <1>1, <1>5, <1>6, <2>1, QuietIsProper
  <1>8. Good(On(m, WithCommit(m, r, {q})), AllSent(m, r, {q}), C, L)
    <2>1. C \in SUBSET (Members \ {m}) /\ L \in SUBSET (Members \ {m})
      BY DEF Others
    <2> HIDE DEF C, L
    <2> QED
      BY <1>3, <1>7, <2>1, StagesAreGood
  <1> DEFINE E == On(m, WithCommit(m, r, {q}))
             N == AllSent(m, r, {q})
  <1>9. E[m].log = disk[m].log /\ E[m].term = r.term /\ \A f \in Members \ {m} : E[f] = disk[f]
    <2>1. RawOK(r) /\ Shares(disk[m].log, r.log, r.stable) /\ (r.stable = Len(r.log) => disk[m].log = r.log)
      BY <1>7 DEF Proper
    <2>2. WithCommit(m, r, {q}).log = r.log /\ WithCommit(m, r, {q}).term = r.term
      BY <1>2, <1>3, <2>1, StagesWrite
    <2>3. r.log = disk[m].log
      BY <1>2, <1>5 DEF SameLog
    <2> QED
      BY <1>3, <2>2, <2>3 DEF On
  <1>10. N = net \cup {q}
    <2>1. Finished(m, r, {q}).role = r.role
      <3>1. RawOK(r) /\ Shares(disk[m].log, r.log, r.stable) /\ (r.stable = Len(r.log) => disk[m].log = r.log)
        BY <1>7 DEF Proper
      <3> QED
        BY <1>2, <1>3, <3>1, StagesWrite
    <2> QED
      BY <1>5, <2>1 DEF AllSent, Spoken, SentUnpersisted, persisted_messages, bcast_append
  <1> HIDE DEF E, N
  <1>11. \A f \in Members : Ballot(f, m, r.term) \notin net
    <2> SUFFICES ASSUME NEW f \in Members, Ballot(f, m, r.term) \in net PROVE FALSE
      OBVIOUS
    <2>1. Ballot(f, m, r.term) \in Votes /\ Ballot(f, m, r.term).to = m /\ Ballot(f, m, r.term).term = r.term
      BY DEF Votes, Ballot
    <2>2. PICK p \in Requests : p.from = m /\ p.term = r.term
      BY <1>3, <2>1 DEF VotesAskedFor
    <2>3. r.term <= disk[m].term
      BY <1>3, <2>2 DEF RequestsKept
    <2> QED
      BY <1>t, <1>5, <2>3
  <1>12. \A f \in Members : Ballot(f, m, r.term) \notin N
    BY <1>4, <1>10, <1>11 DEF Ballot
  <1>13. Appends(N) = Appends(net) /\ Voters(N, m, r.term) = {m}
    BY <1>4, <1>10, <1>12 DEF Appends, Voters
  <1>14. AppendsOK(net) /\ Sent(net, disk[m].log) /\ disk[m].log \in Seq(Entry)
    BY <1>3 DEF LogInv, LogsSent, DiskOK
  <1>15. \A b \in Appends(N) : \A i :
            Own(b, i) /\ b.term < r.term /\ Holds(m, b.term, i, N) => Keeps(E, N, E[m].log, b, i)
    BY <1>8 DEF Good, LogInv, AckedIsOnDisk, E, N
  <1>16. \A p \in N : p.type = "request" /\ p.from = m /\ p.term = r.term => p = q
    <2> SUFFICES ASSUME NEW p \in net, p.type = "request", p.from = m, p.term = r.term PROVE FALSE
      BY <1>10
    <2>1. p \in Requests
      BY DEF Requests
    <2>2. r.term <= disk[m].term
      BY <1>3, <2>1 DEF RequestsKept
    <2> QED
      BY <1>t, <1>5, <2>2
  <1>17. \A a \in Appends(N) : a.from = m => a.term < r.term
    <2> SUFFICES ASSUME NEW a \in Appends(net), a.from = m PROVE a.term < r.term
      BY <1>13
    <2>1. PICK p \in net : p.type = "request" /\ p.from = m /\ p.term = a.term
      BY <1>14 DEF AppendsOK, AppendOK
    <2>2. p.term <= disk[m].term /\ a.term \in Nat
      BY <1>3, <1>14, <2>1 DEF RequestsKept, Requests, AppendsOK, AppendOK
    <2> QED
      BY <1>t, <1>5, <2>1, <2>2
  <1>18. (\A i \in 1 .. Len(E[m].log) : E[m].log[i].term < r.term) \/ Unelectable(E, N, m, r.term)
    <2> SUFFICES ASSUME NEW j \in 1 .. Len(disk[m].log), ~(disk[m].log[j].term < r.term)
                 PROVE  Unelectable(E, N, m, r.term)
      BY <1>9
    <2>1. PICK a \in Appends(net) : a.term = disk[m].log[j].term
      BY <1>14 DEF Sent
    <2>2. /\ a.from \in Members /\ a.term \in Nat /\ Quorum(Voters(net, a.from, a.term))
          /\ \E p \in net : p.type = "request" /\ p.from = a.from /\ p.term = a.term
      BY <1>14 DEF AppendsOK, AppendOK
    <2>3. a.term >= r.term /\ a.from # m
      <3>1. a.term >= r.term
        BY <1>t, <1>5, <2>1, <2>2
      <3>2. a.from # m
        BY <1>13, <1>17, <1>t, <1>5, <2>2, <3>1
      <3> QED
        BY <3>1, <3>2
    <2>4. PICK p \in net : p.type = "request" /\ p.from = a.from /\ p.term = a.term
      BY <2>2
    <2> DEFINE V == Voters(net, a.from, a.term)
    <2>5. V \in SUBSET Members
      BY <2>2 DEF Voters
    <2>6. ASSUME NEW f \in V
          PROVE  /\ f # m /\ Ballot(f, m, r.term) \notin N
                 /\ \/ E[f].term > r.term
                    \/ E[f].term = r.term /\ E[f].vote \notin {None, m}
      <3>0. f \in Members
        BY <2>5
      <3>1. /\ a.term <= disk[f].term
            /\ a.term = disk[f].term => disk[f].vote = a.from
        <4>1. CASE f = a.from
          BY <1>3, <2>4, <4>1 DEF RequestsKept, Requests
        <4>2. CASE f # a.from
          <5>1. Ballot(f, a.from, a.term) \in Votes
            BY <4>2 DEF Voters, Votes, Ballot
          <5> QED
            BY <1>3, <5>1 DEF VotesKept, Ballot
        <4> QED
          BY <4>1, <4>2
      <3>2. disk[f].term \in Nat /\ r.term \in Nat
        BY <1>t, <1>5, <3>0
      <3>3. f # m
        BY <1>t, <2>2, <2>3, <3>1, <3>2
      <3>4. E[f] = disk[f]
        BY <1>9, <3>0, <3>3
      <3>5. disk[f].term > r.term \/ (disk[f].term = r.term /\ disk[f].vote = a.from)
        BY <2>2, <2>3, <3>1, <3>2
      <3> QED
        BY <1>12, <2>2, <2>3, <3>0, <3>3, <3>4, <3>5, MembersAssumption
    <2> HIDE DEF V
    <2>7. Quorum(V)
      BY <2>2 DEF V
    <2> QED
      BY <2>5, <2>6, <2>7 DEF Unelectable
  <1>19. CandidateOK(E, N, m)
    <2>1. q \in N
      BY <1>10
    <2> QED
      BY <1>4, <1>5, <1>9, <1>13, <1>15, <1>16, <1>17, <1>18, <2>1 DEF CandidateOK
  <1>20. RolesOK(m, r, {q})
    BY <1>5, <1>19, <1>t DEF RolesOK, E, N
  <1>21. LogFrom(m, r, calls)
    BY <1>2, <1>5 DEF LogFrom, SameLog
  <1>22. PassOK(m, r, {q}, calls)
    <2>1. on_ready(m, r, {q}, calls)
      BY <1>0 DEF r, q
    <2> QED
      BY <1>2, <1>5, <1>7, <1>20, <1>21, <2>1 DEF PassOK, SameLog
  <1> QED
    BY <1>22

(* A member hears a candidate, and gives it its vote or only joins its term. *)
LEMMA RequestPass ==
    ASSUME LogsInv, NEW m \in Members, NEW q \in net, step_request(m, q)
    PROVE  \E r, out, cs : PassOK(m, r, out, cs)
  <1> DEFINE s == CatchTerm(raw[m], q.term)
             v == [type |-> "vote", from |-> m, to |-> q.from, term |-> q.term]
             w == [s EXCEPT !.vote = q.from]
             C == Others(m, "candidate")
             L == Others(m, "leader")
  <1>0. /\ Up(m) /\ q.type = "request"
        /\ \/ Grants(s, q) /\ s.vote = None /\ on_ready(m, w, {v}, calls)
           \/ s # raw[m] /\ on_ready(m, s, {}, calls)
    BY DEF step_request
  <1>1. Runs(m)
    BY <1>0, WhatRuns
  <1>2. /\ RawOK(raw[m]) /\ raw[m].log = disk[m].log
        /\ raw[m].role \in {"follower", "candidate", "leader"} /\ CallsFrom(calls)
    BY <1>1 DEF Runs
  <1>3. /\ HasRole(raw[m]) /\ q.term \in Nat /\ q.from \in Members
        /\ raw[m].role # "follower" => raw[m].vote = m
    BY <1>0 DEF LogsInv, ElectionInv, Shape, MessagesOK, Requests, CandidatesVoteForThemselves
  <1>4. /\ SameLog(s, m) /\ s.commit = raw[m].commit /\ raw[m].term <= s.term
        /\ (s.term = raw[m].term => s.vote = raw[m].vote)
        /\ s = raw[m] \/ s.role = "follower"
    <2>1. CASE q.term > raw[m].term
      <3>1. s = [raw[m] EXCEPT !.role = "follower", !.term = q.term, !.vote = None]
        BY <2>1 DEF CatchTerm
      <3> HIDE DEF s
      <3>2. /\ s.log = raw[m].log /\ s.stable = raw[m].stable /\ s.applied = raw[m].applied
            /\ s.commit = raw[m].commit /\ s.term = q.term /\ s.role = "follower"
            /\ s.restored = raw[m].restored /\ DOMAIN s = DOMAIN raw[m]
        BY <1>2, <3>1 DEF RawOK
      <3>3. RawOK(s)
        BY <1>2, <1>3, <3>2 DEF RawOK
      <3> QED
        BY <1>2, <1>3, <2>1, <3>2, <3>3 DEF SameLog, RawOK
    <2>2. CASE ~(q.term > raw[m].term)
      <3>1. s = raw[m]
        BY <2>2 DEF CatchTerm
      <3> HIDE DEF s
      <3> QED
        BY <1>2, <3>1 DEF SameLog, RawOK
    <2> QED
      BY <2>1, <2>2
  <1> HIDE DEF s
  <1>5. CASE s # raw[m] /\ on_ready(m, s, {}, calls)
    <2>1. s.role = "follower"
      BY <1>4, <1>5
    <2>2. MaySay(s, net, m, {})
      BY DEF MaySay
    <2>3. Proper(m, s, {}) /\ Good(disk, SentUnpersisted(m, s, {}), C, L)
      BY <1>1, <1>4, <2>1, <2>2, QuietIsProper
    <2>4. RolesOK(m, s, {})
      BY <2>1 DEF RolesOK
    <2>5. LogFrom(m, s, calls)
      BY <1>2, <1>4 DEF LogFrom, SameLog
    <2>6. PassOK(m, s, {}, calls)
      BY <1>2, <1>4, <1>5, <2>3, <2>4, <2>5 DEF PassOK, SameLog
    <2> QED
      BY <2>6
  <1>6. CASE Grants(s, q) /\ s.vote = None /\ on_ready(m, w, {v}, calls)
    <2>1. s.role = "follower"
      BY <1>2, <1>3, <1>4, <1>6, MembersAssumption
    <2>2. /\ SameLog(w, m) /\ w.commit = raw[m].commit /\ w.term = s.term /\ w.vote = q.from
          /\ w.role = "follower"
      <3>1. /\ w.log = raw[m].log /\ w.stable = raw[m].stable /\ w.applied = raw[m].applied
            /\ w.commit = raw[m].commit /\ w.term = s.term /\ w.vote = q.from
            /\ w.role = "follower" /\ w.restored = s.restored /\ DOMAIN w = DOMAIN s
        BY <1>4, <2>1 DEF SameLog, RawOK
      <3> HIDE DEF w
      <3>2. RawOK(w)
        BY <1>4, <3>1 DEF SameLog, RawOK
      <3> QED
        BY <3>1, <3>2 DEF SameLog
    <2> HIDE DEF w
    <2>3. v = Ballot(m, w.vote, w.term) /\ v.to = q.from /\ v.term = q.term /\ v.type = "vote"
      BY <1>6, <2>2 DEF Ballot, Grants
    <2> HIDE DEF v
    <2>4. UpToDate(q, w.log)
      BY <1>4, <1>6, <2>2 DEF Grants, UpToDate, SameLog
    <2>5. MaySay(w, net, m, {v})
      BY <1>0, <2>3, <2>4 DEF MaySay
    <2>6. w.role # "leader" /\ raw[m].term <= w.term
          /\ (w.term = raw[m].term => raw[m].vote \in {None, w.vote})
      BY <1>4, <1>6, <2>2
    <2>7. Proper(m, w, {v}) /\ Good(disk, SentUnpersisted(m, w, {v}), C, L)
      BY <1>1, <2>2, <2>5, <2>6, QuietIsProper
    <2>8. RolesOK(m, w, {v})
      BY <2>2, <2>3 DEF RolesOK
    <2>9. LogFrom(m, w, calls)
      BY <1>2, <2>2 DEF LogFrom, SameLog
    <2>10. PassOK(m, w, {v}, calls)
      <3>1. on_ready(m, w, {v}, calls)
        BY <1>6
      <3> QED
        BY <1>2, <2>2, <2>7, <2>8, <2>9, <3>1 DEF PassOK, SameLog
    <2> QED
      BY <2>10
  <1> QED
    BY <1>0, <1>5, <1>6

(* A candidate with the votes of a quorum leads: nobody else leads in its    *)
(* term, and its log has what a quorum may hold of earlier leaders'.         *)
LEMMA VotesPass ==
    ASSUME LogsInv, NEW m \in Members, step_votes(m)
    PROVE  \E r, out, cs : PassOK(m, r, out, cs)
  <1> DEFINE r == Lead(raw[m])
             T == raw[m].term
             l == raw[m].log
             e == NoCommand(T)
             C == Others(m, "candidate")
             L == Others(m, "leader")
             V == Voters(net, m, T)
  <1>0. /\ Up(m) /\ raw[m].role = "candidate" /\ on_ready(m, r, {}, calls)
        /\ Quorum(V)
    BY DEF step_votes, Voters, Ballot
  <1>1. Runs(m)
    BY <1>0, WhatRuns
  <1>2. /\ RawOK(raw[m]) /\ raw[m].stable = Len(raw[m].log) /\ raw[m].commit <= Len(raw[m].log)
        /\ raw[m].log = disk[m].log /\ raw[m].term = disk[m].term /\ raw[m].vote = disk[m].vote
        /\ raw[m].commit = disk[m].commit /\ Good(disk, net, C, L) /\ DiskOK(disk[m])
        /\ CallsFrom(calls) /\ CandidateOK(disk, net, m)
        /\ Sent(net, disk[m].log) /\ IsCommitted(net, disk[m].log, disk[m].commit)
    BY <1>0, <1>1 DEF Runs
  <1>3. /\ SaidInTerm(disk, net) /\ OneVoice /\ VotesKept /\ OneVotePerTerm /\ LogInv(disk, net)
        /\ raw[m].vote = m
    BY <1>0 DEF LogsInv, ElectionInv, CandidatesVoteForThemselves
  <1>4. /\ AppendsOK(net) /\ AcksOK(disk, net) /\ \A f \in Members : disk[f].term \in Nat
    BY <1>3 DEF LogInv, DiskOK
  <1>5. PICK q \in net : q.type = "request" /\ q.from = m /\ q.term = T
    BY <1>2 DEF CandidateOK
  <1>6. V \in SUBSET Members /\ \A f \in V : T <= disk[f].term
    <2>1. V \in SUBSET Members
      BY DEF Voters
    <2>2. ASSUME NEW f \in V PROVE T <= disk[f].term
      <3>1. f \in Voters(net, q.from, q.term)
        BY <1>5
      <3> QED
        BY <1>3, <1>4, <1>5, <3>1, VotersInTerm
    <2> QED
      BY <2>1, <2>2
  <1> HIDE DEF V
  <1>7. ~Unelectable(disk, net, m, T)
    <2> SUFFICES ASSUME NEW U \in SUBSET Members, Quorum(U),
                        \A f \in U : f # m /\ Ballot(f, m, T) \notin net
                 PROVE  FALSE
      BY DEF Unelectable
    <2>1. U \cap V # {}
      BY <1>0, <1>6, QuorumsIntersect
    <2> QED
      BY <2>1 DEF V, Voters
  <1>8. \A i \in 1 .. Len(l) : l[i].term < T
    BY <1>2, <1>7 DEF CandidateOK
  <1>9. \A b \in Appends(net) : b.term # T
    <2> SUFFICES ASSUME NEW b \in Appends(net), b.term = T PROVE FALSE
      OBVIOUS
    <2> DEFINE U == Voters(net, b.from, T)
    <2>1. b.from \in Members /\ Quorum(U) /\ \E p \in net : p.type = "request" /\ p.from = b.from /\ p.term = T
      BY <1>4 DEF AppendsOK, AppendOK
    <2>2. U \in SUBSET Members
      BY <2>1 DEF Voters
    <2>3. b.from # m
      BY <1>2, <1>4 DEF CandidateOK, AppendsOK, AppendOK
    <2>4. U \cap V # {}
      <3> HIDE DEF U
      <3> QED
        BY <1>0, <1>6, <2>1, <2>2, QuorumsIntersect
    <2>5. PICK f \in U : f \in V
      BY <2>4
    <2>b. \A x, y : Ballot(x, y, T) \in net => /\ Ballot(x, y, T) \in Votes
                                              /\ Ballot(x, y, T).from = x /\ Ballot(x, y, T).to = y
                                              /\ Ballot(x, y, T).term = T
      BY DEF Votes, Ballot
    <2>6. CASE f = m
      <3>1. Ballot(m, b.from, T) \in net
        BY <2>3, <2>5, <2>6 DEF Voters
      <3>2. b.from = disk[m].vote
        <4>1. \A v \in Votes : v.from = m /\ v.term = T => v.to = disk[m].vote
          BY <1>2, <1>3 DEF VotesKept
        <4> QED
          BY <2>b, <3>1, <4>1
      <3> QED
        BY <1>2, <1>3, <2>3, <3>2
    <2>7. CASE f = b.from
      <3>1. Ballot(b.from, m, T) \in net
        BY <2>3, <2>5, <2>7 DEF Voters, V
      <3>2. PICK p \in Requests : p.from = b.from /\ p.term = T
        BY <2>1 DEF Requests
      <3> QED
        BY <1>3, <2>3, <2>b, <3>1, <3>2 DEF OneVoice
    <2>8. CASE f # m /\ f # b.from
      <3>1. Ballot(f, b.from, T) \in net /\ Ballot(f, m, T) \in net
        BY <2>5, <2>8 DEF Voters, V
      <3>2. Ballot(f, b.from, T) = Ballot(f, m, T)
        BY <1>3, <2>b, <3>1 DEF OneVotePerTerm
      <3> QED
        BY <2>3, <2>b, <3>1, <3>2
    <2> QED
      BY <2>6, <2>7, <2>8
  <1>10. \A b \in Appends(net) : \A i : Own(b, i) /\ b.term < T => Keeps(disk, net, l, b, i)
    <2> SUFFICES ASSUME NEW b \in Appends(net), NEW i, Own(b, i), b.term < T
                 PROVE  Keeps(disk, net, l, b, i)
      OBVIOUS
    <2>1. CASE \E f \in V : Holds(f, b.term, i, net)
      BY <1>2, <2>1 DEF CandidateOK, V
    <2>2. CASE ~\E f \in V : Holds(f, b.term, i, net)
      <3>1. b.term \in Nat /\ T \in Nat
        BY <1>2, <1>4 DEF AppendsOK, AppendOK, RawOK
      <3>2. \A f \in V : disk[f].term > b.term /\ ~Holds(f, b.term, i, net)
        BY <1>4, <1>6, <2>2, <3>1
      <3> QED
        BY <1>0, <1>6, <3>2 DEF Blocked, Keeps
    <2> QED
      BY <2>1, <2>2
  <1>11. e \in Entry /\ e.term = T
    BY <1>2 DEF NoCommand, Entry, RawOK
  <1> HIDE DEF e
  <1>12. /\ RawOK(r) /\ r.role = "leader" /\ r.log = Append(l, e) /\ r.term = T
         /\ r.vote = raw[m].vote /\ r.commit = raw[m].commit /\ r.stable = raw[m].stable
         /\ r.applied = raw[m].applied
    <2>1. r = [raw[m] EXCEPT !.role = "leader", !.log = Append(l, e)]
      BY DEF Lead, e
    <2> HIDE DEF r
    <2>2. /\ r.role = "leader" /\ r.log = Append(l, e) /\ r.term = T /\ r.vote = raw[m].vote
          /\ r.commit = raw[m].commit /\ r.stable = raw[m].stable /\ r.applied = raw[m].applied
          /\ r.restored = raw[m].restored /\ DOMAIN r = DOMAIN raw[m]
      BY <1>2, <2>1 DEF RawOK
    <2>3. l \in Seq(Entry)
      BY <1>2 DEF RawOK
    <2>4. Append(l, e) \in Seq(Entry) /\ Len(Append(l, e)) = Len(l) + 1
      BY <1>11, <2>3, OneMore
    <2> QED
      BY <1>2, <2>2, <2>4 DEF RawOK
  <1>13. on_ready(m, r, {}, calls)
    BY <1>0
  <1> HIDE DEF r
  <1>14. Good(disk, SentUnpersisted(m, r, {}), C, L)
    <2> DEFINE a == [type |-> "append", from |-> m, term |-> r.term, log |-> r.log,
                     commit |-> r.commit, snap |-> disk[m].snap]
    <2>1. SentUnpersisted(m, r, {}) = net \cup {a}
      BY <1>12 DEF SentUnpersisted, bcast_append
    <2>2. /\ a.type = "append" /\ a.from = m /\ a.term = r.term /\ a.log = r.log
          /\ a.commit = r.commit /\ a.snap = disk[m].snap
      OBVIOUS
    <2> HIDE DEF a
    <2>3. /\ C \in SUBSET Members /\ L \in SUBSET Members /\ m \notin C \cup L
      BY DEF Others
    <2>4. l \in Seq(Entry) /\ Sent(net, l) /\ \A i \in 1 .. Len(l) : l[i].term <= e.term
      <3>1. l \in Seq(Entry) /\ Sent(net, l) /\ T \in Nat
        BY <1>2 DEF RawOK
      <3>2. \A i \in 1 .. Len(l) : l[i].term \in Nat
        <4>1. \A i \in 1 .. Len(l) : l[i] \in Entry
          BY <3>1
        <4> QED
          BY <4>1 DEF Entry
      <3> QED
        BY <1>8, <1>11, <3>1, <3>2
    <2>5. /\ a.term = e.term /\ a.log = Append(l, e) /\ a.snap \in Nat /\ a.commit \in Nat
          /\ IsCommitted(net, l, a.commit)
      BY <1>2, <1>11, <1>12, <2>2 DEF RawOK, DiskOK
    <2>6. /\ Quorum(Voters(net, m, e.term))
          /\ \E p \in net : p.type = "request" /\ p.from = m /\ p.term = e.term
      BY <1>0, <1>5, <1>11 DEF V
    <2>7. \A b \in Appends(net) : b.term = e.term =>
              b.from = m /\ Len(b.log) <= Len(l) /\ Shares(b.log, l, Len(b.log))
      BY <1>9, <1>11
    <2>8. \A b \in Appends(net) : \A i : Own(b, i) /\ b.term < e.term => Keeps(disk, net, l, b, i)
      BY <1>10, <1>11
    <2> HIDE DEF C, L, l, T
    <2>9. Good(disk, net \cup {a}, C, L)
      BY <1>2, <1>11, <2>2, <2>3, <2>4, <2>5, <2>6, <2>7, <2>8, NewEntryGoesOut
    <2> QED
      BY <2>1, <2>9
  <1>15. Proper(m, r, {})
    <2>1. /\ l \in Seq(Entry) /\ r.log \in Seq(Entry) /\ Len(r.log) = Len(l) + 1
          /\ Shares(l, r.log, Len(l)) /\ Len(l) \in Nat
      BY <1>2, <1>11, <1>12, OneMore DEF RawOK
    <2>2. r.stable = Len(l) /\ r.stable # Len(r.log) /\ r.commit <= Len(l)
      BY <1>2, <1>12, <2>1
    <2>3. IsCommitted(net, r.log, r.commit)
      <3>1. r.commit \in Nat /\ r.commit <= r.commit /\ IsCommitted(net, l, r.commit)
        BY <1>2, <1>12 DEF RawOK
      <3>2. Shares(l, r.log, r.commit)
        BY <2>1, <2>2, <3>1, SharesFacts
      <3> QED
        BY <1>4, <2>1, <3>1, <3>2, CommittedShared
    <2>4. raw[m].commit <= r.commit /\ Shares(raw[m].log, r.log, r.stable)
      BY <1>2, <1>12, <2>1, <2>2 DEF RawOK
    <2>5. \A b \in Appends(net) : b.term = r.term => Len(b.log) <= Len(r.log)
      BY <1>9, <1>12
    <2> QED
      BY <1>1, <1>12, <1>14, <2>2, <2>3, <2>4, <2>5, LeaderIsProper
  <1>16. RolesOK(m, r, {})
    BY <1>9, <1>12 DEF RolesOK
  <1>17. LogFrom(m, r, calls)
    <2>1. e.cmd = 0
      BY DEF e, NoCommand
    <2> QED
      BY <1>2, <1>11, <1>12, <2>1 DEF LogFrom
  <1>18. PassOK(m, r, {}, calls)
    BY <1>2, <1>12, <1>13, <1>14, <1>15, <1>16, <1>17 DEF PassOK
  <1> QED
    BY <1>18

(* A leader takes a request from its channel, and appends the command.       *)
LEMMA ProposePass ==
    ASSUME LogsInv, NEW m \in Members, NEW c \in DOMAIN calls, handle_propose(m, c),
           raw[m].role = "leader"
    PROVE  \E r, out, cs : PassOK(m, r, out, cs)
  <1> DEFINE T == raw[m].term
             l == raw[m].log
             e == [term |-> T, id |-> calls[c].id, cmd |-> c]
             r == [raw[m] EXCEPT !.log = Append(@, e)]
             cs == [calls EXCEPT ![c].queued = FALSE]
             C == Others(m, "candidate")
             L == Others(m, "leader")
  <1>0. Up(m) /\ calls[c].queued /\ on_ready(m, r, {}, cs)
    BY DEF handle_propose
  <1>1. Runs(m)
    BY <1>0, WhatRuns
  <1>2. /\ RawOK(raw[m]) /\ raw[m].stable = Len(raw[m].log) /\ raw[m].commit <= Len(raw[m].log)
        /\ raw[m].log = disk[m].log /\ raw[m].term = disk[m].term /\ raw[m].vote = disk[m].vote
        /\ raw[m].commit = disk[m].commit /\ Good(disk, net, C, L) /\ DiskOK(disk[m])
        /\ CallsFrom(calls) /\ LeaderOK(disk, net, m)
        /\ Sent(net, disk[m].log) /\ IsCommitted(net, disk[m].log, disk[m].commit)
    BY <1>1 DEF Runs
  <1>4. /\ AppendsOK(net) /\ Chain(net) /\ LaterLeaders(disk, net)
    BY <1>2 DEF Good, LogInv
  <1>5. PICK d \in Appends(net) : d.from = m /\ d.term = T /\ d.log = l
    BY <1>2 DEF LeaderOK
  <1>6. /\ l \in Seq(Entry) /\ Len(l) \in Nat /\ T \in Nat /\ Rising(l) /\ l # <<>> /\ l[Len(l)].term = T
        /\ Quorum(Voters(net, m, T))
        /\ \E q \in net : q.type = "request" /\ q.from = m /\ q.term = T
    BY <1>2, <1>4, <1>5 DEF AppendsOK, AppendOK, RawOK
  <1>7. \A i \in 1 .. Len(l) : l[i].term <= T
    BY <1>6 DEF Rising
  <1>8. \A b \in Appends(net) : b.term = T =>
              b.from = m /\ Len(b.log) <= Len(l) /\ Shares(b.log, l, Len(b.log))
    <2> SUFFICES ASSUME NEW b \in Appends(net), b.term = T
                 PROVE  b.from = m /\ Len(b.log) <= Len(l) /\ Shares(b.log, l, Len(b.log))
      OBVIOUS
    <2>1. Len(b.log) <= Len(l)
      BY <1>2 DEF LeaderOK
    <2> QED
      BY <1>4, <1>5, <2>1 DEF Chain
  <1>9. \A b \in Appends(net) : \A i : Own(b, i) /\ b.term < T => Keeps(disk, net, l, b, i)
    BY <1>4, <1>5 DEF LaterLeaders
  <1>10. CallsFrom(cs) /\ ~cs[c].queued /\ c \in Nat /\ calls[c].id \in Nat
    <2>1. /\ IsSeq(calls) /\ \A b \in DOMAIN calls : CallOK(calls[b])
      BY <1>2 DEF CallsFrom, CallsOK
    <2>2. PICK S : calls \in Seq(S)
      BY <2>1 DEF IsSeq
    <2>3. DOMAIN calls = 1 .. Len(calls) /\ Len(calls) \in Nat
      BY <2>2
    <2>4. /\ DOMAIN cs = DOMAIN calls /\ cs = [b \in DOMAIN calls |-> cs[b]]
          /\ cs[c] = [calls[c] EXCEPT !.queued = FALSE]
          /\ \A b \in DOMAIN calls : b # c => cs[b] = calls[b]
      <3>1. calls = [b \in DOMAIN calls |-> calls[b]]
        BY <2>2
      <3> QED
        BY <3>1
    <2> HIDE DEF cs
    <2>5. IsSeq(cs)
      BY <2>1, <2>4, SeqOfDomain
    <2>6. /\ CallOK(cs[c]) /\ ~cs[c].queued /\ cs[c].result = calls[c].result
          /\ cs[c].got = calls[c].got
      BY <2>1, <2>4 DEF CallOK
    <2>7. /\ CallsOK(cs)
          /\ \A b \in DOMAIN cs : /\ cs[b].queued => calls[b].queued
                                  /\ cs[b].result = calls[b].result /\ cs[b].got = calls[b].got
      <3>1. ASSUME NEW b \in DOMAIN cs
            PROVE  /\ CallOK(cs[b]) /\ (cs[b].queued => calls[b].queued)
                   /\ cs[b].result = calls[b].result /\ cs[b].got = calls[b].got
        BY <2>1, <2>4, <2>6
      <3> QED
        BY <2>5, <3>1 DEF CallsOK
    <2> QED
      BY <2>1, <2>3, <2>4, <2>6, <2>7 DEF CallsFrom, CallOK
  <1>11. e \in Entry /\ e.term = T /\ e.cmd = c
    BY <1>6, <1>10 DEF Entry
  <1>c. on_ready(m, r, {}, cs) /\ r = [raw[m] EXCEPT !.log = Append(l, e)]
    BY <1>0
  <1> HIDE DEF e, cs, r
  <1>12. /\ RawOK(r) /\ r.role = "leader" /\ r.log = Append(l, e) /\ r.term = T
         /\ r.vote = raw[m].vote /\ r.commit = raw[m].commit /\ r.stable = raw[m].stable
         /\ r.applied = raw[m].applied
    <2>2. /\ r.role = "leader" /\ r.log = Append(l, e) /\ r.term = T /\ r.vote = raw[m].vote
          /\ r.commit = raw[m].commit /\ r.stable = raw[m].stable /\ r.applied = raw[m].applied
          /\ r.restored = raw[m].restored /\ DOMAIN r = DOMAIN raw[m]
      BY <1>2, <1>c DEF RawOK
    <2>4. Append(l, e) \in Seq(Entry) /\ Len(Append(l, e)) = Len(l) + 1
      BY <1>6, <1>11, OneMore
    <2> QED
      BY <1>2, <2>2, <2>4 DEF RawOK
  <1>14. Good(disk, SentUnpersisted(m, r, {}), C, L)
    <2> DEFINE a == [type |-> "append", from |-> m, term |-> r.term, log |-> r.log,
                     commit |-> r.commit, snap |-> disk[m].snap]
    <2>1. SentUnpersisted(m, r, {}) = net \cup {a}
      BY <1>12 DEF SentUnpersisted, bcast_append
    <2>2. /\ a.type = "append" /\ a.from = m /\ a.term = r.term /\ a.log = r.log
          /\ a.commit = r.commit /\ a.snap = disk[m].snap
      OBVIOUS
    <2> HIDE DEF a
    <2>3. /\ C \in SUBSET Members /\ L \in SUBSET Members /\ m \notin C \cup L
      BY DEF Others
    <2>4. l \in Seq(Entry) /\ Sent(net, l) /\ \A i \in 1 .. Len(l) : l[i].term <= e.term
      BY <1>2, <1>6, <1>7, <1>11
    <2>5. /\ a.term = e.term /\ a.log = Append(l, e) /\ a.snap \in Nat /\ a.commit \in Nat
          /\ IsCommitted(net, l, a.commit)
      BY <1>2, <1>11, <1>12, <2>2 DEF RawOK, DiskOK
    <2>6. /\ Quorum(Voters(net, m, e.term))
          /\ \E p \in net : p.type = "request" /\ p.from = m /\ p.term = e.term
      BY <1>6, <1>11
    <2>7. \A b \in Appends(net) : b.term = e.term =>
              b.from = m /\ Len(b.log) <= Len(l) /\ Shares(b.log, l, Len(b.log))
      BY <1>8, <1>11
    <2>8. \A b \in Appends(net) : \A i : Own(b, i) /\ b.term < e.term => Keeps(disk, net, l, b, i)
      BY <1>9, <1>11
    <2> HIDE DEF C, L, l, T
    <2>9. Good(disk, net \cup {a}, C, L)
      BY <1>2, <1>11, <2>2, <2>3, <2>4, <2>5, <2>6, <2>7, <2>8, NewEntryGoesOut
    <2> QED
      BY <2>1, <2>9
  <1>b. /\ r.log \in Seq(Entry) /\ Len(r.log) = Len(l) + 1
        /\ Shares(l, r.log, Len(l)) /\ Len(l) \in Nat
    BY <1>6, <1>11, <1>12, OneMore
  <1>p. \A b \in Appends(net) : b.term = r.term => Len(b.log) <= Len(r.log)
    <2> SUFFICES ASSUME NEW b \in Appends(net), b.term = r.term PROVE Len(b.log) <= Len(r.log)
      OBVIOUS
    <2>1. Len(b.log) \in Nat
      BY <1>4 DEF AppendsOK, AppendOK
    <2>2. Len(b.log) <= Len(l)
      BY <1>8, <1>12
    <2> QED
      BY <1>b, <2>1, <2>2
  <1>15. Proper(m, r, {})
    <2>2. r.stable = Len(l) /\ r.stable # Len(r.log) /\ r.commit <= Len(l)
      BY <1>2, <1>12, <1>b
    <2>3. IsCommitted(net, r.log, r.commit)
      <3>1. r.commit \in Nat /\ r.commit <= r.commit /\ IsCommitted(net, l, r.commit)
        BY <1>2, <1>12 DEF RawOK
      <3>2. Shares(l, r.log, r.commit)
        BY <1>6, <1>b, <2>2, <3>1, SharesFacts
      <3> QED
        BY <1>4, <1>6, <1>b, <3>1, <3>2, CommittedShared
    <2>4. raw[m].commit <= r.commit /\ Shares(raw[m].log, r.log, r.stable)
      BY <1>2, <1>12, <1>b, <2>2 DEF RawOK
    <2> QED
      BY <1>1, <1>12, <1>14, <1>p, <2>2, <2>3, <2>4, LeaderIsProper
  <1>16. RolesOK(m, r, {})
    BY <1>12, <1>p DEF RolesOK
  <1>17. LogFrom(m, r, cs)
    BY <1>0, <1>2, <1>10, <1>11, <1>12 DEF LogFrom
  <1>18. PassOK(m, r, {}, cs)
    BY <1>10, <1>14, <1>15, <1>16, <1>17, <1>c DEF PassOK
  <1> QED
    BY <1>18

(* What a pass leaves behind, however it ended, k being the last entry it    *)
(* applied.                                                                  *)
PassLeaves(m, r, out, cs, k) ==
    /\ Functions'
    /\ \A n \in Members \ {m} :
          /\ disk'[n] = disk[n] /\ raw'[n] = raw[n] /\ status'[n] = status[n]
          /\ store'[n] = store[n] /\ cached'[n] = cached[n]
    /\ cached'[m] \in {cached[m], NoSnapshot}
    /\ r.applied <= k
    /\ TellsOnly(cs, calls', r.log, r.applied, k)
    /\ store'[m] \in Left(store[m] \cup Commands(r.log, r.applied, k))
    /\ Up(m)' => store'[m] = store[m] \cup Commands(r.log, r.applied, k)
    /\ Good(disk', net', Others(m, "candidate"), Others(m, "leader"))
    /\ IsCommitted(net', r.log, k)
    /\ HasLog(disk'[m]) /\ disk'[m].snap = disk[m].snap /\ Shares(disk'[m].log, r.log, k)
    /\ net \subseteq net' /\ Said(net') \subseteq Said(net \cup out)
    /\ \A a \in Appends(net') : a \in net \/ a.log = r.log
    /\ \/ Said(net') = Said(net) /\ SameVote(disk'[m], disk[m])
       \/ SameVote(disk'[m], r)
    /\ Up(m)' =>
          /\ disk' = On(m, WithCommit(m, r, out)) /\ net' = AllSent(m, r, out)
          /\ k = Finished(m, r, out).commit
          /\ raw'[m] = [Finished(m, r, out) EXCEPT !.applied = k]

WellSaid(m, r, out) ==
    /\ net \subseteq SentUnpersisted(m, r, out)
    /\ SentUnpersisted(m, r, out) \subseteq Spoken(m, r, out)
    /\ Spoken(m, r, out) \subseteq AllSent(m, r, out)
    /\ Said(SentUnpersisted(m, r, out)) = Said(net)
    /\ Said(Spoken(m, r, out)) \subseteq Said(net \cup out)
    /\ Said(AllSent(m, r, out)) \subseteq Said(net \cup out)
    /\ \A a \in Appends(AllSent(m, r, out)) : a \in net \/ (a.log = r.log /\ a.term = r.term)

LastsTill(m, r, out) == Finished(m, r, out).log = r.log /\ Finished(m, r, out).term = r.term

(* What goes out, and when.                                                  *)
LEMMA WhatIsSent ==
    ASSUME NEW m, NEW r, NEW out, \A a \in out : a.type # "append",
           LastsTill(m, r, out)
    PROVE  WellSaid(m, r, out)
  <1> DEFINE q == Finished(m, r, out)
  <1>1. \A s : \A a \in bcast_append(m, s) : a.type = "append" /\ a.log = s.log /\ a.term = s.term
    BY DEF bcast_append
  <1>2. \A a \in persisted_messages(m, r, out) : a \in out \/ a.type = "ack"
    BY DEF persisted_messages, Ack
  <1>3. /\ SentUnpersisted(m, r, out) = net \cup bcast_append(m, r)
        /\ Spoken(m, r, out) = SentUnpersisted(m, r, out) \cup persisted_messages(m, r, out)
        /\ AllSent(m, r, out) = Spoken(m, r, out) \cup bcast_append(m, q)
    BY DEF SentUnpersisted, Spoken, AllSent
  <1> HIDE DEF q
  <1>4. /\ q.log = r.log /\ q.term = r.term
    BY DEF q, LastsTill
  <1>5. \A a \in AllSent(m, r, out) : \/ a \in net \/ a \in out \/ a.type = "ack"
                                      \/ a.type = "append" /\ a.log = r.log /\ a.term = r.term
    BY <1>1, <1>2, <1>3, <1>4
  <1>6. \A a \in SentUnpersisted(m, r, out) : a \in net \/ a.type = "append"
    BY <1>1, <1>3
  <1> QED
    BY <1>3, <1>5, <1>6 DEF Said, Appends, WellSaid

(* A pass that raft may ask for leaves all well with the logs.               *)
LEMMA PassEnds ==
    ASSUME LogsInv, NEW m \in Members, Up(m), NEW r, NEW out, NEW cs, PassOK(m, r, out, cs)
    PROVE  \E k \in Nat : PassLeaves(m, r, out, cs, k)
  <1> DEFINE C == Others(m, "candidate")
             L == Others(m, "leader")
             N1 == SentUnpersisted(m, r, out)
             N2 == Spoken(m, r, out)
             N4 == AllSent(m, r, out)
             q == Finished(m, r, out)
             d2 == WithLog(m, r)
             d3 == WithState(m, r)
             d4 == WithCommit(m, r, out)
  <1>1. /\ Proper(m, r, out) /\ Good(disk, N1, C, L) /\ CallsOK(cs) /\ on_ready(m, r, out, cs)
    BY DEF PassOK, CallsFrom
  <1>2. /\ RawOK(r) /\ Shares(disk[m].log, r.log, r.stable) /\ (r.stable = Len(r.log) => disk[m].log = r.log)
        /\ MaySay(r, N1, m, out)
    BY <1>1 DEF Proper
  <1>3. Functions /\ DOMAIN disk = Members /\ HasLog(disk[m]) /\ DiskOK(disk[m])
    BY DEF LogsInv, Functions, LogInv
  <1>4. C \in SUBSET (Members \ {m}) /\ L \in SUBSET (Members \ {m})
    BY DEF Others
  <1>5. /\ d2.log = r.log /\ d2.snap = disk[m].snap /\ d2.term = disk[m].term
        /\ d2.vote = disk[m].vote /\ HasLog(d2)
        /\ d3.log = r.log /\ d3.snap = disk[m].snap /\ d3.term = r.term
        /\ d3.vote = r.vote /\ HasLog(d3)
        /\ d4.log = r.log /\ d4.snap = disk[m].snap /\ d4.term = r.term
        /\ d4.vote = r.vote /\ HasLog(d4)
    BY <1>2, <1>3, StagesWrite
  <1>6. q.log = r.log /\ q.term = r.term /\ q.commit \in Nat /\ r.commit <= q.commit
    BY <1>2, <1>3, StagesWrite
  <1> HIDE DEF C, L, N1, N2, N4, q, d2, d3, d4
  <1>7. /\ Good(On(m, d2), N1, C, L) /\ Good(On(m, d3), N1, C, L) /\ Good(On(m, d3), N2, C, L)
        /\ Good(On(m, d4), N4, C, L)
        /\ IsCommitted(N1, r.log, r.commit) /\ IsCommitted(N4, r.log, q.commit)
    BY <1>1, <1>3, <1>4, StagesAreGood DEF N1, N2, N4, q, d2, d3, d4
  <1>8. Good(On(m, disk[m]), N1, C, L)
    BY <1>1, <1>3, <1>4, UnwrittenIsGood
  <1>9. /\ net \subseteq N1 /\ N1 \subseteq N2 /\ N2 \subseteq N4
        /\ Said(N1) = Said(net) /\ Said(N2) \subseteq Said(net \cup out)
        /\ Said(N4) \subseteq Said(net \cup out)
        /\ \A a \in Appends(N4) : a \in net \/ a.log = r.log
    <2>1. \A a \in out : a.type # "append"
      BY <1>2 DEF MaySay
    <2>2. LastsTill(m, r, out)
      BY <1>6 DEF q, LastsTill
    <2>3. WellSaid(m, r, out)
      BY ONLY <2>1, <2>2, WhatIsSent
    <2> QED
      BY <2>3 DEF N1, N2, N4, WellSaid
  <1>10. /\ r.log \in Seq(Entry) /\ r.commit \in Nat /\ Len(r.log) \in Nat /\ r.stable \in Nat
         /\ r.stable <= Len(r.log) /\ disk[m].log \in Seq(Entry)
         /\ r.commit <= Len(r.log) /\ q.commit <= Len(r.log)
    <2>1. r.log \in Seq(Entry) /\ r.commit \in Nat /\ Len(r.log) \in Nat /\ r.stable \in Nat
          /\ r.stable <= Len(r.log) /\ disk[m].log \in Seq(Entry)
      BY <1>2, <1>3 DEF RawOK, DiskOK
    <2> QED
      BY <1>6, <1>7, <2>1, CommittedIsThere
  <1>11. Outcome(m, r, out, cs)
    BY <1>1, <1>2, <1>3, <1>6, <1>10, OnReadyOutcome DEF q
  <1>12. PICK k \in Nat :
          /\ r.applied <= k
          /\ TellsOnly(cs, calls', r.log, r.applied, k)
          /\ store'[m] \in Left(store[m] \cup Commands(r.log, r.applied, k))
          /\ Up(m)' => store'[m] = store[m] \cup Commands(r.log, r.applied, k)
          /\ \/ StoppedAt(m, r, out, disk[m], N1, k)
             \/ StoppedAt(m, r, out, d2, N1, k)
             \/ StoppedAt(m, r, out, d3, N1, k)
             \/ StoppedAt(m, r, out, d3, N2, k)
             \/ CameThrough(m, r, out, k)
    BY <1>11 DEF Outcome, N1, N2, d2, d3
  <1>13. /\ Functions'
         /\ \A n \in Members \ {m} :
               /\ disk'[n] = disk[n] /\ raw'[n] = raw[n] /\ status'[n] = status[n]
               /\ store'[n] = store[n] /\ cached'[n] = cached[n]
         /\ cached'[m] \in {cached[m], NoSnapshot}
    BY <1>11 DEF Outcome
  <1>s. AppendsOK(N1) /\ AppendsOK(N4)
    BY <1>1, <1>7 DEF Good, LogInv
  <1>14. \A d : On(m, d)[m] = d
    BY <1>3 DEF On
  <1>k. \A i \in Nat : i <= Len(r.log) => Shares(r.log, r.log, i)
    BY <1>10, SharesFacts
  <1>l. \A i \in Nat : i <= r.stable => Shares(disk[m].log, r.log, i)
    BY <1>2, <1>10, SharesFacts
  <1>15. CASE CameThrough(m, r, out, k)
    <2>1. /\ disk' = On(m, d4) /\ net' = N4 /\ k <= q.commit
          /\ Up(m)' => k = q.commit /\ raw'[m] = [q EXCEPT !.applied = k]
      BY <1>15 DEF CameThrough, d4, N4, q
    <2>2. IsCommitted(N4, r.log, k)
      <3>1. k <= Len(r.log)
        BY <1>6, <1>10, <2>1
      <3> QED
        BY <1>6, <1>7, <1>10, <1>k, <1>s, <2>1, <3>1, CommittedShared
    <2>3. Shares(d4.log, r.log, k)
      BY <1>5, <1>6, <1>10, <1>k, <2>1
    <2>4. SameVote(d4, r)
      BY <1>5 DEF SameVote
    <2>5. net \subseteq N4
      BY <1>9
    <2>6. disk'[m] = d4
      BY <1>14, <2>1
    <2>7. Good(disk', net', C, L) /\ IsCommitted(net', r.log, k)
      BY <1>7, <2>1, <2>2
    <2>8. /\ HasLog(disk'[m]) /\ disk'[m].snap = disk[m].snap /\ Shares(disk'[m].log, r.log, k)
          /\ net \subseteq net' /\ Said(net') \subseteq Said(net \cup out)
          /\ \A a \in Appends(net') : a \in net \/ a.log = r.log
          /\ SameVote(disk'[m], r)
      BY <1>5, <1>9, <2>1, <2>3, <2>4, <2>5, <2>6
    <2>9. Up(m)' => /\ disk' = On(m, d4) /\ net' = N4 /\ k = q.commit
                    /\ raw'[m] = [q EXCEPT !.applied = k]
      BY <2>1, <2>6
    <2>10. PassLeaves(m, r, out, cs, k)
      BY <1>12, <1>13, <2>7, <2>8, <2>9 DEF PassLeaves, C, L, N4, d4, q
    <2> QED
      BY <2>10
  <1>16. ASSUME NEW d, NEW N, StoppedAt(m, r, out, d, N, k), Good(On(m, d), N, C, L),
                HasLog(d), d.snap = disk[m].snap, Shares(d.log, r.log, k),
                N1 \subseteq N, N \subseteq N4, Said(N) \subseteq Said(net \cup out),
                (Said(N) = Said(net) /\ SameVote(d, disk[m])) \/ SameVote(d, r)
         PROVE  PassLeaves(m, r, out, cs, k)
    <2>1. disk' = On(m, d) /\ net' = N /\ k <= r.commit /\ k <= r.stable /\ ~Up(m)'
      BY <1>16 DEF StoppedAt
    <2>2. IsCommitted(N, r.log, k)
      <3>1. IsCommitted(N1, r.log, k)
        <4>1. k <= Len(r.log)
          BY <1>10, <2>1
        <4> QED
          BY <1>7, <1>10, <1>k, <1>s, <2>1, <4>1, CommittedShared
      <3> QED
        BY <1>16, <3>1, CommittedStays
    <2>3. disk'[m] = d
      BY <1>14, <2>1
    <2>4. Good(disk', net', C, L) /\ IsCommitted(net', r.log, k)
      BY <1>16, <2>1, <2>2
    <2>5. Appends(N) \subseteq Appends(N4)
      BY <1>16 DEF Appends
    <2>6. /\ HasLog(disk'[m]) /\ disk'[m].snap = disk[m].snap /\ Shares(disk'[m].log, r.log, k)
          /\ net \subseteq net' /\ Said(net') \subseteq Said(net \cup out)
          /\ \A a \in Appends(net') : a \in net \/ a.log = r.log
          /\ \/ Said(net') = Said(net) /\ SameVote(disk'[m], disk[m])
             \/ SameVote(disk'[m], r)
      BY <1>9, <1>16, <2>1, <2>3, <2>5
    <2> QED
      BY <1>12, <1>13, <2>1, <2>4, <2>6 DEF PassLeaves, C, L
  <1>17. StoppedAt(m, r, out, disk[m], N1, k) => Shares(disk[m].log, r.log, k)
    BY <1>l DEF StoppedAt
  <1>18. \A d, N : StoppedAt(m, r, out, d, N, k) /\ d.log = r.log => Shares(d.log, r.log, k)
    BY <1>10, <1>k DEF StoppedAt
  <1>19. SameVote(disk[m], disk[m]) /\ SameVote(d2, disk[m]) /\ SameVote(d3, r)
    BY <1>5 DEF SameVote
  <1>20. /\ Said(N1) \subseteq Said(net \cup out) /\ N1 \subseteq N4 /\ N1 \subseteq N1
    BY <1>9 DEF Said
  <1>21. CASE StoppedAt(m, r, out, disk[m], N1, k)
    BY <1>3, <1>8, <1>9, <1>16, <1>17, <1>19, <1>20, <1>21
  <1>22. CASE StoppedAt(m, r, out, d2, N1, k)
    BY <1>5, <1>7, <1>9, <1>16, <1>18, <1>19, <1>20, <1>22
  <1>23. CASE StoppedAt(m, r, out, d3, N1, k)
    BY <1>5, <1>7, <1>9, <1>16, <1>18, <1>19, <1>20, <1>23
  <1>24. CASE StoppedAt(m, r, out, d3, N2, k)
    BY <1>5, <1>7, <1>9, <1>16, <1>18, <1>19, <1>20, <1>24
  <1> QED
    BY <1>12, <1>15, <1>21, <1>22, <1>23, <1>24

(* After a pass, every member that runs goes by what is on its disk.         *)
LEMMA PassKeepsRuns ==
    ASSUME LogsInv, NEW m \in Members, Up(m), NEW r, NEW out, NEW cs, PassOK(m, r, out, cs),
           NEW k \in Nat, PassLeaves(m, r, out, cs, k)
    PROVE  RunsOK'
  <1> DEFINE C == Others(m, "candidate")
             L == Others(m, "leader")
             q == Finished(m, r, out)
             d4 == WithCommit(m, r, out)
  <1>1. /\ RunsOK /\ HasLog(disk[m]) /\ DiskOK(disk[m]) /\ DOMAIN disk = Members
    BY DEF LogsInv, LogInv, Functions
  <1>2. /\ Proper(m, r, out) /\ RolesOK(m, r, out)
    BY DEF PassOK
  <1>3. /\ RawOK(r) /\ Shares(disk[m].log, r.log, r.stable) /\ (r.stable = Len(r.log) => disk[m].log = r.log)
    BY <1>2 DEF Proper
  <1>4. /\ d4.log = r.log /\ d4.term = r.term /\ d4.vote = r.vote /\ d4.commit = q.commit
        /\ q.log = r.log /\ q.term = r.term /\ q.vote = r.vote /\ q.role = r.role
        /\ q.stable = Len(r.log) /\ q.restored = NoSnapshot /\ q.commit \in Nat
        /\ {"role", "term", "vote", "log", "stable", "commit", "restored", "applied"} \subseteq DOMAIN q
    BY <1>1, <1>3, StagesWrite
  <1> HIDE DEF C, L, q, d4
  <1>5. /\ \A n \in Members \ {m} :
              disk'[n] = disk[n] /\ raw'[n] = raw[n] /\ status'[n] = status[n]
        /\ Good(disk', net', C, L)
        /\ \A a \in Appends(net') : a \in net \/ a.log = r.log
        /\ Up(m)' =>
              /\ disk' = On(m, d4) /\ net' = AllSent(m, r, out) /\ k = q.commit
              /\ raw'[m] = [q EXCEPT !.applied = k]
    BY DEF PassLeaves, C, L, q, d4
  <1>6. ASSUME NEW n \in Members \ {m}, Up(n)'
        PROVE  /\ Up(n) /\ raw[n].role = "candidate" => CandidateOK(disk', net', n)
               /\ raw[n].role = "leader" => LeaderOK(disk', net', n)
    BY <1>5, <1>6 DEF Good, C, L, Others, Up
  <1>7. ASSUME Up(m)'
        PROVE  LET s == raw'[m]
                   d == disk'[m]
               IN  /\ {"role", "term", "vote", "log", "stable", "commit", "restored", "applied"}
                         \subseteq DOMAIN s
                   /\ s.log = d.log /\ s.term = d.term /\ s.vote = d.vote
                   /\ s.commit = d.commit /\ s.stable = Len(d.log)
                   /\ s.restored = NoSnapshot /\ s.applied \in 0 .. s.commit
                   /\ s.role \in {"follower", "candidate", "leader"}
                   /\ s.role = "candidate" => CandidateOK(disk', net', m)
                   /\ s.role = "leader" => LeaderOK(disk', net', m)
    <2>1. disk'[m] = d4 /\ raw'[m] = [q EXCEPT !.applied = k] /\ k = q.commit
      BY <1>1, <1>5, <1>7 DEF On
    <2> DEFINE s == raw'[m]
    <2>2. /\ {"role", "term", "vote", "log", "stable", "commit", "restored", "applied"} \subseteq DOMAIN s
          /\ s.log = q.log /\ s.term = q.term /\ s.vote = q.vote /\ s.role = q.role
          /\ s.stable = q.stable /\ s.restored = q.restored /\ s.commit = q.commit
          /\ s.applied = q.commit
      BY <1>4, <2>1
    <2> HIDE DEF s
    <2>3. r.role \in {"follower", "candidate", "leader"}
      BY <1>2 DEF RolesOK
    <2>4. r.role = "candidate" => CandidateOK(disk', net', m)
      BY <1>2, <1>5, <1>7 DEF RolesOK, d4
    <2>5. ASSUME r.role = "leader" PROVE LeaderOK(disk', net', m)
      <3> DEFINE a == [type |-> "append", from |-> m, term |-> q.term, log |-> q.log,
                       commit |-> q.commit, snap |-> disk[m].snap]
      <3>1. a \in AllSent(m, r, out)
        BY <1>4, <2>5 DEF AllSent, bcast_append, q
      <3>2. a.type = "append" /\ a.from = m /\ a.term = q.term /\ a.log = q.log
        OBVIOUS
      <3> HIDE DEF a
      <3>3. a \in Appends(net') /\ a.term = disk'[m].term /\ a.log = disk'[m].log
        BY <1>4, <1>5, <1>7, <2>1, <3>1, <3>2 DEF Appends
      <3>4. Len(r.log) \in Nat
        BY <1>3 DEF RawOK
      <3>5. \A b \in Appends(net') : b.term = disk'[m].term => Len(b.log) <= Len(disk'[m].log)
        <4> SUFFICES ASSUME NEW b \in Appends(net'), b.term = r.term PROVE Len(b.log) <= Len(r.log)
          BY <1>4, <2>1
        <4>1. b \in net => b \in Appends(net)
          BY DEF Appends
        <4> QED
          BY <1>2, <1>5, <2>5, <3>4, <4>1 DEF RolesOK
      <3> QED
        BY <3>2, <3>3, <3>5 DEF LeaderOK
    <2>6. s.applied \in 0 .. s.commit
      BY <1>4, <2>2
    <2>7. s.log = disk'[m].log /\ s.term = disk'[m].term /\ s.vote = disk'[m].vote
          /\ s.commit = disk'[m].commit /\ s.stable = Len(disk'[m].log)
      BY <1>4, <2>1, <2>2
    <2> QED
      BY <1>4, <2>2, <2>3, <2>4, <2>5, <2>6, <2>7 DEF s
  <1>8. ASSUME NEW n \in Members \ {m}, Up(n)'
        PROVE  LET s == raw'[n]
                   d == disk'[n]
               IN  /\ {"role", "term", "vote", "log", "stable", "commit", "restored", "applied"}
                         \subseteq DOMAIN s
                   /\ s.log = d.log /\ s.term = d.term /\ s.vote = d.vote
                   /\ s.commit = d.commit /\ s.stable = Len(d.log)
                   /\ s.restored = NoSnapshot /\ s.applied \in 0 .. s.commit
                   /\ s.role \in {"follower", "candidate", "leader"}
                   /\ s.role = "candidate" => CandidateOK(disk', net', n)
                   /\ s.role = "leader" => LeaderOK(disk', net', n)
    <2>1. raw'[n] = raw[n] /\ disk'[n] = disk[n] /\ status'[n] = status[n]
      BY <1>5
    <2>2. Up(n)
      BY <1>8, <2>1 DEF Up
    <2> QED
      BY <1>1, <1>6, <1>8, <2>1, <2>2 DEF RunsOK
  <1> QED
    BY <1>7, <1>8 DEF RunsOK

(* After a pass, votes and requests still bear each other out.               *)
LEMMA PassKeepsVoices ==
    ASSUME LogsInv, NEW m \in Members, Up(m), NEW r, NEW out, NEW cs, PassOK(m, r, out, cs),
           NEW k \in Nat, PassLeaves(m, r, out, cs, k), ElectionInv'
    PROVE  RequestsKept' /\ VotesAskedFor' /\ OneVoice'
  <1>1. /\ RequestsKept /\ VotesAskedFor /\ OneVoice /\ DiskOK(disk[m]) /\ SaidInTerm(disk, net)
    BY DEF LogsInv, LogInv
  <1>2. /\ Proper(m, r, out) /\ RolesOK(m, r, out)
    BY DEF PassOK
  <1>3. /\ RawOK(r) /\ disk[m].term <= r.term /\ (r.term = disk[m].term => disk[m].vote \in {None, r.vote})
        /\ MaySay(r, SentUnpersisted(m, r, out), m, out)
    BY <1>2 DEF Proper
  <1>4. /\ \A n \in Members \ {m} : disk'[n] = disk[n]
        /\ net \subseteq net' /\ Said(net') \subseteq Said(net \cup out)
        /\ \/ Said(net') = Said(net) /\ SameVote(disk'[m], disk[m])
           \/ SameVote(disk'[m], r)
    BY DEF PassLeaves
  <1>5. /\ r.term \in Nat /\ disk[m].term \in Nat /\ m # None
    BY <1>1, <1>3, MembersAssumption DEF RawOK, DiskOK
  <1>6. \A q \in Requests' : /\ q \in Requests \/ q \in out
                             /\ q.type = "request" /\ q \in Said(net')
    BY <1>4 DEF Requests, Said
  <1>7. \A v \in Votes' : /\ v \in Votes \/ v \in out
                          /\ v.type = "vote" /\ v \in Said(net')
    BY <1>4 DEF Votes, Said
  <1>8. \A q \in out : q.type = "request" => q.from = m /\ q.term = r.term /\ r.vote = m
    BY <1>2, <1>3 DEF MaySay, RolesOK
  <1>9. \A v \in out : v.type = "vote" => v.from = m /\ v.term = r.term
    BY <1>3 DEF MaySay, Ballot
  <1>10. \A q \in Requests : q.from \in Members /\ q.term \in Nat /\ q \in Said(net)
    BY <1>1 DEF Requests, Said, SaidInTerm
  <1>11. \A q \in Requests' : /\ q.term <= disk'[q.from].term
                              /\ q.term = disk'[q.from].term => disk'[q.from].vote = q.from
    <2> SUFFICES ASSUME NEW q \in Requests'
                 PROVE  /\ q.term <= disk'[q.from].term
                        /\ q.term = disk'[q.from].term => disk'[q.from].vote = q.from
      OBVIOUS
    <2>1. CASE q \in Requests
      <3>0. q.term <= disk[q.from].term /\ (q.term = disk[q.from].term => disk[q.from].vote = q.from)
        BY <1>1, <2>1 DEF RequestsKept
      <3>1. CASE q.from # m
        BY <1>4, <1>10, <2>1, <3>0, <3>1
      <3>2. CASE q.from = m /\ SameVote(disk'[m], disk[m])
        BY <3>0, <3>2 DEF SameVote
      <3>3. CASE q.from = m /\ SameVote(disk'[m], r)
        <4>1. q.term <= r.term
          BY <1>3, <1>5, <1>10, <2>1, <3>0, <3>3
        <4>2. q.term = r.term => q.term = disk[m].term /\ r.term = disk[m].term
          BY <1>3, <1>5, <1>10, <2>1, <3>0, <3>3
        <4>3. q.term = r.term => r.vote = m
          BY <1>3, <1>5, <3>0, <3>3, <4>2
        <4> QED
          BY <3>3, <4>1, <4>3 DEF SameVote
      <3> QED
        BY <1>4, <3>1, <3>2, <3>3
    <2>2. CASE q \notin Requests
      <3>1. q \in out /\ q.from = m /\ q.term = r.term /\ r.vote = m
        BY <1>6, <1>8, <2>2
      <3>2. q \notin Said(net)
        BY <1>6, <2>2 DEF Said, Requests
      <3>3. SameVote(disk'[m], r)
        BY <1>4, <1>6, <3>2
      <3> QED
        BY <1>5, <3>1, <3>3 DEF SameVote
    <2> QED
      BY <2>1, <2>2
  <1>12. VotesAskedFor'
    <2> SUFFICES ASSUME NEW v \in Votes'
                 PROVE  \E q \in Requests' : q.from = v.to /\ q.term = v.term
      BY DEF VotesAskedFor
    <2>0. \A q \in Requests : q \in Requests'
      BY <1>4 DEF Requests
    <2>1. CASE v \in Votes
      BY <1>1, <2>0, <2>1 DEF VotesAskedFor
    <2>2. CASE v \in out
      <3>1. PICK q \in SentUnpersisted(m, r, out) :
                q.type = "request" /\ q.from = v.to /\ q.term = v.term
        BY <1>3, <1>7, <2>2 DEF MaySay
      <3>2. q \in net
        BY <3>1 DEF SentUnpersisted, bcast_append
      <3> QED
        BY <2>0, <3>1, <3>2 DEF Requests
    <2> QED
      BY <1>7, <2>1, <2>2
  <1>13. OneVoice'
    <2> SUFFICES ASSUME NEW q \in Requests', NEW v \in Votes', v.from = q.from, v.term = q.term
                 PROVE  v.to = q.from
      BY DEF OneVoice
    <2>1. CASE q \in Requests /\ v \in Votes
      BY <1>1, <2>1 DEF OneVoice
    <2>2. CASE ~(q \in Requests /\ v \in Votes)
      <3>1. SameVote(disk'[m], r)
        <4>1. q \notin Said(net) \/ v \notin Said(net)
          BY <1>6, <1>7, <2>2 DEF Said, Requests, Votes
        <4> QED
          BY <1>4, <1>6, <1>7, <4>1
      <3>2. q.from = m /\ q.term = r.term
        BY <1>6, <1>7, <1>8, <1>9, <2>2
      <3>3. q.term = disk'[m].term
        BY <3>1, <3>2 DEF SameVote
      <3>4. disk'[m].vote = m
        BY <1>11, <3>2, <3>3
      <3>5. v.to = disk'[m].vote
        BY <3>2, <3>3 DEF ElectionInv, VotesKept
      <3> QED
        BY <3>2, <3>4, <3>5
    <2> QED
      BY <2>1, <2>2
  <1> QED
    BY <1>11, <1>12, <1>13 DEF RequestsKept

(* A pass keeps the invariant of the logs.                                   *)
LEMMA PassKeepsLogs ==
    ASSUME LogsInv, NEW m \in Members, Up(m), NEW r, NEW out, NEW cs, PassOK(m, r, out, cs),
           NEW k \in Nat, PassLeaves(m, r, out, cs, k), ElectionInv'
    PROVE  LogsInv'
  <1>1. RunsOK' /\ RequestsKept' /\ VotesAskedFor' /\ OneVoice'
    BY PassKeepsRuns, PassKeepsVoices
  <1>2. Functions' /\ CallsOK(calls')
    BY DEF PassLeaves, TellsOnly
  <1>3. \A n \in Members : HasLog(disk'[n])
    BY DEF PassLeaves, LogsInv
  <1>4. LogInv(disk', net') /\ SaidInTerm(disk', net')
    BY DEF PassLeaves, Good
  <1> QED
    BY <1>1, <1>2, <1>3, <1>4 DEF LogsInv

(* Two disks of which only the commit index and the snapshot differ.         *)
SameButCommit(D, E) ==
    \A n \in Members : E[n].log = D[n].log /\ E[n].term = D[n].term /\ E[n].vote = D[n].vote

(* A commit index may move to what is committed, and nothing else is amiss.  *)
LEMMA CommitMoves ==
    ASSUME NEW D, NEW E, NEW N, LogInv(D, N), SaidInTerm(D, N), SameButCommit(D, E),
           \A n \in Members : DiskOK(E[n]) /\ IsCommitted(N, E[n].log, E[n].commit)
    PROVE  /\ LogInv(E, N) /\ SaidInTerm(E, N)
           /\ \A n \in Members : CandidateOK(D, N, n) => CandidateOK(E, N, n)
           /\ \A n \in Members : LeaderOK(D, N, n) => LeaderOK(E, N, n)
  <1>1. \A n \in Members : E[n].log = D[n].log /\ E[n].term = D[n].term /\ E[n].vote = D[n].vote
    BY DEF SameButCommit
  <1>2. /\ AppendsOK(N) /\ Chain(N) /\ LogsSent(D, N) /\ AcksOK(D, N)
        /\ LaterLeaders(D, N) /\ AckedIsOnDisk(D, N) /\ CommitsOK(D, N)
    BY DEF LogInv
  <1>3. \A term, i : Blocked(D, N, term, i) => Blocked(E, N, term, i)
    <2> SUFFICES ASSUME NEW term, NEW i, Blocked(D, N, term, i) PROVE Blocked(E, N, term, i)
      OBVIOUS
    <2>1. PICK V \in SUBSET Members :
              Quorum(V) /\ \A f \in V : D[f].term > term /\ ~Holds(f, term, i, N)
      BY DEF Blocked
    <2>2. \A f \in V : E[f].term > term /\ ~Holds(f, term, i, N)
      BY <1>1, <2>1
    <2> QED
      BY <2>1, <2>2 DEF Blocked
  <1>4. \A l, b, i : Keeps(D, N, l, b, i) => Keeps(E, N, l, b, i)
    BY <1>3 DEF Keeps
  <1>5. LogsSent(E, N)
    BY <1>1, <1>2 DEF LogsSent
  <1>6. AcksOK(E, N)
    BY <1>1, <1>2 DEF AcksOK
  <1>7. LaterLeaders(E, N)
    BY <1>2, <1>4 DEF LaterLeaders
  <1>8. AckedIsOnDisk(E, N)
    BY <1>1, <1>2, <1>4 DEF AckedIsOnDisk
  <1>9. CommitsOK(E, N)
    BY <1>2 DEF CommitsOK
  <1>10. SaidInTerm(E, N)
    BY <1>1 DEF SaidInTerm
  <1>11. ASSUME NEW n \in Members, CandidateOK(D, N, n) PROVE CandidateOK(E, N, n)
    <2>1. Unelectable(D, N, n, D[n].term) => Unelectable(E, N, n, E[n].term)
      <3> SUFFICES ASSUME Unelectable(D, N, n, D[n].term) PROVE Unelectable(E, N, n, D[n].term)
        BY <1>1
      <3>1. PICK V \in SUBSET Members : Quorum(V) /\ \A f \in V :
                /\ f # n /\ Ballot(f, n, D[n].term) \notin N
                /\ \/ D[f].term > D[n].term
                   \/ D[f].term = D[n].term /\ D[f].vote \notin {None, n}
        BY DEF Unelectable
      <3>2. \A f \in V :
                /\ f # n /\ Ballot(f, n, D[n].term) \notin N
                /\ \/ E[f].term > D[n].term
                   \/ E[f].term = D[n].term /\ E[f].vote \notin {None, n}
        BY <1>1, <3>1
      <3> QED
        BY <3>1, <3>2 DEF Unelectable
    <2> QED
      BY <1>1, <1>4, <1>11, <2>1 DEF CandidateOK
  <1>12. \A n \in Members : LeaderOK(D, N, n) => LeaderOK(E, N, n)
    BY <1>1 DEF LeaderOK
  <1> QED
    BY <1>2, <1>5, <1>6, <1>7, <1>8, <1>9, <1>10, <1>11, <1>12 DEF LogInv

(* What a member starts to run with.                                         *)
StartsWith(s, d) ==
    /\ {"role", "term", "vote", "log", "stable", "commit", "restored", "applied"} \subseteq DOMAIN s
    /\ s.log = d.log /\ s.term = d.term /\ s.vote = d.vote
    /\ s.commit = d.commit /\ s.stable = Len(d.log)
    /\ s.restored = NoSnapshot /\ s.applied \in 0 .. s.commit
    /\ s.role = "follower"

(* Any step that sends nothing, and writes neither a log nor a vote.         *)
LEMMA QuietKeepsLogs ==
    ASSUME LogsInv, ElectionInv', Functions', CallsOK(calls'), net' = net,
           SameButCommit(disk, disk'),
           \A n \in Members : HasLog(disk'[n]) /\ DiskOK(disk'[n])
                              /\ IsCommitted(net, disk'[n].log, disk'[n].commit),
           \A n \in Members : Up(n)' =>
              \/ Up(n) /\ raw'[n] = raw[n] /\ disk'[n].commit = disk[n].commit
              \/ StartsWith(raw'[n], disk'[n])
    PROVE  LogsInv'
  <1>1. /\ LogInv(disk, net) /\ SaidInTerm(disk, net) /\ RunsOK /\ RequestsKept
        /\ VotesAskedFor /\ OneVoice
    BY DEF LogsInv
  <1>2. /\ LogInv(disk', net) /\ SaidInTerm(disk', net)
        /\ \A n \in Members : CandidateOK(disk, net, n) => CandidateOK(disk', net, n)
        /\ \A n \in Members : LeaderOK(disk, net, n) => LeaderOK(disk', net, n)
    BY <1>1, CommitMoves
  <1>3. \A n \in Members : disk'[n].log = disk[n].log /\ disk'[n].term = disk[n].term
                           /\ disk'[n].vote = disk[n].vote
    BY DEF SameButCommit
  <1>4. VotesAskedFor' /\ OneVoice'
    BY <1>1 DEF VotesAskedFor, OneVoice, Requests, Votes
  <1>5. RequestsKept'
    <2>1. \A q \in Requests : q.from \in Members
      BY <1>1 DEF Requests, SaidInTerm, Said
    <2> QED
      BY <1>1, <1>3, <2>1 DEF RequestsKept, Requests
  <1>6. ASSUME NEW n \in Members, Up(n)'
        PROVE  LET s == raw'[n]
                   d == disk'[n]
               IN  /\ {"role", "term", "vote", "log", "stable", "commit", "restored", "applied"}
                         \subseteq DOMAIN s
                   /\ s.log = d.log /\ s.term = d.term /\ s.vote = d.vote
                   /\ s.commit = d.commit /\ s.stable = Len(d.log)
                   /\ s.restored = NoSnapshot /\ s.applied \in 0 .. s.commit
                   /\ s.role \in {"follower", "candidate", "leader"}
                   /\ s.role = "candidate" => CandidateOK(disk', net', n)
                   /\ s.role = "leader" => LeaderOK(disk', net', n)
    <2>1. CASE Up(n) /\ raw'[n] = raw[n] /\ disk'[n].commit = disk[n].commit
      BY <1>1, <1>2, <1>3, <2>1 DEF RunsOK
    <2>2. CASE StartsWith(raw'[n], disk'[n])
      BY <2>2 DEF StartsWith
    <2> QED
      BY <1>6, <2>1, <2>2
  <1>7. RunsOK'
    BY <1>6 DEF RunsOK
  <1> QED
    BY <1>2, <1>4, <1>5, <1>7 DEF LogsInv

(* A store has applied nothing but the first c entries of its log, which are *)
(* committed.                                                                *)
StoredTo(m, c) ==
    /\ IsCommitted(net, disk[m].log, c)
    /\ store[m] \subseteq Commands(disk[m].log, 0, c)
    /\ Up(m) => c = raw[m].applied

StoreIn == \A m \in Members : \E c \in Nat : StoredTo(m, c)

(* Logs that share entries share their commands.                             *)
LEMMA CommandsShare ==
    ASSUME NEW l, NEW k, NEW n \in Nat, Shares(l, k, n), NEW c \in Nat, c <= n
    PROVE  Commands(l, 0, c) = Commands(k, 0, c)
  <1>1. \A h \in 1 .. c : l[h] = k[h]
    BY DEF Shares
  <1>2. {h \in 0 + 1 .. c : l[h].cmd # 0} = {h \in 0 + 1 .. c : k[h].cmd # 0}
    BY <1>1
  <1>3. \A h \in 0 + 1 .. c : [index |-> h, cmd |-> l[h].cmd] = [index |-> h, cmd |-> k[h].cmd]
    BY <1>1
  <1> QED
    BY <1>2, <1>3 DEF Commands

(* What a set of commands of a log is made of.                               *)
LEMMA CommandsAre ==
    ASSUME NEW l, NEW i \in Nat, NEW j \in Nat
    PROVE  \A e : e \in Commands(l, i, j) <=>
              \E h \in i + 1 .. j : l[h].cmd # 0 /\ e = [index |-> h, cmd |-> l[h].cmd]
  BY DEF Commands

(* A longer part of a log has more commands, and two parts that meet make    *)
(* one.                                                                      *)
LEMMA CommandsMeet ==
    ASSUME NEW l, NEW i \in Nat, NEW j \in Nat, i <= j
    PROVE  /\ Commands(l, 0, i) \subseteq Commands(l, 0, j)
           /\ Commands(l, 0, j) = Commands(l, 0, i) \cup Commands(l, i, j)
  <1>1. 0 + 1 .. j = (0 + 1 .. i) \cup (i + 1 .. j)
    OBVIOUS
  <1>2. \A e : e \in Commands(l, 0, j) <=> e \in Commands(l, 0, i) \/ e \in Commands(l, i, j)
    BY <1>1 DEF Commands
  <1> QED
    BY <1>2

(* How far a store is, by its own account.                                   *)
LEMMA AppliedIndexIs ==
    ASSUME NEW l, NEW c \in Nat, NEW s, s \subseteq Commands(l, 0, c)
    PROVE  /\ applied_index(s) \in Nat /\ applied_index(s) <= c
           /\ \A e \in s : e.index \in Nat /\ e.index <= applied_index(s)
           /\ applied_index(s) = 0 \/ \E e \in s : e.index = applied_index(s)
           /\ s \subseteq Commands(l, 0, applied_index(s))
  <1> DEFINE T == {0} \cup {e.index : e \in s}
             a == applied_index(s)
  <1>1. \A e \in s : \E h \in 1 .. c : l[h].cmd # 0 /\ e = [index |-> h, cmd |-> l[h].cmd]
    BY DEF Commands
  <1>2. \A e \in s : e.index \in Nat /\ e.index <= c
    BY <1>1
  <1>3. T \subseteq Nat /\ T # {} /\ \A y \in T : y <= c
    BY <1>2
  <1>4. a = Max(T)
    BY DEF applied_index
  <1>5. Max(T) \in T /\ \A y \in T : Max(T) >= y
    <2> HIDE DEF T
    <2> QED
      BY <1>3, MaxIsGreatest
  <1>6. a \in T /\ \A y \in T : a >= y
    BY <1>4, <1>5
  <1> HIDE DEF a
  <1>7. a \in Nat /\ a <= c /\ (a = 0 \/ \E e \in s : e.index = a)
    BY <1>3, <1>6
  <1>8. \A e \in s : e.index \in Nat /\ e.index <= a
    BY <1>2, <1>6, <1>7
  <1>9. s \subseteq Commands(l, 0, a)
    <2> SUFFICES ASSUME NEW e \in s PROVE e \in Commands(l, 0, a)
      OBVIOUS
    <2>1. PICK h \in 1 .. c : l[h].cmd # 0 /\ e = [index |-> h, cmd |-> l[h].cmd]
      BY <1>1
    <2>2. h \in 0 + 1 .. a
      BY <1>7, <1>8, <2>1
    <2> QED
      BY <1>7, <2>1, <2>2, CommandsAre
  <1> QED
    BY <1>7, <1>8, <1>9 DEF a

(* A pass applies what is committed, and tells of nothing else.              *)
LEMMA PassKeepsStores ==
    ASSUME LogsInv, StoreIn, NEW m \in Members, Up(m), NEW r, NEW out, NEW cs, PassOK(m, r, out, cs),
           NEW k \in Nat, PassLeaves(m, r, out, cs, k)
    PROVE  StoreIn'
  <1>1. /\ RawOK(r) /\ Shares(disk[m].log, r.log, r.stable) /\ r.applied = raw[m].applied
    BY DEF PassOK, Proper
  <1>2. /\ \A n \in Members \ {m} :
              disk'[n] = disk[n] /\ raw'[n] = raw[n] /\ status'[n] = status[n] /\ store'[n] = store[n]
        /\ r.applied <= k
        /\ store'[m] \in Left(store[m] \cup Commands(r.log, r.applied, k))
        /\ IsCommitted(net', r.log, k) /\ Shares(disk'[m].log, r.log, k) /\ net \subseteq net'
        /\ Good(disk', net', Others(m, "candidate"), Others(m, "leader"))
        /\ Up(m)' => raw'[m] = [Finished(m, r, out) EXCEPT !.applied = k]
    BY DEF PassLeaves
  <1>3. ASSUME NEW n \in Members \ {m} PROVE \E c \in Nat : StoredTo(n, c)'
    <2>1. PICK c \in Nat : StoredTo(n, c)
      BY DEF StoreIn
    <2>2. IsCommitted(net', disk[n].log, c)
      BY <1>2, <2>1, CommittedStays DEF StoredTo
    <2>3. StoredTo(n, c)'
      BY <1>2, <2>1, <2>2 DEF StoredTo, Up
    <2> QED
      BY <2>3
  <1>4. StoredTo(m, k)'
    <2>0. r.log \in Seq(Entry) /\ disk'[m].log \in Seq(Entry) /\ AppendsOK(net')
          /\ r.applied \in Nat /\ r.applied <= r.stable /\ r.stable \in Nat
      BY <1>1, <1>2 DEF RawOK, Good, LogInv, DiskOK
    <2>1. IsCommitted(net', disk'[m].log, k)
      <3>1. Shares(r.log, disk'[m].log, k)
        BY <1>2 DEF Shares
      <3> QED
        BY <1>2, <2>0, <3>1, CommittedShared
    <2>2. store[m] \subseteq Commands(r.log, 0, r.applied)
      <3>1. PICK c \in Nat : StoredTo(m, c)
        BY DEF StoreIn
      <3>2. c = r.applied /\ store[m] \subseteq Commands(disk[m].log, 0, r.applied)
        BY <1>1, <3>1 DEF StoredTo
      <3>3. Commands(disk[m].log, 0, r.applied) = Commands(r.log, 0, r.applied)
        BY <1>1, <2>0, CommandsShare
      <3> QED
        BY <3>2, <3>3
    <2>3. store[m] \cup Commands(r.log, r.applied, k) \subseteq Commands(r.log, 0, k)
      <3>1. Commands(r.log, 0, k) = Commands(r.log, 0, r.applied) \cup Commands(r.log, r.applied, k)
        BY <1>2, <2>0, CommandsMeet
      <3> QED
        BY <2>2, <3>1
    <2>4. Commands(r.log, 0, k) = Commands(disk'[m].log, 0, k)
      BY <1>2, CommandsShare
    <2>5. store'[m] \subseteq Commands(disk'[m].log, 0, k)
      <3>1. \A s : \A t \in Left(s) : t \subseteq s
        BY DEF Left
      <3> QED
        BY <1>2, <2>3, <2>4, <3>1
    <2>6. Up(m)' => k = raw'[m].applied
      <3>1. HasLog(disk[m]) /\ DiskOK(disk[m]) /\ (r.stable = Len(r.log) => disk[m].log = r.log)
        BY DEF LogsInv, LogInv, PassOK, Proper
      <3>2. "applied" \in DOMAIN Finished(m, r, out)
        BY <1>1, <3>1, StagesWrite
      <3> QED
        BY <1>2, <3>2
    <2> QED
      BY <2>1, <2>5, <2>6 DEF StoredTo
  <1> QED
    BY <1>3, <1>4 DEF StoreIn
(* A caller told Ok in a pass is told of what a quorum holds.                *)
LEMMA PassTellsOk ==
    ASSUME LogsInv, OkIsChosen, NEW m \in Members, Up(m), NEW r, NEW out, NEW cs,
           PassOK(m, r, out, cs), NEW k \in Nat, PassLeaves(m, r, out, cs, k)
    PROVE  OkIsChosen'
  <1>1. /\ r.log \in Seq(Entry) /\ r.applied \in Nat
        /\ \A c \in DOMAIN cs : /\ cs[c].result = calls[c].result /\ cs[c].got = calls[c].got
        /\ DOMAIN cs = DOMAIN calls
    BY DEF PassOK, Proper, RawOK, CallsFrom
  <1>2. TellsOnly(cs, calls', r.log, r.applied, k) /\ IsCommitted(net', r.log, k) /\ net \subseteq net'
    BY DEF PassLeaves
  <1> SUFFICES ASSUME NEW c \in DOMAIN calls', calls'[c].result = "ok"
               PROVE  \E b \in Appends(net') : \E i : Chosen(net', b, i) /\
                          \E j \in 1 .. i : b.log[j].cmd = calls'[c].got
    BY DEF OkIsChosen
  <1>3. c \in DOMAIN cs /\ c \in DOMAIN calls
    BY <1>1, <1>2 DEF TellsOnly
  <1>4. CASE cs[c].result = "ok" /\ calls'[c].got = cs[c].got
    <2>1. PICK b \in Appends(net) : \E i : Chosen(net, b, i) /\ \E j \in 1 .. i : b.log[j].cmd = calls[c].got
      BY <1>1, <1>3, <1>4 DEF OkIsChosen
    <2>2. PICK i : Chosen(net, b, i) /\ \E j \in 1 .. i : b.log[j].cmd = calls[c].got
      BY <2>1
    <2>3. b \in Appends(net') /\ Chosen(net', b, i)
      BY <1>2, <2>2, ChosenStays DEF Appends
    <2> QED
      BY <1>1, <1>3, <1>4, <2>2, <2>3
  <1>5. CASE \E j \in r.applied + 1 .. k : calls'[c].got = r.log[j].cmd
    <2>1. PICK j \in r.applied + 1 .. k : calls'[c].got = r.log[j].cmd
      BY <1>5
    <2>2. j \in 1 .. k /\ k # 0
      BY <1>1, <2>1
    <2>3. PICK b \in Appends(net') : \E i : Chosen(net', b, i) /\ k <= i /\ Shares(r.log, b.log, k)
      BY <1>2, <2>2 DEF IsCommitted
    <2>4. PICK i : Chosen(net', b, i) /\ k <= i /\ Shares(r.log, b.log, k)
      BY <2>3
    <2>5. b.log[j] = r.log[j]
      BY <2>2, <2>4 DEF Shares
    <2>6. i \in Int
      BY <2>4 DEF Chosen, Own
    <2>7. j \in 1 .. i
      BY <2>2, <2>4, <2>6
    <2> QED
      BY <2>1, <2>4, <2>5, <2>7
  <1> QED
    BY <1>2, <1>4, <1>5 DEF TellsOnly

(* Without new answers, nothing changes for those told Ok.                   *)
LEMMA NobodyElseIsTold ==
    ASSUME OkIsChosen, net' = net, DOMAIN calls \subseteq DOMAIN calls',
           \A c \in DOMAIN calls' : calls'[c].result = "ok" =>
              c \in DOMAIN calls /\ calls[c].result = "ok" /\ calls'[c].got = calls[c].got
    PROVE  OkIsChosen'
  BY DEF OkIsChosen

(* The ids that callers are given are numbers.                               *)
NextIds == DOMAIN next_id = Members /\ \A m \in Members : next_id[m] \in Nat

(* What OkResultIsDurable rests on.                                          *)
DurableInv == LogsInv /\ NextIds /\ StoreIn /\ OkIsChosen

(* A pass leaves the counters of proposals.                                  *)
LEMMA PassesKeepIds ==
    ASSUME NextIds, NEW m \in Members, NEW r, NEW out, NEW cs, on_ready(m, r, out, cs)
    PROVE  NextIds'
  <1>1. next_id' = next_id \/ next_id' = [next_id EXCEPT ![m] = 0]
    BY DEF on_ready, Die
  <1> QED
    BY <1>1 DEF NextIds

(* A step in which no store gains and no log is written.                     *)
LEMMA QuietKeepsStores ==
    ASSUME StoreIn, net' = net, SameButCommit(disk, disk'),
           \A n \in Members : store'[n] \subseteq store[n],
           \A n \in Members : Up(n)' =>
              \/ Up(n) /\ raw'[n].applied = raw[n].applied
              \/ /\ raw'[n].applied \in Nat
                 /\ IsCommitted(net, disk[n].log, raw'[n].applied)
                 /\ store[n] \subseteq Commands(disk[n].log, 0, raw'[n].applied)
    PROVE  StoreIn'
  <1> SUFFICES ASSUME NEW n \in Members PROVE \E c \in Nat : StoredTo(n, c)'
    BY DEF StoreIn
  <1>1. PICK c \in Nat : StoredTo(n, c)
    BY DEF StoreIn
  <1>2. disk'[n].log = disk[n].log
    BY DEF SameButCommit
  <1>3. CASE Up(n)' => Up(n) /\ raw'[n].applied = raw[n].applied
    <2>1. StoredTo(n, c)'
      BY <1>1, <1>2, <1>3 DEF StoredTo
    <2> QED
      BY <2>1
  <1>4. CASE /\ raw'[n].applied \in Nat
             /\ IsCommitted(net, disk[n].log, raw'[n].applied)
             /\ store[n] \subseteq Commands(disk[n].log, 0, raw'[n].applied)
    <2>1. PICK a \in Nat : a = raw'[n].applied
      BY <1>4
    <2>2. StoredTo(n, a)'
      BY <1>2, <1>4, <2>1 DEF StoredTo
    <2> QED
      BY <2>2
  <1> QED
    BY <1>3, <1>4

(* The process dies between two passes.                                      *)
LEMMA KillKeepsDurable ==
    ASSUME DurableInv, ElectionInv', NEW m \in Members, kill(m)
    PROVE  DurableInv'
  <1>1. /\ LogsInv /\ NextIds /\ StoreIn /\ OkIsChosen /\ Functions /\ CallsOK(calls)
        /\ LogInv(disk, net) /\ \A n \in Members : HasLog(disk[n])
    BY DEF DurableInv, LogsInv
  <1>2. PICK kept \in Left(store[m]) :
           /\ disk' = [disk EXCEPT ![m] = disk[m]] /\ net' = net
           /\ store' = [store EXCEPT ![m] = kept]
           /\ status' = [status EXCEPT ![m] = "down"]
           /\ raw' = [raw EXCEPT ![m] = Resume(NoDisk, 0)]
           /\ cached' = [cached EXCEPT ![m] = NoSnapshot]
           /\ next_id' = [next_id EXCEPT ![m] = 0]
           /\ calls' = Abandoned(m, calls)
    BY DEF kill, Die
  <1>3. /\ Functions' /\ NextIds' /\ ~Up(m)'
        /\ \A n \in Members : disk'[n] = disk[n]
        /\ \A n \in Members \ {m} : Up(n)' => Up(n) /\ raw'[n] = raw[n]
        /\ store'[m] = kept /\ \A n \in Members \ {m} : store'[n] = store[n]
    BY <1>1, <1>2 DEF Functions, NextIds, Up
  <1>4. TellsOnly(calls, calls', <<>>, 0, 0)
    <2>1. TellsOnly(calls, calls, <<>>, 0, 0)
      BY <1>1 DEF TellsOnly
    <2>2. TellsOnly(calls, Abandoned(m, calls), <<>>, 0, 0)
      BY <2>1, FailsTellNobodyOk
    <2> QED
      BY <1>2, <2>2
  <1>5. OkIsChosen'
    <2>1. /\ DOMAIN calls' = DOMAIN calls
          /\ \A c \in DOMAIN calls' : calls'[c].result = "ok" =>
                calls[c].result = "ok" /\ calls'[c].got = calls[c].got
      BY <1>4 DEF TellsOnly
    <2> QED
      BY <1>1, <1>2, <2>1, NobodyElseIsTold
  <1>6. SameButCommit(disk, disk')
    BY <1>3 DEF SameButCommit
  <1>7. \A n \in Members : /\ HasLog(disk'[n]) /\ DiskOK(disk'[n])
                           /\ IsCommitted(net, disk'[n].log, disk'[n].commit)
    BY <1>1, <1>3 DEF LogInv, CommitsOK
  <1>8. \A n \in Members : Up(n)' => Up(n) /\ raw'[n] = raw[n] /\ disk'[n].commit = disk[n].commit
    BY <1>3
  <1>9. LogsInv'
    <2>1. CallsOK(calls')
      BY <1>4 DEF TellsOnly
    <2> QED
      BY <1>1, <1>2, <1>3, <1>6, <1>7, <1>8, <2>1, QuietKeepsLogs
  <1>10. StoreIn'
    <2>1. kept \subseteq store[m]
      BY DEF Left
    <2>2. \A n \in Members : store'[n] \subseteq store[n]
      BY <1>3, <2>1
    <2> QED
      BY <1>1, <1>2, <1>6, <1>8, <2>2, QuietKeepsStores
  <1> QED
    BY <1>3, <1>5, <1>9, <1>10 DEF DurableInv

(* The log is compacted up to what is applied.                               *)
LEMMA SnapshotKeepsLog ==
    ASSUME LogsInv, NEW m \in Members, maintain_snapshot(m)
    PROVE  /\ disk'[m].log = disk[m].log /\ disk'[m].term = disk[m].term
           /\ disk'[m].vote = disk[m].vote /\ disk'[m].commit = disk[m].commit
           /\ disk'[m].snap = raw[m].applied /\ HasLog(disk'[m]) /\ DiskOK(disk'[m])
           /\ \A n \in Members \ {m} : disk'[n] = disk[n]
  <1> DEFINE a == raw[m].applied
             s == [index |-> a, log |-> SubSeq(raw[m].log, 1, a), state |-> store[m]]
             l == SubSeq(disk[m].log, 1, a) \o SubSeq(disk[m].log, a + 1, Len(disk[m].log))
  <1>1. Runs(m) /\ HasLog(disk[m]) /\ DOMAIN disk = Members
    BY WhatRuns DEF maintain_snapshot, LogsInv, Functions
  <1>2. /\ raw[m].log = disk[m].log /\ disk[m].log \in Seq(Entry) /\ a \in 0 .. Len(disk[m].log)
        /\ DiskOK(disk[m]) /\ a \in Nat
    BY <1>1 DEF Runs, RawOK, DiskOK
  <1>3. l = disk[m].log
    <2>1. Shares(disk[m].log, disk[m].log, a)
      BY <1>2, SharesFacts
    <2> QED
      BY <1>2, <2>1, Continued
  <1>4. disk' = [disk EXCEPT ![m] = install_snapshot(disk[m], s)]
    BY DEF maintain_snapshot
  <1>5. install_snapshot(disk[m], s) = [disk[m] EXCEPT !.log = l, !.snap = a]
    BY <1>2 DEF install_snapshot
  <1> HIDE DEF l, s, a
  <1>6. disk'[m] = [disk[m] EXCEPT !.log = l, !.snap = a] /\ \A n \in Members \ {m} : disk'[n] = disk[n]
    BY <1>1, <1>4, <1>5
  <1>7. /\ disk'[m].log = disk[m].log /\ disk'[m].term = disk[m].term
        /\ disk'[m].vote = disk[m].vote /\ disk'[m].commit = disk[m].commit
        /\ disk'[m].snap = a /\ HasLog(disk'[m])
    BY <1>1, <1>3, <1>6 DEF HasLog
  <1>8. DiskOK(disk'[m])
    BY <1>2, <1>7 DEF DiskOK
  <1> QED
    BY <1>6, <1>7, <1>8 DEF a

(* Taking a snapshot keeps the invariant.                                    *)
LEMMA SnapshotKeepsDurable ==
    ASSUME DurableInv, ElectionInv', NEW m \in Members, maintain_snapshot(m)
    PROVE  DurableInv'
  <1>1. /\ LogsInv /\ NextIds /\ StoreIn /\ OkIsChosen /\ Functions /\ CallsOK(calls)
        /\ LogInv(disk, net) /\ \A n \in Members : HasLog(disk[n])
    BY DEF DurableInv, LogsInv
  <1>2. /\ disk'[m].log = disk[m].log /\ disk'[m].term = disk[m].term
        /\ disk'[m].vote = disk[m].vote /\ disk'[m].commit = disk[m].commit
        /\ HasLog(disk'[m]) /\ DiskOK(disk'[m])
        /\ \A n \in Members \ {m} : disk'[n] = disk[n]
    BY <1>1, SnapshotKeepsLog
  <1>3. /\ net' = net /\ store' = store /\ raw' = raw /\ status' = status
        /\ next_id' = next_id /\ calls' = calls
    BY DEF maintain_snapshot
  <1>4. Functions'
    BY <1>1, <1>3 DEF maintain_snapshot, Functions
  <1>5. /\ SameButCommit(disk, disk')
        /\ \A n \in Members : disk'[n].commit = disk[n].commit
    BY <1>2 DEF SameButCommit
  <1>6. \A n \in Members : /\ HasLog(disk'[n]) /\ DiskOK(disk'[n])
                           /\ IsCommitted(net, disk'[n].log, disk'[n].commit)
    BY <1>1, <1>2, <1>5 DEF LogInv, CommitsOK
  <1>7. \A n \in Members : Up(n)' => Up(n) /\ raw'[n] = raw[n] /\ disk'[n].commit = disk[n].commit
    BY <1>3, <1>5 DEF Up
  <1>8. LogsInv'
    BY <1>1, <1>3, <1>4, <1>5, <1>6, <1>7, QuietKeepsLogs
  <1>9. StoreIn'
    BY <1>1, <1>3, <1>5, <1>7, QuietKeepsStores
  <1>10. OkIsChosen' /\ NextIds'
    BY <1>1, <1>3 DEF OkIsChosen, NextIds
  <1> QED
    BY <1>8, <1>9, <1>10 DEF DurableInv

(* A member starts with its log as it is and its commit index where the log  *)
(* and the store bear it out.                                                *)
LEMMA StartsCommitted ==
    ASSUME LogsInv, StoreIn, NEW m \in Members, start(m)
    PROVE  /\ disk'[m].log = disk[m].log /\ disk'[m].term = disk[m].term
           /\ disk'[m].vote = disk[m].vote /\ disk'[m].snap = disk[m].snap
           /\ HasLog(disk'[m]) /\ DiskOK(disk'[m])
           /\ IsCommitted(net, disk'[m].log, disk'[m].commit)
           /\ disk[m].commit <= disk'[m].commit
           /\ \A n \in Members \ {m} : disk'[n] = disk[n] /\ raw'[n] = raw[n] /\ status'[n] = status[n]
           /\ Up(m)' => /\ StartsWith(raw'[m], disk'[m])
                        /\ raw'[m].applied \in Nat
                        /\ IsCommitted(net, disk[m].log, raw'[m].applied)
                        /\ applied_index(store[m]) <= raw'[m].applied
                        /\ disk[m].snap <= raw'[m].applied
                        /\ raw'[m].applied \in {applied_index(store[m]), disk[m].snap}
                        /\ store[m] \subseteq Commands(disk[m].log, 0, raw'[m].applied)
           /\ Up(m)' \/ (status'[m] = "refused" /\ raw'[m] = raw[m])
           /\ status'[m] = "refused" =>
                 applied_index(store[m]) \notin disk[m].snap .. Len(disk[m].log)
  <1> DEFINE applied == applied_index(store[m])
             d == reconcile(disk[m], applied)
             starts == ~BehindTheStore(disk[m], applied) /\ CanResume(d, applied)
             s == Resume(d, applied)
  <1>1. /\ DOMAIN disk = Members /\ DOMAIN raw = Members /\ DOMAIN status = Members
        /\ HasLog(disk[m]) /\ DiskOK(disk[m]) /\ IsCommitted(net, disk[m].log, disk[m].commit)
        /\ AppendsOK(net)
    BY DEF LogsInv, LogInv, Functions, CommitsOK
  <1>2. /\ disk[m].log \in Seq(Entry) /\ disk[m].commit \in Nat /\ disk[m].snap \in Nat
        /\ Len(disk[m].log) \in Nat
    BY <1>1 DEF DiskOK
  <1>3. PICK c \in Nat : StoredTo(m, c)
    BY DEF StoreIn
  <1>4. /\ applied \in Nat /\ applied <= c /\ store[m] \subseteq Commands(disk[m].log, 0, applied)
    BY <1>3, AppliedIndexIs DEF StoredTo
  <1>5. /\ disk' = [disk EXCEPT ![m] = IF BehindTheStore(disk[m], applied) THEN disk[m] ELSE d]
        /\ raw' = [raw EXCEPT ![m] = IF starts THEN s ELSE raw[m]]
        /\ status' = [status EXCEPT ![m] = IF starts THEN "up" ELSE "refused"]
    BY DEF start
  <1>6. c <= Len(disk[m].log) /\ disk[m].commit <= Len(disk[m].log)
    BY <1>1, <1>2, <1>3, CommittedIsThere DEF StoredTo
  <1>7. d = [disk[m] EXCEPT !.commit = Max({disk[m].commit, applied})]
    BY DEF reconcile
  <1> DEFINE top == IF disk[m].commit >= applied THEN disk[m].commit ELSE applied
  <1>8. Max({disk[m].commit, applied}) = top
    BY <1>2, <1>4, OfTwo
  <1> HIDE DEF applied, d
  <1>9. /\ d.log = disk[m].log /\ d.term = disk[m].term /\ d.vote = disk[m].vote
        /\ d.snap = disk[m].snap /\ d.commit = top /\ HasLog(d)
    BY <1>1, <1>7, <1>8 DEF HasLog
  <1>10. top \in Nat /\ disk[m].commit <= top /\ applied <= top /\ top <= Len(disk[m].log)
    BY <1>2, <1>4, <1>6
  <1>11. \A i \in Nat : i <= Len(disk[m].log) => Shares(disk[m].log, disk[m].log, i)
    BY <1>2, SharesFacts
  <1>12. \A i \in Nat : i <= c => IsCommitted(net, disk[m].log, i)
    BY <1>1, <1>2, <1>3, <1>6, <1>11, CommittedShared DEF StoredTo
  <1>13. IsCommitted(net, disk[m].log, top)
    BY <1>1, <1>4, <1>12
  <1>14. \A i \in Nat : i <= top => IsCommitted(net, disk[m].log, i)
    BY <1>1, <1>2, <1>10, <1>11, <1>13, CommittedShared
  <1>15. DiskOK(d)
    BY <1>1, <1>9, <1>10 DEF DiskOK
  <1> HIDE DEF top
  <1>16. disk'[m] \in {disk[m], d} /\ (~BehindTheStore(disk[m], applied) => disk'[m] = d)
         /\ \A n \in Members \ {m} : disk'[n] = disk[n] /\ raw'[n] = raw[n] /\ status'[n] = status[n]
    <2> HIDE DEF starts
    <2> QED
      BY <1>1, <1>5
  <1>17. /\ disk'[m].log = disk[m].log /\ disk'[m].term = disk[m].term
         /\ disk'[m].vote = disk[m].vote /\ disk'[m].snap = disk[m].snap
         /\ HasLog(disk'[m]) /\ DiskOK(disk'[m])
         /\ IsCommitted(net, disk'[m].log, disk'[m].commit)
         /\ disk[m].commit <= disk'[m].commit
    <2>1. disk[m].commit <= disk[m].commit
      BY <1>2
    <2>2. CASE disk'[m] = disk[m]
      BY <1>1, <2>1, <2>2
    <2>3. CASE disk'[m] = d
      BY <1>9, <1>10, <1>13, <1>15, <2>3
    <2> QED
      BY <1>16, <2>2, <2>3
  <1>18. CASE starts
    <2>1. status'[m] = "up" /\ raw'[m] = s /\ disk'[m] = d
      <3>1. ~BehindTheStore(disk[m], applied)
        BY <1>18
      <3> HIDE DEF starts, s
      <3> QED
        BY <1>1, <1>5, <1>16, <1>18, <3>1
    <2>2. CanResume(d, applied)
      BY <1>18
    <2>3. disk[m].snap <= top
      BY <1>2, <1>9, <1>10, <2>2 DEF CanResume
    <2> DEFINE a == Max({applied, disk[m].snap})
    <2>4. a = IF applied >= disk[m].snap THEN applied ELSE disk[m].snap
      BY <1>2, <1>4, OfTwo
    <2>5. s = [role |-> "follower", term |-> d.term, vote |-> d.vote, log |-> d.log,
               stable |-> Len(d.log), commit |-> d.commit, restored |-> NoSnapshot, applied |-> a]
      BY <1>9 DEF Resume
    <2> HIDE DEF a, s, starts
    <2>6. /\ a \in Nat /\ applied <= a /\ disk[m].snap <= a /\ a <= top
          /\ a \in {applied, disk[m].snap}
      BY <1>2, <1>4, <1>10, <2>3, <2>4
    <2>7. raw'[m].applied = a /\ StartsWith(raw'[m], disk'[m])
      <3>1. a \in 0 .. d.commit
        BY <1>9, <1>10, <2>6
      <3> QED
        BY <2>1, <2>5, <3>1 DEF StartsWith
    <2>8. store[m] \subseteq Commands(disk[m].log, 0, a)
      BY <1>4, <2>6, CommandsMeet
    <2>9. IsCommitted(net, disk[m].log, a)
      BY <1>14, <2>6
    <2>10. Up(m)' /\ status'[m] # "refused"
      BY <2>1 DEF Up
    <2> QED
      BY <1>16, <1>17, <2>6, <2>7, <2>8, <2>9, <2>10 DEF applied
  <1>19. CASE ~starts
    <2>1. status'[m] = "refused" /\ raw'[m] = raw[m] /\ ~Up(m)'
      <3> HIDE DEF starts, s
      <3> QED
        BY <1>1, <1>5, <1>19 DEF Up
    <2>2. ASSUME applied \in disk[m].snap .. Len(disk[m].log) PROVE FALSE
      <3>1. ~BehindTheStore(disk[m], applied)
        BY <1>2, <1>4, <2>2 DEF BehindTheStore
      <3>2. disk[m].snap <= top /\ applied \in disk[m].snap .. top
        BY <1>2, <1>4, <1>10, <2>2
      <3>3. CanResume(d, applied)
        BY <1>2, <1>9, <1>10, <3>2 DEF CanResume
      <3> QED
        BY <1>19, <3>1, <3>3
    <2> QED
      BY <1>16, <1>17, <2>1, <2>2 DEF applied
  <1> QED
    BY <1>18, <1>19

(* A start keeps the invariant.                                              *)
LEMMA StartKeepsDurable ==
    ASSUME DurableInv, ElectionInv', NEW m \in Members, start(m)
    PROVE  DurableInv'
  <1>1. /\ LogsInv /\ NextIds /\ StoreIn /\ OkIsChosen /\ Functions /\ CallsOK(calls)
        /\ LogInv(disk, net) /\ \A n \in Members : HasLog(disk[n])
    BY DEF DurableInv, LogsInv
  <1>2. /\ disk'[m].log = disk[m].log /\ disk'[m].term = disk[m].term
        /\ disk'[m].vote = disk[m].vote
        /\ HasLog(disk'[m]) /\ DiskOK(disk'[m])
        /\ IsCommitted(net, disk'[m].log, disk'[m].commit)
        /\ \A n \in Members \ {m} : disk'[n] = disk[n] /\ raw'[n] = raw[n] /\ status'[n] = status[n]
        /\ Up(m)' => /\ StartsWith(raw'[m], disk'[m])
                     /\ raw'[m].applied \in Nat
                     /\ IsCommitted(net, disk[m].log, raw'[m].applied)
                     /\ store[m] \subseteq Commands(disk[m].log, 0, raw'[m].applied)
    BY <1>1, StartsCommitted
  <1>3. /\ net' = net /\ store' = store /\ cached' = cached /\ next_id' = next_id /\ calls' = calls
    BY DEF start
  <1>4. Functions'
    BY <1>1, <1>3 DEF start, Functions
  <1>5. SameButCommit(disk, disk')
    BY <1>2 DEF SameButCommit
  <1>6. \A n \in Members : /\ HasLog(disk'[n]) /\ DiskOK(disk'[n])
                           /\ IsCommitted(net, disk'[n].log, disk'[n].commit)
    BY <1>1, <1>2 DEF LogInv, CommitsOK
  <1>7. \A n \in Members \ {m} : Up(n)' => Up(n) /\ raw'[n] = raw[n] /\ disk'[n].commit = disk[n].commit
    BY <1>2 DEF Up
  <1>8. LogsInv'
    <2>1. \A n \in Members : Up(n)' =>
              \/ Up(n) /\ raw'[n] = raw[n] /\ disk'[n].commit = disk[n].commit
              \/ StartsWith(raw'[n], disk'[n])
      BY <1>2, <1>7
    <2> QED
      BY <1>1, <1>3, <1>4, <1>5, <1>6, <2>1, QuietKeepsLogs
  <1>9. StoreIn'
    <2>1. \A n \in Members : Up(n)' =>
              \/ Up(n) /\ raw'[n].applied = raw[n].applied
              \/ /\ raw'[n].applied \in Nat
                 /\ IsCommitted(net, disk[n].log, raw'[n].applied)
                 /\ store[n] \subseteq Commands(disk[n].log, 0, raw'[n].applied)
      BY <1>2, <1>7
    <2> QED
      BY <1>1, <1>3, <1>5, <2>1, QuietKeepsStores
  <1>10. OkIsChosen' /\ NextIds'
    BY <1>1, <1>3 DEF OkIsChosen, NextIds
  <1> QED
    BY <1>8, <1>9, <1>10 DEF DurableInv

(* A change of one caller's record leaves a sequence of calls, and tells      *)
(* nobody Ok.                                                                *)
LEMMA OneCallChanges ==
    ASSUME NEW cs, CallsOK(cs), NEW c \in DOMAIN cs, NEW call, CallOK(call), call.result # "ok" \/
              (call.result = cs[c].result /\ call.got = cs[c].got),
           NEW ds, ds = [cs EXCEPT ![c] = call]
    PROVE  /\ CallsOK(ds) /\ DOMAIN ds = DOMAIN cs
           /\ \A b \in DOMAIN ds : ds[b].result = "ok" =>
                 cs[b].result = "ok" /\ ds[b].got = cs[b].got
  <1>1. IsSeq(cs) /\ \A b \in DOMAIN cs : CallOK(cs[b])
    BY DEF CallsOK
  <1>2. DOMAIN ds = DOMAIN cs /\ ds[c] = call /\ \A b \in DOMAIN cs : b # c => ds[b] = cs[b]
    OBVIOUS
  <1>3. ds = [b \in DOMAIN cs |-> ds[b]]
    BY DEF CallsOK
  <1>4. IsSeq(ds)
    BY <1>1, <1>3, SeqOfDomain
  <1>5. \A b \in DOMAIN ds : CallOK(ds[b])
    BY <1>1, <1>2
  <1> QED
    BY <1>2, <1>4, <1>5 DEF CallsOK

(* A step of callers only.                                                   *)
LEMMA CallersKeepDurable ==
    ASSUME DurableInv, ElectionInv', UNCHANGED <<disk, store, raw, cached, status, net>>,
           NextIds', CallsOK(calls'), DOMAIN calls \subseteq DOMAIN calls',
           \A c \in DOMAIN calls' : calls'[c].result = "ok" =>
              c \in DOMAIN calls /\ calls[c].result = "ok" /\ calls'[c].got = calls[c].got
    PROVE  DurableInv'
  <1>1. /\ LogsInv /\ NextIds /\ StoreIn /\ OkIsChosen /\ Functions
        /\ LogInv(disk, net) /\ \A n \in Members : HasLog(disk[n])
    BY DEF DurableInv, LogsInv
  <1>2. Functions'
    BY <1>1 DEF Functions
  <1>3. SameButCommit(disk, disk')
    BY DEF SameButCommit
  <1>4. \A n \in Members : /\ HasLog(disk'[n]) /\ DiskOK(disk'[n])
                           /\ IsCommitted(net, disk'[n].log, disk'[n].commit)
    BY <1>1 DEF LogInv, CommitsOK
  <1>5. \A n \in Members : Up(n)' => Up(n) /\ raw'[n] = raw[n] /\ disk'[n].commit = disk[n].commit
    BY DEF Up
  <1>6. LogsInv'
    BY <1>1, <1>2, <1>3, <1>4, <1>5, QuietKeepsLogs
  <1>7. StoreIn'
    BY <1>1, <1>3, <1>5, QuietKeepsStores
  <1>8. OkIsChosen'
    BY <1>1, NobodyElseIsTold
  <1> QED
    BY <1>6, <1>7, <1>8 DEF DurableInv

(* A new proposal keeps the invariant.                                       *)
LEMMA ProposeKeepsDurable ==
    ASSUME DurableInv, ElectionInv', NEW m \in Members, propose(m)
    PROVE  DurableInv'
  <1> DEFINE e == [at |-> m, id |-> next_id[m] + 1, queued |-> TRUE,
                   result |-> "waiting", got |-> 0]
  <1>1. /\ UNCHANGED <<disk, store, raw, cached, status, net>>
        /\ next_id' = [next_id EXCEPT ![m] = next_id[m] + 1]
        /\ calls' = Append(calls, e)
    BY DEF propose, durable
  <1>2. /\ NextIds /\ IsSeq(calls) /\ \A c \in DOMAIN calls : CallOK(calls[c])
    BY DEF DurableInv, LogsInv, CallsOK
  <1>3. NextIds'
    BY <1>1, <1>2 DEF NextIds
  <1>4. CallOK(e) /\ e.result # "ok"
    BY <1>2 DEF CallOK, NextIds
  <1> HIDE DEF e
  <1>5. PICK S : calls \in Seq(S)
    BY <1>2 DEF IsSeq
  <1>6. calls \in Seq(S \cup {e})
    BY <1>5
  <1>7. /\ calls' \in Seq(S \cup {e}) /\ DOMAIN calls' = 1 .. Len(calls) + 1
        /\ DOMAIN calls = 1 .. Len(calls) /\ Len(calls) \in Nat
        /\ calls'[Len(calls) + 1] = e
        /\ \A c \in 1 .. Len(calls) : calls'[c] = calls[c]
    BY <1>1, <1>6
  <1>8. \A c \in DOMAIN calls' : c \in DOMAIN calls \/ c = Len(calls) + 1
    BY <1>7
  <1>9. CallsOK(calls')
    <2>1. IsSeq(calls')
      BY <1>7 DEF IsSeq
    <2>2. \A c \in DOMAIN calls' : CallOK(calls'[c])
      BY <1>2, <1>4, <1>7, <1>8
    <2> QED
      BY <2>1, <2>2 DEF CallsOK
  <1>10. DOMAIN calls \subseteq DOMAIN calls'
    BY <1>7
  <1>11. \A c \in DOMAIN calls' : calls'[c].result = "ok" =>
              c \in DOMAIN calls /\ calls[c].result = "ok" /\ calls'[c].got = calls[c].got
    BY <1>4, <1>7, <1>8
  <1> QED
    BY <1>1, <1>3, <1>9, <1>10, <1>11, CallersKeepDurable

(* A caller gives up, or learns that its member does not lead.               *)
LEMMA RefusalKeepsDurable ==
    ASSUME DurableInv, ElectionInv', NEW c \in DOMAIN calls,
           \/ give_up(c)
           \/ \E m \in Members : handle_propose(m, c) /\ raw[m].role # "leader"
    PROVE  DurableInv'
  <1>1. /\ NextIds /\ CallsOK(calls) /\ CallOK(calls[c])
    BY DEF DurableInv, LogsInv, CallsOK
  <1>2. UNCHANGED <<disk, store, raw, cached, status, net, next_id>>
    BY DEF give_up, handle_propose, durable, volatile
  <1>3. \E call : /\ calls' = [calls EXCEPT ![c] = call] /\ CallOK(call)
                  /\ call.result # "ok" \/ (call.result = calls[c].result /\ call.got = calls[c].got)
    <2>1. CASE give_up(c)
      <3> DEFINE call == [calls[c] EXCEPT !.result = "unknown"]
      <3>1. calls' = [calls EXCEPT ![c] = call]
        BY <2>1 DEF give_up
      <3>2. CallOK(call) /\ call.result # "ok"
        BY <1>1 DEF CallOK
      <3> QED
        BY <3>1, <3>2
    <2>2. CASE \E m \in Members : handle_propose(m, c) /\ raw[m].role # "leader"
      <3> DEFINE told == [calls[c] EXCEPT !.queued = FALSE, !.result = "not_leader"]
                 taken == [calls[c] EXCEPT !.queued = FALSE]
      <3>1. \/ calls' = [calls EXCEPT ![c] = told]
            \/ calls' = [calls EXCEPT ![c] = taken]
        <4>1. PICK m \in Members : handle_propose(m, c) /\ raw[m].role # "leader"
          BY <2>2
        <4> DEFINE cs == [calls EXCEPT ![c].queued = FALSE]
        <4>2. calls' = IF WaitsAt(calls[c], m) THEN [cs EXCEPT ![c].result = "not_leader"] ELSE cs
          BY <4>1 DEF handle_propose
        <4>3. cs = [calls EXCEPT ![c] = taken]
          OBVIOUS
        <4>4. [cs EXCEPT ![c].result = "not_leader"] = [calls EXCEPT ![c] = told]
          <5>1. cs[c] = taken
            BY <4>3
          <5> QED
            BY <4>3, <5>1
        <4> QED
          BY <4>2, <4>3, <4>4
      <3>2. /\ CallOK(told) /\ told.result # "ok"
            /\ CallOK(taken) /\ taken.result = calls[c].result /\ taken.got = calls[c].got
        BY <1>1 DEF CallOK
      <3> QED
        BY <3>1, <3>2
    <2> QED
      BY <2>1, <2>2
  <1>4. PICK call : /\ calls' = [calls EXCEPT ![c] = call] /\ CallOK(call)
                    /\ call.result # "ok" \/ (call.result = calls[c].result /\ call.got = calls[c].got)
    BY <1>3
  <1>5. /\ CallsOK(calls') /\ DOMAIN calls' = DOMAIN calls
        /\ \A b \in DOMAIN calls' : calls'[b].result = "ok" =>
              calls[b].result = "ok" /\ calls'[b].got = calls[b].got
    BY <1>1, <1>4, OneCallChanges
  <1>6. NextIds'
    BY <1>1, <1>2 DEF NextIds
  <1> QED
    BY <1>2, <1>5, <1>6, CallersKeepDurable

(* The leader's log reaches back to what every member lacks: nobody is sent  *)
(* a snapshot.                                                               *)
LogsReach == \A l, m \in Members : ~step_snapshot(l, m)

Passes(m, r, out, cs, k) ==
    Up(m) /\ PassOK(m, r, out, cs) /\ k \in Nat /\ PassLeaves(m, r, out, cs, k)

(* What a step can be, once passes are taken together.                       *)
LEMMA WhatSteps ==
    ASSUME LogsInv, [Next]_repVars, [LogsReach]_repVars
    PROVE  \/ UNCHANGED repVars
           \/ \E m \in Members : \E r, out, cs, k : Passes(m, r, out, cs, k)
           \/ \E m \in Members : propose(m) \/ maintain_snapshot(m) \/ kill(m) \/ start(m)
           \/ \E c \in DOMAIN calls :
                 \/ give_up(c)
                 \/ \E m \in Members : handle_propose(m, c) /\ raw[m].role # "leader"
  <1>1. ASSUME NEW m \in Members, Up(m), \E r, out, cs : PassOK(m, r, out, cs)
        PROVE  \E r, out, cs, k : Passes(m, r, out, cs, k)
    <2>1. PICK r, out, cs : PassOK(m, r, out, cs)
      BY <1>1
    <2>2. PICK k \in Nat : PassLeaves(m, r, out, cs, k)
      BY <1>1, <2>1, PassEnds
    <2> QED
      BY <1>1, <2>1, <2>2 DEF Passes
  <1>2. ASSUME NEW m \in Members, tick_campaign(m) \/ step_votes(m) \/ step_acks(m)
        PROVE  \E r, out, cs, k : Passes(m, r, out, cs, k)
    <2>1. Up(m)
      BY <1>2 DEF tick_campaign, step_votes, step_acks
    <2> QED
      BY <1>1, <1>2, <2>1, CampaignPass, VotesPass, AcksPass
  <1>3. ASSUME NEW m \in Members, NEW q \in net, step_request(m, q) \/ step_append(m, q)
        PROVE  \E r, out, cs, k : Passes(m, r, out, cs, k)
    <2>1. Up(m)
      BY <1>3 DEF step_request, step_append
    <2> QED
      BY <1>1, <1>3, <2>1, RequestPass, AppendPass
  <1>4. ASSUME NEW m \in Members, NEW c \in DOMAIN calls, handle_propose(m, c),
               raw[m].role = "leader"
        PROVE  \E r, out, cs, k : Passes(m, r, out, cs, k)
    <2>1. Up(m)
      BY <1>4 DEF handle_propose
    <2> QED
      BY <1>1, <1>4, <2>1, ProposePass
  <1>5. CASE Next /\ LogsReach
    <2>1. \/ \E m \in Members : tick_campaign(m) \/ step_votes(m) \/ step_acks(m)
          \/ \E m \in Members : propose(m) \/ maintain_snapshot(m) \/ kill(m) \/ start(m)
          \/ \E m \in Members, q \in net : step_request(m, q) \/ step_append(m, q)
          \/ \E m \in Members, c \in DOMAIN calls : handle_propose(m, c)
          \/ \E c \in DOMAIN calls : give_up(c)
      BY <1>5 DEF Next, LogsReach
    <2> QED
      BY <1>2, <1>3, <1>4, <2>1
  <1> QED
    BY <1>5

(* Every step but the receipt of a snapshot keeps the invariant.             *)
LEMMA StepKeepsDurable ==
    ASSUME DurableInv, ElectionInv', [Next]_repVars, [LogsReach]_repVars
    PROVE  DurableInv'
  <1>0. LogsInv /\ StoreIn /\ OkIsChosen /\ NextIds /\ CallsOK(calls)
    BY DEF DurableInv, LogsInv
  <1>1. CASE UNCHANGED repVars
    <2>1. UNCHANGED <<disk, store, raw, cached, status, net, next_id, calls>>
      BY <1>1 DEF repVars, durable, volatile
    <2>2. NextIds' /\ CallsOK(calls')
      BY <1>0, <2>1 DEF NextIds
    <2> QED
      BY <2>1, <2>2, CallersKeepDurable
  <1>2. ASSUME NEW m \in Members, NEW r, NEW out, NEW cs, NEW k, Passes(m, r, out, cs, k)
        PROVE  DurableInv'
    <2>1. Up(m) /\ PassOK(m, r, out, cs) /\ k \in Nat /\ PassLeaves(m, r, out, cs, k)
          /\ on_ready(m, r, out, cs)
      BY <1>2 DEF Passes, PassOK
    <2> QED
      BY <1>0, <2>1, PassKeepsLogs, PassKeepsStores, PassTellsOk, PassesKeepIds DEF DurableInv
  <1>3. ASSUME NEW m \in Members, propose(m) \/ maintain_snapshot(m) \/ kill(m) \/ start(m)
        PROVE  DurableInv'
    BY <1>3, ProposeKeepsDurable, SnapshotKeepsDurable, KillKeepsDurable, StartKeepsDurable
  <1>4. ASSUME NEW c \in DOMAIN calls,
               \/ give_up(c)
               \/ \E m \in Members : handle_propose(m, c) /\ raw[m].role # "leader"
        PROVE  DurableInv'
    BY <1>4, RefusalKeepsDurable
  <1> QED
    BY <1>0, <1>1, <1>2, <1>3, <1>4, WhatSteps

(* The invariant holds at the start.                                         *)
LEMMA DurableInitially == Init => DurableInv
  <1> SUFFICES ASSUME Init, ElectionInv PROVE DurableInv
    BY ElectionsInitially
  <1>1. /\ \A m \in Members : /\ disk[m] = NoDisk /\ raw[m] = Resume(NoDisk, 0) /\ store[m] = {}
                              /\ next_id[m] = 0
        /\ Functions /\ DOMAIN next_id = Members /\ net = {} /\ calls = <<>>
    BY DEF Init, Functions
  <1>2. /\ HasLog(NoDisk) /\ DiskOK(NoDisk) /\ NoDisk.log = <<>> /\ NoDisk.commit = 0
        /\ NoDisk.snap = 0 /\ Len(NoDisk.log) = 0
    BY DEF NoDisk, HasLog, DiskOK
  <1>3. Appends(net) = {} /\ Acks(net) = {} /\ Requests = {} /\ Votes = {} /\ Said(net) = {}
    BY <1>1 DEF Appends, Acks, Requests, Votes, Said
  <1>4. LogInv(disk, net)
    <2>1. AppendsOK(net) /\ Chain(net) /\ AcksOK(disk, net) /\ LaterLeaders(disk, net)
          /\ AckedIsOnDisk(disk, net)
      BY <1>3 DEF AppendsOK, Chain, AcksOK, LaterLeaders, AckedIsOnDisk
    <2>2. LogsSent(disk, net)
      BY <1>1, <1>2, <1>3 DEF LogsSent, Sent
    <2>3. CommitsOK(disk, net)
      BY <1>1, <1>2, <1>3 DEF CommitsOK, IsCommitted
    <2> QED
      BY <1>1, <1>2, <2>1, <2>2, <2>3 DEF LogInv
  <1>5. StartsWith(Resume(NoDisk, 0), NoDisk) /\ Resume(NoDisk, 0).applied = 0
    <2>1. Max({0, 0}) = 0
      BY OfTwo
    <2> QED
      BY <1>2, <2>1 DEF Resume, StartsWith
  <1>6. RunsOK
    BY <1>1, <1>5 DEF RunsOK, StartsWith
  <1>7. SaidInTerm(disk, net) /\ RequestsKept /\ VotesAskedFor /\ OneVoice
    BY <1>3 DEF SaidInTerm, RequestsKept, VotesAskedFor, OneVoice
  <1>8. CallsOK(calls)
    <2>1. calls \in Seq({})
      BY <1>1
    <2> QED
      BY <1>1, <2>1 DEF CallsOK, IsSeq
  <1>9. LogsInv
    BY <1>1, <1>2, <1>4, <1>6, <1>7, <1>8 DEF LogsInv
  <1>10. StoreIn
    <2>1. \A m \in Members : StoredTo(m, 0)
      BY <1>1, <1>5 DEF StoredTo, IsCommitted
    <2> QED
      BY <2>1 DEF StoreIn
  <1>11. OkIsChosen /\ NextIds
    BY <1>1 DEF OkIsChosen, NextIds
  <1> QED
    BY <1>9, <1>10, <1>11 DEF DurableInv

(* What a quorum has acknowledged, a quorum has on disk.                     *)
LEMMA ChosenIsDurable ==
    ASSUME DurableInv
    PROVE  OkResultIsDurable
  <1>1. /\ OkIsChosen /\ AckedIsOnDisk(disk, net)
    BY DEF DurableInv, LogsInv, LogInv
  <1> SUFFICES ASSUME NEW c \in DOMAIN calls, calls[c].result = "ok"
               PROVE  Quorum({m \in Members :
                          \E i \in DOMAIN disk[m].log : disk[m].log[i].cmd = calls[c].got})
    BY DEF OkResultIsDurable
  <1> DEFINE Q == {m \in Members : \E i \in DOMAIN disk[m].log : disk[m].log[i].cmd = calls[c].got}
  <1>2. PICK b \in Appends(net) : \E i : Chosen(net, b, i) /\ \E j \in 1 .. i : b.log[j].cmd = calls[c].got
    BY <1>1 DEF OkIsChosen
  <1>3. PICK i : Chosen(net, b, i) /\ \E j \in 1 .. i : b.log[j].cmd = calls[c].got
    BY <1>2
  <1>4. PICK j \in 1 .. i : b.log[j].cmd = calls[c].got
    BY <1>3
  <1>5. Own(b, i) /\ Quorum(Holders(b.term, i, net)) /\ Holders(b.term, i, net) \in SUBSET Members
    BY <1>3 DEF Chosen, Holders
  <1>6. ASSUME NEW f \in Holders(b.term, i, net) PROVE f \in Q
    <2>1. f \in Members /\ Holds(f, b.term, i, net)
      BY DEF Holders
    <2>2. Keeps(disk, net, disk[f].log, b, i)
      BY <1>1, <1>5, <2>1 DEF AckedIsOnDisk
    <2>3. ~Blocked(disk, net, b.term, i)
      BY <1>3, ChosenIsNotBlocked
    <2>4. Shares(disk[f].log, b.log, i)
      BY <2>2, <2>3 DEF Keeps
    <2>5. DiskOK(disk[f])
      BY <2>1 DEF DurableInv, LogsInv, LogInv
    <2>6. j \in DOMAIN disk[f].log /\ disk[f].log[j] = b.log[j]
      BY <1>5, <2>4, <2>5 DEF Shares, DiskOK, Own
    <2> QED
      BY <1>4, <2>1, <2>6
  <1>7. Quorum(Q)
    <2>1. Q \in SUBSET Members /\ Holders(b.term, i, net) \subseteq Q
      BY <1>6
    <2> HIDE DEF Q
    <2> QED
      BY <1>5, <2>1, QuorumsGrow
  <1> QED
    BY <1>7

(* The invariant of durability, as long as no snapshot is sent.              *)
THEOREM WritesAreDurable == Spec /\ [][LogsReach]_repVars => []DurableInv
  <1>1. Init => DurableInv
    BY DurableInitially
  <1>2. DurableInv /\ ElectionInv' /\ [Next]_repVars /\ [LogsReach]_repVars => DurableInv'
    BY StepKeepsDurable
  <1> QED
    BY <1>1, <1>2, VotesAreDurable, PTL DEF Spec

(* The command whose result a caller was given with Ok is on the disks of a  *)
(* quorum, whatever died and when, and whatever a death took of the stores.  *)
THEOREM OkIsOnAQuorum == Spec /\ [][LogsReach]_repVars => []OkResultIsDurable
  BY WritesAreDurable, ChosenIsDurable, PTL

(* A store has applied exactly the first c entries of its log; of a member    *)
(* that runs, raft knows how many, and no fewer are compacted.               *)
FullTo(m, c) ==
    /\ IsCommitted(net, disk[m].log, c)
    /\ store[m] = Commands(disk[m].log, 0, c)
    /\ Up(m) => c = raw[m].applied /\ disk[m].snap <= c

StoreFull == \A m \in Members : \E c \in Nat : FullTo(m, c)

(* What a death leaves of a store that had applied a part of a log.          *)
LEMMA WhatIsLeft ==
    ASSUME NEW l, NEW c \in Nat, NEW kept \in Left(Commands(l, 0, c))
    PROVE  \E b \in Nat : b <= c /\ kept = Commands(l, 0, b)
  <1>1. CASE kept = Commands(l, 0, c)
    BY <1>1
  <1>2. CASE \E d \in Commands(l, 0, c) : kept = {e \in Commands(l, 0, c) : e.index < d.index}
    <2>1. PICK h \in 1 .. c : kept = {e \in Commands(l, 0, c) : e.index < h}
      <3>1. PICK d \in Commands(l, 0, c) : kept = {e \in Commands(l, 0, c) : e.index < d.index}
        BY <1>2
      <3>2. d.index \in 1 .. c
        BY DEF Commands
      <3> QED
        BY <3>1, <3>2
    <2> DEFINE b == h - 1
    <2>2. b \in Nat /\ b <= c
      OBVIOUS
    <2>3. \A e : e \in kept <=> e \in Commands(l, 0, b)
      <3>1. ASSUME NEW e, e \in Commands(l, 0, c), e.index < h PROVE e \in Commands(l, 0, b)
        BY <3>1 DEF Commands
      <3>2. ASSUME NEW e, e \in Commands(l, 0, b) PROVE e \in Commands(l, 0, c) /\ e.index < h
        BY <3>2 DEF Commands
      <3> HIDE DEF b
      <3> QED
        BY <2>1, <3>1, <3>2
    <2> HIDE DEF b
    <2>4. kept = Commands(l, 0, b)
      BY <2>3
    <2> QED
      BY <2>2, <2>4
  <1> QED
    BY <1>1, <1>2 DEF Left

(* What is committed up to an index is committed up to any lower one.        *)
LEMMA CommittedBelow ==
    ASSUME NEW N, AppendsOK(N), NEW l \in Seq(Entry), NEW c \in Nat, IsCommitted(N, l, c),
           NEW b \in Nat, b <= c
    PROVE  IsCommitted(N, l, b)
  <1>1. c <= Len(l) /\ Len(l) \in Nat
    BY CommittedIsThere
  <1>2. Shares(l, l, b)
    BY <1>1, SharesFacts
  <1> QED
    BY <1>2, CommittedShared

(* A pass leaves the store full, and no compacted command is lost but to a   *)
(* power cut.                                                                *)
LEMMA PassKeepsFull ==
    ASSUME LogsInv, StoreFull, NEW m \in Members, NEW r, NEW out, NEW cs, NEW k,
           Passes(m, r, out, cs, k)
    PROVE  StoreFull' /\ (~PowerLoss /\ TailIsReplayable => TailIsReplayable')
  <1>0. Up(m) /\ PassOK(m, r, out, cs) /\ k \in Nat /\ PassLeaves(m, r, out, cs, k)
    BY DEF Passes
  <1>1. /\ RawOK(r) /\ Shares(disk[m].log, r.log, r.stable) /\ r.applied = raw[m].applied
    BY <1>0 DEF PassOK, Proper
  <1>2. /\ \A n \in Members \ {m} :
              disk'[n] = disk[n] /\ raw'[n] = raw[n] /\ status'[n] = status[n] /\ store'[n] = store[n]
        /\ r.applied <= k
        /\ store'[m] \in Left(store[m] \cup Commands(r.log, r.applied, k))
        /\ Up(m)' => store'[m] = store[m] \cup Commands(r.log, r.applied, k)
        /\ IsCommitted(net', r.log, k) /\ Shares(disk'[m].log, r.log, k) /\ net \subseteq net'
        /\ disk'[m].snap = disk[m].snap
        /\ Good(disk', net', Others(m, "candidate"), Others(m, "leader"))
        /\ Up(m)' => raw'[m] = [Finished(m, r, out) EXCEPT !.applied = k]
    BY <1>0 DEF PassLeaves
  <1>3. ASSUME NEW n \in Members \ {m} PROVE \E c \in Nat : FullTo(n, c)'
    <2>1. PICK c \in Nat : FullTo(n, c)
      BY DEF StoreFull
    <2>2. IsCommitted(net', disk[n].log, c)
      BY <1>2, <2>1, CommittedStays DEF FullTo
    <2>3. FullTo(n, c)'
      BY <1>2, <2>1, <2>2 DEF FullTo, Up
    <2> QED
      BY <2>3
  <1>4. r.log \in Seq(Entry) /\ disk'[m].log \in Seq(Entry) /\ AppendsOK(net')
        /\ r.applied \in Nat /\ r.applied <= r.stable /\ r.stable \in Nat
    BY <1>1, <1>2 DEF RawOK, Good, LogInv, DiskOK
  <1>5. IsCommitted(net', disk'[m].log, k)
    <2>1. Shares(r.log, disk'[m].log, k)
      BY <1>2 DEF Shares
    <2> QED
      BY <1>0, <1>2, <1>4, <2>1, CommittedShared
  <1>6. /\ store[m] = Commands(r.log, 0, r.applied) /\ disk[m].snap <= r.applied
        /\ store[m] = Commands(disk[m].log, 0, r.applied)
    <2>1. PICK c \in Nat : FullTo(m, c)
      BY DEF StoreFull
    <2>2. c = r.applied /\ store[m] = Commands(disk[m].log, 0, r.applied) /\ disk[m].snap <= r.applied
      BY <1>0, <1>1, <2>1 DEF FullTo
    <2>3. Commands(disk[m].log, 0, r.applied) = Commands(r.log, 0, r.applied)
      BY <1>1, <1>4, CommandsShare
    <2> QED
      BY <2>2, <2>3
  <1>7. store[m] \cup Commands(r.log, r.applied, k) = Commands(disk'[m].log, 0, k)
    <2>1. Commands(r.log, 0, k) = Commands(r.log, 0, r.applied) \cup Commands(r.log, r.applied, k)
      BY <1>0, <1>2, <1>4, CommandsMeet
    <2>2. Commands(r.log, 0, k) = Commands(disk'[m].log, 0, k)
      BY <1>0, <1>2, CommandsShare
    <2> QED
      BY <1>6, <2>1, <2>2
  <1>8. \E c \in Nat : FullTo(m, c)'
    <2>1. CASE Up(m)'
      <3>1. HasLog(disk[m]) /\ DiskOK(disk[m]) /\ (r.stable = Len(r.log) => disk[m].log = r.log)
        BY <1>0 DEF LogsInv, LogInv, PassOK, Proper
      <3>2. "applied" \in DOMAIN Finished(m, r, out)
        BY <1>1, <3>1, StagesWrite
      <3>3. raw'[m].applied = k
        BY <1>2, <2>1, <3>2
      <3>4. disk'[m].snap <= k
        BY <1>0, <1>2, <1>4, <1>6, <3>1 DEF DiskOK
      <3>5. FullTo(m, k)'
        BY <1>2, <1>5, <1>7, <2>1, <3>3, <3>4 DEF FullTo
      <3> QED
        BY <1>0, <3>5
    <2>2. CASE ~Up(m)'
      <3>1. store'[m] \in Left(Commands(disk'[m].log, 0, k))
        BY <1>2, <1>7
      <3>2. PICK b \in Nat : b <= k /\ store'[m] = Commands(disk'[m].log, 0, b)
        BY <1>0, <3>1, WhatIsLeft
      <3>3. IsCommitted(net', disk'[m].log, b)
        BY <1>0, <1>4, <1>5, <3>2, CommittedBelow
      <3>4. FullTo(m, b)'
        BY <2>2, <3>2, <3>3 DEF FullTo
      <3> QED
        BY <3>4
    <2> QED
      BY <2>1, <2>2
  <1>9. ASSUME ~PowerLoss, TailIsReplayable PROVE TailIsReplayable'
    <2>1. store[m] \subseteq store'[m]
      BY <1>2, <1>9 DEF Left
    <2>2. Commands(disk'[m].log, 0, disk'[m].snap) = Commands(disk[m].log, 0, disk[m].snap)
      <3>1. DiskOK(disk[m])
        BY DEF LogsInv, LogInv
      <3>2. disk[m].snap \in Nat /\ disk[m].snap <= k /\ disk[m].snap <= r.stable
        BY <1>0, <1>2, <1>4, <1>6, <3>1 DEF DiskOK
      <3>3. Commands(disk'[m].log, 0, disk[m].snap) = Commands(r.log, 0, disk[m].snap)
        BY <1>0, <1>2, <3>2, CommandsShare
      <3>4. Commands(disk[m].log, 0, disk[m].snap) = Commands(r.log, 0, disk[m].snap)
        BY <1>1, <1>4, <3>2, CommandsShare
      <3> QED
        BY <1>2, <3>3, <3>4
    <2> QED
      BY <1>2, <1>9, <2>1, <2>2 DEF TailIsReplayable
  <1> QED
    BY <1>3, <1>8, <1>9 DEF StoreFull

(* Steps that are no passes leave the stores full too, provided that a store  *)
(* that starts finds in its log what it lost.                                *)
LEMMA KillKeepsFull ==
    ASSUME LogsInv, StoreFull, NEW m \in Members, kill(m)
    PROVE  StoreFull' /\ (~PowerLoss /\ TailIsReplayable => TailIsReplayable')
  <1>1. Functions /\ LogInv(disk, net)
    BY DEF LogsInv
  <1>2. PICK kept \in Left(store[m]) :
           /\ disk' = [disk EXCEPT ![m] = disk[m]] /\ net' = net
           /\ store' = [store EXCEPT ![m] = kept]
           /\ status' = [status EXCEPT ![m] = "down"]
           /\ raw' = [raw EXCEPT ![m] = Resume(NoDisk, 0)]
    BY DEF kill, Die
  <1>3. /\ ~Up(m)' /\ store'[m] = kept
        /\ \A n \in Members : disk'[n] = disk[n]
        /\ \A n \in Members \ {m} : /\ store'[n] = store[n]
                                    /\ Up(n)' => Up(n) /\ raw'[n] = raw[n]
    BY <1>1, <1>2 DEF Functions, Up
  <1>4. ASSUME NEW n \in Members PROVE \E c \in Nat : FullTo(n, c)'
    <2>1. PICK c \in Nat : FullTo(n, c)
      BY DEF StoreFull
    <2>2. CASE n # m
      <3>1. FullTo(n, c)'
        BY <1>2, <1>3, <2>1, <2>2 DEF FullTo
      <3> QED
        BY <3>1
    <2>3. CASE n = m
      <3>1. kept \in Left(Commands(disk[m].log, 0, c))
        BY <2>1, <2>3 DEF FullTo
      <3>2. PICK b \in Nat : b <= c /\ kept = Commands(disk[m].log, 0, b)
        BY <3>1, WhatIsLeft
      <3>3. AppendsOK(net) /\ disk[m].log \in Seq(Entry) /\ IsCommitted(net, disk[m].log, c)
        BY <1>1, <2>1, <2>3 DEF LogInv, DiskOK, FullTo
      <3>4. IsCommitted(net, disk[m].log, b)
        BY <3>2, <3>3, CommittedBelow
      <3>5. FullTo(n, b)'
        BY <1>2, <1>3, <2>3, <3>2, <3>4 DEF FullTo
      <3> QED
        BY <3>5
    <2> QED
      BY <2>2, <2>3
  <1>5. ASSUME ~PowerLoss, TailIsReplayable PROVE TailIsReplayable'
    <2>1. store[m] \subseteq store'[m]
      BY <1>3, <1>5 DEF Left
    <2> QED
      BY <1>3, <1>5, <2>1 DEF TailIsReplayable
  <1> QED
    BY <1>4, <1>5 DEF StoreFull

(* Taking a snapshot takes nothing out of a store.                           *)
LEMMA SnapshotKeepsFull ==
    ASSUME LogsInv, StoreFull, NEW m \in Members, maintain_snapshot(m)
    PROVE  StoreFull' /\ (TailIsReplayable => TailIsReplayable')
  <1>1. /\ disk'[m].log = disk[m].log /\ disk'[m].snap = raw[m].applied
        /\ \A n \in Members \ {m} : disk'[n] = disk[n]
    BY SnapshotKeepsLog
  <1>2. net' = net /\ store' = store /\ raw' = raw /\ status' = status /\ Up(m)
    BY DEF maintain_snapshot
  <1>3. ASSUME NEW n \in Members PROVE \E c \in Nat : FullTo(n, c)'
    <2>1. PICK c \in Nat : FullTo(n, c)
      BY DEF StoreFull
    <2>2. n = m => disk'[n].snap <= c
      BY <1>1, <1>2, <2>1 DEF FullTo
    <2>3. FullTo(n, c)'
      BY <1>1, <1>2, <2>1, <2>2 DEF FullTo, Up
    <2> QED
      BY <2>3
  <1>4. Commands(disk'[m].log, 0, disk'[m].snap) = store[m]
    <2>1. PICK c \in Nat : FullTo(m, c)
      BY DEF StoreFull
    <2> QED
      BY <1>1, <1>2, <2>1 DEF FullTo
  <1>5. ASSUME TailIsReplayable PROVE TailIsReplayable'
    BY <1>1, <1>2, <1>4, <1>5 DEF TailIsReplayable
  <1> QED
    BY <1>3, <1>5 DEF StoreFull

(* A start applies from where the store stands.                              *)
LEMMA StartKeepsFull ==
    ASSUME LogsInv, StoreIn, StoreFull, TailIsReplayable, NEW m \in Members, start(m)
    PROVE  StoreFull' /\ TailIsReplayable'
  <1>1. /\ disk'[m].log = disk[m].log /\ disk'[m].snap = disk[m].snap
        /\ \A n \in Members \ {m} : disk'[n] = disk[n] /\ raw'[n] = raw[n] /\ status'[n] = status[n]
        /\ Up(m)' => /\ raw'[m].applied \in Nat
                     /\ IsCommitted(net, disk[m].log, raw'[m].applied)
                     /\ applied_index(store[m]) <= raw'[m].applied
                     /\ disk[m].snap <= raw'[m].applied
                     /\ raw'[m].applied \in {applied_index(store[m]), disk[m].snap}
                     /\ store[m] \subseteq Commands(disk[m].log, 0, raw'[m].applied)
    BY StartsCommitted
  <1>2. net' = net /\ store' = store
    BY DEF start
  <1>3. ASSUME NEW n \in Members PROVE \E c \in Nat : FullTo(n, c)'
    <2>1. PICK c \in Nat : FullTo(n, c)
      BY DEF StoreFull
    <2>2. CASE n = m /\ Up(m)'
      <3> DEFINE a == applied_index(store[m])
                 s == disk[m].snap
      <3>1. /\ a \in Nat /\ a <= c /\ store[m] \subseteq Commands(disk[m].log, 0, a)
            /\ store[m] = Commands(disk[m].log, 0, c)
        BY <2>1, <2>2, AppliedIndexIs DEF FullTo
      <3>2. store[m] = Commands(disk[m].log, 0, a)
        <4>1. Commands(disk[m].log, 0, a) \subseteq Commands(disk[m].log, 0, c)
          BY <3>1, CommandsMeet
        <4> QED
          BY <3>1, <4>1
      <3>3. PICK h \in Nat : h = raw'[m].applied
        BY <1>1, <2>2
      <3>4. store[m] = Commands(disk[m].log, 0, h)
        <4>1. CASE h = a
          BY <3>2, <4>1
        <4>2. CASE h = s
          <5>1. Commands(disk[m].log, 0, s) \subseteq store[m]
            BY DEF TailIsReplayable
          <5> QED
            BY <1>1, <2>2, <3>3, <4>2, <5>1
        <4> QED
          BY <1>1, <2>2, <3>3, <4>1, <4>2
      <3>5. FullTo(m, h)'
        BY <1>1, <1>2, <2>2, <3>3, <3>4 DEF FullTo
      <3> QED
        BY <2>2, <3>5
    <2>3. CASE n = m /\ ~Up(m)'
      <3>1. FullTo(n, c)'
        BY <1>1, <1>2, <2>1, <2>3 DEF FullTo
      <3> QED
        BY <3>1
    <2>4. CASE n # m
      <3>1. FullTo(n, c)'
        BY <1>1, <1>2, <2>1, <2>4 DEF FullTo, Up
      <3> QED
        BY <3>1
    <2> QED
      BY <2>2, <2>3, <2>4
  <1>4. TailIsReplayable'
    BY <1>1, <1>2 DEF TailIsReplayable
  <1> QED
    BY <1>3, <1>4 DEF StoreFull

(* A step that touches neither log nor store.                                *)
LEMMA QuietKeepsFull ==
    ASSUME StoreFull, UNCHANGED <<disk, store, raw, status, net>>
    PROVE  StoreFull' /\ (TailIsReplayable => TailIsReplayable')
  BY DEF StoreFull, FullTo, Up, TailIsReplayable

(* A log has each command once, and only commands taken from a channel.      *)
OnceIn(l) == \A i, j \in 1 .. Len(l) : l[i].cmd = l[j].cmd /\ l[i].cmd # 0 => i = j

TakenIn(l, cs) == \A i \in 1 .. Len(l) : l[i].cmd # 0 =>
                     l[i].cmd \in DOMAIN cs /\ ~cs[l[i].cmd].queued

CmdsOnce == \A a \in Appends(net) : OnceIn(a.log) /\ TakenIn(a.log, calls)

(* What is in a log is in an append.                                         *)
LEMMA LogsHaveThemOnce ==
    ASSUME CmdsOnce, NEW l \in Seq(Entry), Sent(net, l)
    PROVE  OnceIn(l) /\ TakenIn(l, calls)
  <1>1. CASE Len(l) = 0
    BY <1>1 DEF OnceIn, TakenIn
  <1>2. CASE Len(l) # 0
    <2>1. PICK a \in Appends(net) : Shares(l, a.log, Len(l))
      BY <1>2 DEF Sent
    <2>2. Len(l) <= Len(a.log) /\ \A i \in 1 .. Len(l) : l[i] = a.log[i] /\ i \in 1 .. Len(a.log)
      BY <2>1 DEF Shares
    <2>3. OnceIn(a.log) /\ TakenIn(a.log, calls)
      BY DEF CmdsOnce
    <2>4. OnceIn(l)
      BY <2>2, <2>3 DEF OnceIn
    <2>5. TakenIn(l, calls)
      BY <2>2, <2>3 DEF TakenIn
    <2> QED
      BY <2>4, <2>5
  <1> QED
    BY <1>1, <1>2

(* What has been taken from a channel is not put back.                       *)
LEMMA TakenStays ==
    ASSUME NEW l, NEW cs, NEW ds, DOMAIN cs \subseteq DOMAIN ds,
           \A c \in DOMAIN cs : ds[c].queued => cs[c].queued, TakenIn(l, cs)
    PROVE  TakenIn(l, ds)
  BY DEF TakenIn

(* A pass appends a command only as it takes it from the channel.            *)
LEMMA PassKeepsCmds ==
    ASSUME LogsInv, CmdsOnce, NEW m \in Members, NEW r, NEW out, NEW cs, NEW k,
           Passes(m, r, out, cs, k)
    PROVE  CmdsOnce'
  <1>1. PassOK(m, r, out, cs) /\ PassLeaves(m, r, out, cs, k)
    BY DEF Passes
  <1>2. /\ LogFrom(m, r, cs) /\ DOMAIN cs = DOMAIN calls
        /\ \A c \in DOMAIN cs : cs[c].queued => calls[c].queued
    BY <1>1 DEF PassOK, CallsFrom
  <1>3. /\ \A a \in Appends(net') : a \in net \/ a.log = r.log
        /\ DOMAIN calls' = DOMAIN cs /\ \A c \in DOMAIN calls' : calls'[c].queued => cs[c].queued
    BY <1>1 DEF PassLeaves, TellsOnly
  <1>4. disk[m].log \in Seq(Entry) /\ Sent(net, disk[m].log)
    BY DEF LogsInv, LogInv, DiskOK, LogsSent
  <1>5. OnceIn(r.log) /\ TakenIn(r.log, cs)
    <2>1. CASE r.log = disk[m].log
      BY <1>2, <1>4, <2>1, LogsHaveThemOnce, TakenStays
    <2>2. CASE \E a \in Appends(net) : r.log = a.log
      <3>1. OnceIn(r.log) /\ TakenIn(r.log, calls)
        BY <2>2 DEF CmdsOnce
      <3> QED
        BY <1>2, <3>1, TakenStays
    <2>3. CASE \E e \in Entry :
                  /\ r.log = Append(disk[m].log, e)
                  /\ e.cmd = 0 \/ (e.cmd \in DOMAIN calls /\ calls[e.cmd].queued /\ ~cs[e.cmd].queued)
      <3> DEFINE l == disk[m].log
      <3>1. PICK e \in Entry :
                  /\ r.log = Append(l, e)
                  /\ e.cmd = 0 \/ (e.cmd \in DOMAIN calls /\ calls[e.cmd].queued /\ ~cs[e.cmd].queued)
        BY <2>3
      <3>2. OnceIn(l) /\ TakenIn(l, calls) /\ TakenIn(l, cs)
        BY <1>2, <1>4, LogsHaveThemOnce, TakenStays
      <3>3. /\ Len(r.log) = Len(l) + 1 /\ r.log[Len(l) + 1] = e /\ Len(l) \in Nat
            /\ \A i \in 1 .. Len(l) : r.log[i] = l[i]
        BY <1>4, <3>1, OneMore
      <3> HIDE DEF l
      <3>4. \A i \in 1 .. Len(r.log) : i \in 1 .. Len(l) \/ i = Len(l) + 1
        BY <3>3
      <3>5. \A i \in 1 .. Len(l) : l[i].cmd # 0 => l[i].cmd # e.cmd
        BY <3>1, <3>2 DEF TakenIn
      <3>6. OnceIn(r.log)
        <4> SUFFICES ASSUME NEW i \in 1 .. Len(r.log), NEW j \in 1 .. Len(r.log),
                            r.log[i].cmd = r.log[j].cmd, r.log[i].cmd # 0
                     PROVE  i = j
          BY DEF OnceIn
        <4>1. CASE i \in 1 .. Len(l) /\ j \in 1 .. Len(l)
          BY <3>2, <3>3, <4>1 DEF OnceIn
        <4>2. CASE i \in 1 .. Len(l) /\ j = Len(l) + 1
          BY <3>3, <3>5, <4>2
        <4>3. CASE i = Len(l) + 1 /\ j \in 1 .. Len(l)
          BY <3>3, <3>5, <4>3
        <4> QED
          BY <3>4, <4>1, <4>2, <4>3
      <3>7. TakenIn(r.log, cs)
        <4> SUFFICES ASSUME NEW i \in 1 .. Len(r.log), r.log[i].cmd # 0
                     PROVE  r.log[i].cmd \in DOMAIN cs /\ ~cs[r.log[i].cmd].queued
          BY DEF TakenIn
        <4>1. CASE i \in 1 .. Len(l)
          BY <3>2, <3>3, <4>1 DEF TakenIn
        <4>2. CASE i = Len(l) + 1
          BY <1>2, <3>1, <3>3, <4>2
        <4> QED
          BY <3>4, <4>1, <4>2
      <3> QED
        BY <3>6, <3>7
    <2> QED
      BY <1>2, <2>1, <2>2, <2>3 DEF LogFrom
  <1>6. ASSUME NEW a \in Appends(net') PROVE OnceIn(a.log) /\ TakenIn(a.log, calls')
    <2>1. CASE a \in net
      <3>1. OnceIn(a.log) /\ TakenIn(a.log, calls)
        BY <2>1 DEF CmdsOnce, Appends
      <3>2. TakenIn(a.log, cs)
        BY <1>2, <3>1, TakenStays
      <3> QED
        BY <1>3, <3>1, <3>2, TakenStays
    <2>2. CASE a.log = r.log
      BY <1>3, <1>5, <2>2, TakenStays
    <2> QED
      BY <1>3, <2>1, <2>2
  <1> QED
    BY <1>6 DEF CmdsOnce

(* Nobody else appends.                                                      *)
LEMMA QuietKeepsCmds ==
    ASSUME CmdsOnce, net' = net, DOMAIN calls \subseteq DOMAIN calls',
           \A c \in DOMAIN calls : calls'[c].queued => calls[c].queued
    PROVE  CmdsOnce'
  BY TakenStays DEF CmdsOnce

(* What StoresAgree and SnapshotHonest rest on.                              *)
StoresInv == DurableInv /\ StoreFull /\ CmdsOnce /\ SnapshotHonest

NoSnapshotIsHonest == NoSnapshot.state = Commands(NoSnapshot.log, 0, NoSnapshot.index)

(* No snapshot at all claims nothing.                                        *)
LEMMA NothingIsHonest == NoSnapshotIsHonest
  <1>1. Commands(<<>>, 0, 0) = {}
    BY DEF Commands
  <1> QED
    BY <1>1 DEF NoSnapshotIsHonest, NoSnapshot

(* A member's snapshot stays as it was, or goes with the process.            *)
LEMMA HonestStays ==
    ASSUME SnapshotHonest, \A n \in Members : cached'[n] \in {cached[n], NoSnapshot}
    PROVE  SnapshotHonest'
  BY NothingIsHonest DEF SnapshotHonest, NoSnapshotIsHonest

(* A member takes a snapshot of a store that is full.                        *)
LEMMA SnapshotsTakenAreHonest ==
    ASSUME LogsInv, StoreFull, SnapshotHonest, NEW m \in Members, maintain_snapshot(m)
    PROVE  SnapshotHonest'
  <1> DEFINE a == raw[m].applied
             l == SubSeq(raw[m].log, 1, a)
             s == [index |-> a, log |-> l, state |-> store[m]]
  <1>1. cached' = [cached EXCEPT ![m] = s] /\ Up(m) /\ DOMAIN cached = Members
    BY DEF maintain_snapshot, LogsInv, Functions
  <1>2. Runs(m)
    BY <1>1, WhatRuns
  <1>3. raw[m].log = disk[m].log /\ disk[m].log \in Seq(Entry) /\ a \in Nat /\ a <= Len(disk[m].log)
    BY <1>2 DEF Runs, RawOK, DiskOK
  <1>4. PICK c \in Nat : FullTo(m, c)
    BY DEF StoreFull
  <1>5. store[m] = Commands(disk[m].log, 0, a)
    BY <1>1, <1>4 DEF FullTo
  <1>6. Shares(l, disk[m].log, a)
    BY <1>3 DEF Shares
  <1>7. s.state = Commands(s.log, 0, s.index)
    <2>1. a <= a
      BY <1>3
    <2>2. Commands(l, 0, a) = Commands(disk[m].log, 0, a)
      BY <1>3, <1>6, <2>1, CommandsShare
    <2> QED
      BY <1>5, <2>2
  <1>8. /\ cached'[m] = s /\ \A n \in Members \ {m} : cached'[n] = cached[n]
    <2> HIDE DEF s
    <2> QED
      BY <1>1
  <1> HIDE DEF s
  <1> QED
    BY <1>7, <1>8 DEF SnapshotHonest

(* Of the calls there were, none comes back to a channel.                    *)
CallsLeave == DOMAIN calls \subseteq DOMAIN calls' /\ \A c \in DOMAIN calls : calls'[c].queued => calls[c].queued

(* A refusal, or a caller that gives up, takes no call away and queues none. *)
LEMMA RefusalsLeave ==
    ASSUME CallsOK(calls), NEW c \in DOMAIN calls,
           \/ give_up(c)
           \/ \E m \in Members : handle_propose(m, c) /\ raw[m].role # "leader"
    PROVE  CallsLeave
  <1>1. CallOK(calls[c])
    BY DEF CallsOK
  <1>2. CASE give_up(c)
    <2>1. /\ DOMAIN calls' = DOMAIN calls /\ \A b \in DOMAIN calls : b # c => calls'[b] = calls[b]
          /\ calls'[c] = [calls[c] EXCEPT !.result = "unknown"]
      BY <1>2 DEF give_up
    <2>2. calls'[c].queued = calls[c].queued
      BY <1>1, <2>1 DEF CallOK
    <2> QED
      BY <2>1, <2>2 DEF CallsLeave
  <1>3. CASE \E m \in Members : handle_propose(m, c) /\ raw[m].role # "leader"
    <2> DEFINE cs == [calls EXCEPT ![c].queued = FALSE]
    <2>1. PICK m \in Members : calls' = IF WaitsAt(calls[c], m)
                                        THEN [cs EXCEPT ![c].result = "not_leader"] ELSE cs
      BY <1>3 DEF handle_propose
    <2>2. DOMAIN cs = DOMAIN calls /\ \A b \in DOMAIN calls : b # c => cs[b] = calls[b]
      OBVIOUS
    <2>3. ~cs[c].queued /\ CallOK(cs[c])
      BY <1>1 DEF CallOK
    <2> HIDE DEF cs
    <2>4. CASE calls' = cs
      BY <2>2, <2>3, <2>4 DEF CallsLeave
    <2>5. CASE calls' = [cs EXCEPT ![c].result = "not_leader"]
      <3>1. DOMAIN calls' = DOMAIN cs /\ \A b \in DOMAIN cs : b # c => calls'[b] = cs[b]
        BY <2>5
      <3>2. calls'[c] = [cs[c] EXCEPT !.result = "not_leader"]
        BY <2>2, <2>5
      <3>3. ~calls'[c].queued
        BY <2>3, <3>2 DEF CallOK
      <3> QED
        BY <2>2, <3>1, <3>3 DEF CallsLeave
    <2> QED
      BY <2>1, <2>4, <2>5
  <1> QED
    BY <1>2, <1>3

(* A new proposal changes no call that is there.                             *)
LEMMA ProposalsAreNew ==
    ASSUME CallsOK(calls), NEW m \in Members, propose(m)
    PROVE  CallsLeave
  <1>1. PICK e : calls' = Append(calls, e)
    BY DEF propose
  <1>2. PICK S : calls \in Seq(S)
    BY DEF CallsOK, IsSeq
  <1>3. calls \in Seq(S \cup {e})
    BY <1>2
  <1>4. DOMAIN calls \subseteq DOMAIN calls' /\ \A c \in DOMAIN calls : calls'[c] = calls[c]
    BY <1>1, <1>3
  <1> QED
    BY <1>4 DEF CallsLeave

(* A death takes no call away and queues none.                               *)
LEMMA DeathsLeave ==
    ASSUME CallsOK(calls), NEW m \in Members, kill(m)
    PROVE  CallsLeave
  <1>1. calls' = Abandoned(m, calls)
    BY DEF kill, Die
  <1>2. TellsOnly(calls, calls, <<>>, 0, 0)
    BY DEF TellsOnly
  <1>3. TellsOnly(calls, Abandoned(m, calls), <<>>, 0, 0)
    BY <1>2, FailsTellNobodyOk
  <1> QED
    BY <1>1, <1>3 DEF TellsOnly, CallsLeave

(* Every step but the receipt of a snapshot keeps the stores full, as long   *)
(* as what a log has compacted is in the store - which it is unless power    *)
(* was cut.                                                                  *)
LEMMA StepKeepsStores ==
    ASSUME StoresInv, TailIsReplayable, ElectionInv', [Next]_repVars, [LogsReach]_repVars
    PROVE  StoresInv' /\ (~PowerLoss => TailIsReplayable')
  <1>0. DurableInv /\ LogsInv /\ StoreIn /\ CallsOK(calls) /\ StoreFull /\ CmdsOnce /\ SnapshotHonest
        /\ Functions
    BY DEF StoresInv, DurableInv, LogsInv
  <1>1. DurableInv'
    BY <1>0, StepKeepsDurable
  <1>2. CASE UNCHANGED repVars
    <2>1. UNCHANGED <<disk, store, raw, cached, status, net, calls>>
      BY <1>2 DEF repVars, durable, volatile
    <2>2. CmdsOnce' /\ SnapshotHonest'
      BY <1>0, <2>1 DEF CmdsOnce, SnapshotHonest
    <2> QED
      BY <1>0, <1>1, <2>1, <2>2, QuietKeepsFull DEF StoresInv
  <1>3. ASSUME NEW m \in Members, NEW r, NEW out, NEW cs, NEW k, Passes(m, r, out, cs, k)
        PROVE  StoresInv' /\ (~PowerLoss => TailIsReplayable')
    <2>1. \A n \in Members : cached'[n] \in {cached[n], NoSnapshot}
      BY <1>3 DEF Passes, PassLeaves
    <2>2. SnapshotHonest'
      BY <1>0, <2>1, HonestStays
    <2> QED
      BY <1>0, <1>1, <1>3, <2>2, PassKeepsFull, PassKeepsCmds DEF StoresInv
  <1>4. ASSUME NEW m \in Members, propose(m)
        PROVE  StoresInv' /\ (~PowerLoss => TailIsReplayable')
    <2>1. UNCHANGED <<disk, store, raw, cached, status, net>>
      BY <1>4 DEF propose, durable
    <2>2. CmdsOnce'
      BY <1>0, <1>4, <2>1, ProposalsAreNew, QuietKeepsCmds DEF CallsLeave
    <2>3. SnapshotHonest'
      BY <1>0, <2>1 DEF SnapshotHonest
    <2> QED
      BY <1>0, <1>1, <2>1, <2>2, <2>3, QuietKeepsFull DEF StoresInv
  <1>5. ASSUME NEW m \in Members, maintain_snapshot(m)
        PROVE  StoresInv' /\ (~PowerLoss => TailIsReplayable')
    <2>1. calls' = calls /\ net' = net
      BY <1>5 DEF maintain_snapshot
    <2>2. CmdsOnce'
      BY <1>0, <2>1 DEF CmdsOnce
    <2> QED
      BY <1>0, <1>1, <1>5, <2>2, SnapshotKeepsFull, SnapshotsTakenAreHonest DEF StoresInv
  <1>6. ASSUME NEW m \in Members, kill(m)
        PROVE  StoresInv' /\ (~PowerLoss => TailIsReplayable')
    <2>1. net' = net /\ cached' = [cached EXCEPT ![m] = NoSnapshot]
      BY <1>6 DEF kill, Die
    <2>2. CmdsOnce'
      BY <1>0, <1>6, <2>1, DeathsLeave, QuietKeepsCmds DEF CallsLeave
    <2>3. \A n \in Members : cached'[n] \in {cached[n], NoSnapshot}
      BY <1>0, <2>1 DEF Functions
    <2>4. SnapshotHonest'
      BY <1>0, <2>3, HonestStays
    <2> QED
      BY <1>0, <1>1, <1>6, <2>2, <2>4, KillKeepsFull DEF StoresInv
  <1>7. ASSUME NEW m \in Members, start(m)
        PROVE  StoresInv' /\ (~PowerLoss => TailIsReplayable')
    <2>1. calls' = calls /\ net' = net /\ cached' = cached
      BY <1>7 DEF start
    <2>2. CmdsOnce' /\ SnapshotHonest'
      BY <1>0, <2>1 DEF CmdsOnce, SnapshotHonest
    <2> QED
      BY <1>0, <1>1, <1>7, <2>2, StartKeepsFull DEF StoresInv
  <1>8. ASSUME NEW c \in DOMAIN calls,
               \/ give_up(c)
               \/ \E m \in Members : handle_propose(m, c) /\ raw[m].role # "leader"
        PROVE  StoresInv' /\ (~PowerLoss => TailIsReplayable')
    <2>1. UNCHANGED <<disk, store, raw, cached, status, net>>
      BY <1>8 DEF give_up, handle_propose, durable, volatile
    <2>2. CmdsOnce'
      BY <1>0, <1>8, <2>1, RefusalsLeave, QuietKeepsCmds DEF CallsLeave
    <2>3. SnapshotHonest'
      BY <1>0, <2>1 DEF SnapshotHonest
    <2> QED
      BY <1>0, <1>1, <2>1, <2>2, <2>3, QuietKeepsFull DEF StoresInv
  <1> QED
    BY <1>0, <1>2, <1>3, <1>4, <1>5, <1>6, <1>7, <1>8, WhatSteps

(* Of two parts of a log that begin with it, one begins the other.           *)
LEMMA PartsBegin ==
    ASSUME NEW l, NEW c \in Nat, NEW d \in Nat, c <= d
    PROVE  Beginning(Commands(l, 0, c), Commands(l, 0, d))
  <1>1. /\ Commands(l, 0, c) \subseteq Commands(l, 0, d)
        /\ Commands(l, 0, d) = Commands(l, 0, c) \cup Commands(l, c, d)
    BY CommandsMeet
  <1>2. \A e \in Commands(l, 0, c) : e.index \in Nat /\ e.index <= c
    BY DEF Commands
  <1>3. \A e \in Commands(l, c, d) : e.index \in Nat /\ c < e.index
    BY DEF Commands
  <1> QED
    BY <1>1, <1>2, <1>3 DEF Beginning

(* Stores that are full agree, for what is committed does.                   *)
LEMMA FullStoresAgree ==
    ASSUME StoresInv
    PROVE  StoresAgree
  <1>1. /\ StoreFull /\ CmdsOnce /\ AppendsOK(net) /\ Chain(net) /\ LaterLeaders(disk, net)
        /\ \A n \in Members : disk[n].log \in Seq(Entry) /\ Sent(net, disk[n].log)
    BY DEF StoresInv, DurableInv, LogsInv, LogInv, DiskOK, LogsSent
  <1>2. ASSUME NEW m \in Members, NEW n \in Members, NEW c \in Nat, NEW d \in Nat, c <= d,
               FullTo(m, c), FullTo(n, d)
        PROVE  Beginning(store[m], store[n])
    <2>1. Shares(disk[m].log, disk[n].log, c)
      BY <1>1, <1>2, CommittedAgree DEF FullTo
    <2>2. c <= c
      OBVIOUS
    <2>3. Commands(disk[m].log, 0, c) = Commands(disk[n].log, 0, c)
      BY <2>1, <2>2, CommandsShare
    <2>4. Beginning(Commands(disk[n].log, 0, c), Commands(disk[n].log, 0, d))
      BY <1>2, PartsBegin
    <2> QED
      BY <1>2, <2>3, <2>4 DEF FullTo
  <1>3. ASSUME NEW m \in Members, NEW n \in Members
        PROVE  Beginning(store[m], store[n]) \/ Beginning(store[n], store[m])
    <2>1. PICK c \in Nat : FullTo(m, c)
      BY <1>1 DEF StoreFull
    <2>2. PICK d \in Nat : FullTo(n, d)
      BY <1>1 DEF StoreFull
    <2>3. c <= d \/ d <= c
      OBVIOUS
    <2> QED
      BY <1>2, <2>1, <2>2, <2>3
  <1>4. ASSUME NEW m \in Members
        PROVE  /\ \A d, e \in store[m] : d.cmd = e.cmd => d = e
               /\ Up(m) => \A e \in store[m] : e.index <= raw[m].applied
    <2>1. PICK c \in Nat : FullTo(m, c)
      BY <1>1 DEF StoreFull
    <2> DEFINE l == disk[m].log
    <2>2. l \in Seq(Entry) /\ OnceIn(l) /\ c <= Len(l)
      BY <1>1, <2>1, LogsHaveThemOnce, CommittedIsThere DEF FullTo
    <2> HIDE DEF l
    <2>3. store[m] = Commands(l, 0, c) /\ (Up(m) => c = raw[m].applied)
      BY <2>1 DEF FullTo, l
    <2>4. \A e \in store[m] : \E h \in 1 .. c : l[h].cmd # 0 /\ e = [index |-> h, cmd |-> l[h].cmd]
      BY <2>3 DEF Commands
    <2>5. ASSUME NEW d \in store[m], NEW e \in store[m], d.cmd = e.cmd PROVE d = e
      <3>1. PICK g \in 1 .. c : l[g].cmd # 0 /\ d = [index |-> g, cmd |-> l[g].cmd]
        BY <2>4
      <3>2. PICK h \in 1 .. c : l[h].cmd # 0 /\ e = [index |-> h, cmd |-> l[h].cmd]
        BY <2>4
      <3>3. l[g].cmd = l[h].cmd /\ g \in 1 .. Len(l) /\ h \in 1 .. Len(l)
        BY <2>2, <2>5, <3>1, <3>2
      <3>4. g = h
        BY <2>2, <3>1, <3>3 DEF OnceIn
      <3> QED
        BY <3>1, <3>2, <3>4
    <2>6. \A e \in store[m] : e.index <= c
      BY <2>4
    <2> QED
      BY <2>3, <2>5, <2>6
  <1> QED
    BY <1>3, <1>4 DEF StoresAgree

(* The invariant of the stores holds at the start.                           *)
LEMMA StoresInitially == Init => StoresInv /\ TailIsReplayable
  <1> SUFFICES ASSUME Init, DurableInv PROVE StoresInv /\ TailIsReplayable
    BY DurableInitially
  <1>1. /\ \A m \in Members : /\ disk[m] = NoDisk /\ raw[m] = Resume(NoDisk, 0) /\ store[m] = {}
                              /\ cached[m] = NoSnapshot
        /\ net = {}
    BY DEF Init
  <1>2. NoDisk.log = <<>> /\ NoDisk.snap = 0 /\ Commands(<<>>, 0, 0) = {}
    BY DEF NoDisk, Commands
  <1>3. Resume(NoDisk, 0).applied = 0
    <2>1. Max({0, 0}) = 0
      BY OfTwo
    <2> QED
      BY <1>2, <2>1 DEF Resume
  <1>4. \A m \in Members : FullTo(m, 0)
    <2> SUFFICES ASSUME NEW m \in Members PROVE FullTo(m, 0)
      OBVIOUS
    <2>1. disk[m].log = <<>> /\ disk[m].snap = 0 /\ store[m] = {} /\ raw[m].applied = 0
      BY <1>1, <1>2, <1>3
    <2>2. IsCommitted(net, disk[m].log, 0)
      BY DEF IsCommitted
    <2>3. disk[m].snap <= 0 /\ store[m] = Commands(disk[m].log, 0, 0)
      BY <1>2, <2>1
    <2> QED
      BY <2>1, <2>2, <2>3 DEF FullTo
  <1>5. StoreFull
    BY <1>4 DEF StoreFull
  <1>6. CmdsOnce
    BY <1>1 DEF CmdsOnce, Appends
  <1>7. SnapshotHonest
    BY <1>1, NothingIsHonest DEF SnapshotHonest, NoSnapshotIsHonest
  <1>8. TailIsReplayable
    BY <1>1, <1>2 DEF TailIsReplayable
  <1> QED
    BY <1>5, <1>6, <1>7, <1>8 DEF StoresInv

(* The invariant of the stores, as long as no snapshot is sent and what a    *)
(* log has compacted is in the store beside it.                              *)
THEOREM StoresStayFull ==
    Spec /\ [][LogsReach]_repVars /\ []TailIsReplayable => []StoresInv
  <1>1. Init => StoresInv
    BY StoresInitially
  <1>2. StoresInv /\ TailIsReplayable /\ ElectionInv' /\ [Next]_repVars /\ [LogsReach]_repVars
           => StoresInv'
    BY StepKeepsStores
  <1> QED
    BY <1>1, <1>2, VotesAreDurable, PTL DEF Spec

(* No two stores have applied different commands, and none has one twice.    *)
THEOREM NoTwoStoresDiffer ==
    Spec /\ [][LogsReach]_repVars /\ []TailIsReplayable => []StoresAgree
  BY StoresStayFull, FullStoresAgree, PTL

(* No snapshot claims an index and carries the state of another.             *)
THEOREM SnapshotsAreHonest ==
    Spec /\ [][LogsReach]_repVars /\ []TailIsReplayable => []SnapshotHonest
  <1>1. StoresInv => SnapshotHonest
    BY DEF StoresInv
  <1> QED
    BY <1>1, StoresStayFull, PTL

(* Deaths of processes alone take nothing compacted out of a store.          *)
THEOREM OnlyPowerCutsLoseCompacted ==
    ASSUME ~PowerLoss
    PROVE  Spec /\ [][LogsReach]_repVars => []TailIsReplayable
  <1>1. Init => StoresInv /\ TailIsReplayable
    BY StoresInitially
  <1>2. StoresInv /\ TailIsReplayable /\ ElectionInv' /\ [Next]_repVars /\ [LogsReach]_repVars
           => StoresInv' /\ TailIsReplayable'
    BY StepKeepsStores
  <1> QED
    BY <1>1, <1>2, VotesAreDurable, PTL DEF Spec

(* Sizes: what holds of logs, commit indexes and stores whatever snapshots   *)
(* are sent and whatever entries they leave behind.                          *)

RawFields == {"role", "term", "vote", "log", "stable", "commit", "restored", "applied"}

StoreFits(s) == \E c \in Nat : \A e \in s : e.index \in 0 .. c

SnapFits(s) == IsSeq(s.log) /\ s.index = Len(s.log) /\ StoreFits(s.state)

DiskFits(d) == HasLog(d) /\ IsSeq(d.log) /\ d.commit \in 0 .. Len(d.log) /\ d.snap \in Nat

RawFits(r) ==
    /\ RawFields \subseteq DOMAIN r
    /\ IsSeq(r.log) /\ r.commit \in 0 .. Len(r.log) /\ r.stable \in 0 .. Len(r.log)
    /\ r.applied \in 0 .. r.commit

(* What raft has made of member m agrees with m's disk.                      *)
ReadyFits(m, r) ==
    /\ RawFits(r)
    /\ disk[m].commit <= r.commit
    /\ r.restored = NoSnapshot => r.stable <= Len(disk[m].log)
    /\ r.restored # NoSnapshot => SnapFits(r.restored) /\ r.stable = r.restored.index

MessagesFit(N) == \A a \in Appends(N) : IsSeq(a.log) /\ a.commit \in 0 .. Len(a.log)

SizesInv ==
    /\ Functions
    /\ \A m \in Members : DiskFits(disk[m]) /\ StoreFits(store[m]) /\ SnapFits(cached[m])
    /\ \A m \in Members : Up(m) => ReadyFits(m, raw[m]) /\ raw[m].restored = NoSnapshot
    /\ MessagesFit(net)
    /\ StartsFromItsLog

(* Sequences of anything.                                                    *)
LEMMA SeqSizes ==
    ASSUME NEW l, IsSeq(l)
    PROVE  /\ Len(l) \in Nat
           /\ \A e : IsSeq(Append(l, e)) /\ Len(Append(l, e)) = Len(l) + 1
           /\ \A i \in 0 .. Len(l) : IsSeq(SubSeq(l, 1, i)) /\ Len(SubSeq(l, 1, i)) = i
           /\ \A i \in Nat : /\ IsSeq(SubSeq(l, i + 1, Len(l)))
                             /\ Len(SubSeq(l, i + 1, Len(l))) = IF i <= Len(l) THEN Len(l) - i ELSE 0
           /\ \A k : IsSeq(k) => IsSeq(l \o k) /\ Len(l \o k) = Len(l) + Len(k)
  <1>1. PICK S : l \in Seq(S)
    BY DEF IsSeq
  <1>2. Len(l) \in Nat
    BY <1>1
  <1>3. ASSUME NEW e PROVE IsSeq(Append(l, e)) /\ Len(Append(l, e)) = Len(l) + 1
    <2> DEFINE T == S \cup {e}
    <2>1. l \in Seq(T) /\ e \in T
      BY <1>1
    <2> HIDE DEF T
    <2>2. Append(l, e) \in Seq(T) /\ Len(Append(l, e)) = Len(l) + 1
      BY <2>1
    <2> QED
      BY <2>2 DEF IsSeq
  <1>4. ASSUME NEW i \in 0 .. Len(l) PROVE IsSeq(SubSeq(l, 1, i)) /\ Len(SubSeq(l, 1, i)) = i
    <2>1. SubSeq(l, 1, i) \in Seq(S) /\ Len(SubSeq(l, 1, i)) = i
      BY <1>1, <1>2
    <2> QED
      BY <2>1 DEF IsSeq
  <1>5. ASSUME NEW i \in Nat
        PROVE  /\ IsSeq(SubSeq(l, i + 1, Len(l)))
               /\ Len(SubSeq(l, i + 1, Len(l))) = IF i <= Len(l) THEN Len(l) - i ELSE 0
    <2>1. SubSeq(l, i + 1, Len(l)) \in Seq(S)
      BY <1>1, <1>2
    <2>2. Len(SubSeq(l, i + 1, Len(l))) = IF i + 1 <= Len(l) THEN Len(l) - (i + 1) + 1 ELSE 0
      BY <1>1, <1>2
    <2> QED
      BY <1>2, <2>1, <2>2 DEF IsSeq
  <1>6. ASSUME NEW k, IsSeq(k) PROVE IsSeq(l \o k) /\ Len(l \o k) = Len(l) + Len(k)
    <2>1. PICK R : k \in Seq(R)
      BY <1>6 DEF IsSeq
    <2> DEFINE T == S \cup R
    <2>2. l \in Seq(T) /\ k \in Seq(T)
      BY <1>1, <2>1
    <2> HIDE DEF T
    <2>3. l \o k \in Seq(T) /\ Len(l \o k) = Len(l) + Len(k)
      BY <2>2, ConcatProperties
    <2> QED
      BY <2>3 DEF IsSeq
  <1> QED
    BY <1>2, <1>3, <1>4, <1>5, <1>6

(* Two logs match within both.                                               *)
LEMMA MatchingFits ==
    ASSUME NEW l, NEW k, Len(l) \in Nat, Len(k) \in Nat
    PROVE  Matching(l, k) \in Nat /\ Matching(l, k) <= Len(l) /\ Matching(l, k) <= Len(k)
  <1> DEFINE p == Min({Len(l), Len(k)})
             S == {0} \cup {n \in 1 .. p : l[n].term = k[n].term}
  <1>1. p = IF Len(l) <= Len(k) THEN Len(l) ELSE Len(k)
    BY OfTwo
  <1>2. Matching(l, k) = Max(S)
    BY DEF Matching
  <1> HIDE DEF p
  <1>3. p \in Nat /\ p <= Len(l) /\ p <= Len(k)
    BY <1>1
  <1>4. S \subseteq Nat /\ S # {} /\ \A y \in S : y <= p
    BY <1>3
  <1> HIDE DEF S
  <1>5. Max(S) \in S
    BY <1>3, <1>4, MaxIsGreatest
  <1>6. \A x \in S : x \in Nat /\ x <= Len(l) /\ x <= Len(k)
    BY <1>3, <1>4
  <1> QED
    BY <1>2, <1>5, <1>6

(* A leader commits no more than it has.                                     *)
LEMMA CommittedFits ==
    ASSUME NEW r, Len(r.log) \in Nat, r.commit \in 0 .. Len(r.log), NEW N
    PROVE  Committed(r, N) \in r.commit .. Len(r.log)
  <1> DEFINE S == {n \in r.commit + 1 .. Len(r.log) :
                     /\ r.role = "leader" /\ r.log[n].term = r.term
                     /\ Quorum({f \in Members : Holds(f, r.term, n, N)})}
             T == {r.commit} \cup S
  <1>1. T \subseteq r.commit .. Len(r.log) /\ T \subseteq Nat /\ r.commit \in T
    OBVIOUS
  <1>2. Committed(r, N) = Max(T)
    BY DEF Committed
  <1> HIDE DEF T
  <1>3. T # {} /\ \A y \in T : y <= Len(r.log)
    BY <1>1
  <1>4. Max(T) \in T
    BY <1>1, <1>3, MaxIsGreatest
  <1> QED
    BY <1>1, <1>2, <1>4

(* What applying adds to a store.                                            *)
LEMMA AppliedFits ==
    ASSUME NEW s, StoreFits(s), NEW l, NEW i \in Nat, NEW j \in Nat
    PROVE  StoreFits(ApplyTo(s, l, i, j))
  <1>1. PICK c \in Nat : \A e \in s : e.index \in 0 .. c
    BY DEF StoreFits
  <1>2. \A e \in ApplyTo(s, l, i, j) : e \in s \/ \E h \in i + 1 .. j : e.index = h
    BY DEF ApplyTo, Commands
  <1>3. \A e \in ApplyTo(s, l, i, j) : e.index \in 0 .. c + j
    BY <1>1, <1>2
  <1> QED
    BY <1>3 DEF StoreFits

(* How far a store is, is a number.                                          *)
LEMMA AppliedIndexFits ==
    ASSUME NEW s, StoreFits(s)
    PROVE  applied_index(s) \in Nat
  <1>1. PICK c \in Nat : \A e \in s : e.index \in 0 .. c
    BY DEF StoreFits
  <1> DEFINE T == {0} \cup {e.index : e \in s}
  <1>2. T \subseteq Nat /\ T # {} /\ \A y \in T : y <= c
    BY <1>1
  <1>3. applied_index(s) = Max(T)
    BY DEF applied_index
  <1> HIDE DEF T
  <1> QED
    BY <1>2, <1>3, MaxIsGreatest

(* A step of member m alone keeps the sizes if it leaves m's in order.       *)
LEMMA MemberFits ==
    ASSUME SizesInv, NEW m \in Members, Functions',
           \A n \in Members \ {m} :
              /\ disk'[n] = disk[n] /\ raw'[n] = raw[n] /\ status'[n] = status[n]
              /\ store'[n] = store[n] /\ cached'[n] = cached[n],
           DiskFits(disk'[m]), StoreFits(store'[m]), SnapFits(cached'[m]), MessagesFit(net'),
           Up(m)' => ReadyFits(m, raw[m])' /\ raw'[m].restored = NoSnapshot,
           status'[m] = "refused" =>
              applied_index(store'[m]) \notin disk'[m].snap .. Len(disk'[m].log)
    PROVE  SizesInv'
  <1>1. \A n \in Members : DiskFits(disk'[n]) /\ StoreFits(store'[n]) /\ SnapFits(cached'[n])
    BY DEF SizesInv
  <1>2. \A n \in Members : Up(n)' => ReadyFits(n, raw[n])' /\ raw'[n].restored = NoSnapshot
    <2> SUFFICES ASSUME NEW n \in Members \ {m}, Up(n)'
                 PROVE  ReadyFits(n, raw[n])' /\ raw'[n].restored = NoSnapshot
      OBVIOUS
    <2>1. Up(n) /\ disk'[n] = disk[n] /\ raw'[n] = raw[n]
      BY DEF Up
    <2>2. ReadyFits(n, raw[n]) /\ raw[n].restored = NoSnapshot
      BY <2>1 DEF SizesInv
    <2> QED
      BY <2>1, <2>2 DEF ReadyFits
  <1>3. StartsFromItsLog'
    BY DEF SizesInv, StartsFromItsLog
  <1> QED
    BY <1>1, <1>2, <1>3 DEF SizesInv

(* A death leaves what was written.                                          *)
LEMMA DeathFits ==
    ASSUME SizesInv, NEW m \in Members, NEW d, DiskFits(d), NEW s, StoreFits(s),
           NEW N, MessagesFit(N), NEW cs, Die(m, d, s, N, cs)
    PROVE  SizesInv'
  <1>1. PICK kept \in Left(s) :
           /\ disk' = [disk EXCEPT ![m] = d] /\ net' = N /\ store' = [store EXCEPT ![m] = kept]
           /\ status' = [status EXCEPT ![m] = "down"]
           /\ raw' = [raw EXCEPT ![m] = Resume(NoDisk, 0)]
           /\ cached' = [cached EXCEPT ![m] = NoSnapshot]
    BY DEF Die
  <1>2. Functions
    BY DEF SizesInv
  <1>3. /\ Functions'
        /\ \A n \in Members \ {m} :
              /\ disk'[n] = disk[n] /\ raw'[n] = raw[n] /\ status'[n] = status[n]
              /\ store'[n] = store[n] /\ cached'[n] = cached[n]
        /\ disk'[m] = d /\ store'[m] = kept /\ cached'[m] = NoSnapshot /\ status'[m] = "down"
    BY <1>1, <1>2 DEF Functions
  <1>4. StoreFits(kept)
    BY DEF Left, StoreFits
  <1>5. SnapFits(NoSnapshot)
    <2>1. <<>> \in Seq({}) /\ Len(<<>>) = 0
      OBVIOUS
    <2> QED
      BY <2>1 DEF SnapFits, NoSnapshot, IsSeq, StoreFits
  <1> QED
    BY <1>1, <1>3, <1>4, <1>5, MemberFits DEF Up

(* Installing a snapshot leaves the log at least as long as it was.          *)
LEMMA InstallFits ==
    ASSUME NEW d, DiskFits(d), NEW s, SnapFits(s)
    PROVE  /\ DiskFits(install_snapshot(d, s)) /\ install_snapshot(d, s).commit = d.commit
           /\ Len(d.log) <= Len(install_snapshot(d, s).log)
           /\ s.index <= Len(install_snapshot(d, s).log)
  <1> DEFINE tail == SubSeq(d.log, s.index + 1, Len(d.log))
             l == s.log \o tail
  <1>1. IsSeq(d.log) /\ IsSeq(s.log) /\ Len(d.log) \in Nat /\ Len(s.log) \in Nat /\ s.index = Len(s.log)
    BY SeqSizes DEF DiskFits, SnapFits
  <1>2. IsSeq(tail) /\ Len(tail) = IF s.index <= Len(d.log) THEN Len(d.log) - s.index ELSE 0
    BY <1>1, SeqSizes
  <1> HIDE DEF tail
  <1>3. IsSeq(l) /\ Len(l) = Len(s.log) + Len(tail)
    BY <1>1, <1>2, SeqSizes
  <1>4. Len(l) \in Nat /\ Len(d.log) <= Len(l) /\ s.index <= Len(l) /\ s.index \in Nat
    <2>1. Len(l) = s.index + Len(tail)
      BY <1>1, <1>3
    <2>2. CASE s.index <= Len(d.log)
      <3>1. Len(tail) = Len(d.log) - s.index
        BY <1>2, <2>2
      <3> QED
        BY <1>1, <2>1, <2>2, <3>1
    <2>3. CASE ~(s.index <= Len(d.log))
      <3>1. Len(tail) = 0
        BY <1>2, <2>3
      <3> QED
        BY <1>1, <2>1, <2>3, <3>1
    <2> QED
      BY <2>2, <2>3
  <1>5. install_snapshot(d, s) = [d EXCEPT !.log = l, !.snap = s.index]
    BY DEF install_snapshot, l, tail
  <1> HIDE DEF l
  <1> DEFINE e == [d EXCEPT !.log = l, !.snap = s.index]
  <1>6. e.log = l /\ e.snap = s.index /\ e.commit = d.commit /\ HasLog(e)
    BY DEF DiskFits, HasLog
  <1>7. d.commit \in 0 .. Len(d.log)
    BY DEF DiskFits
  <1>8. d.commit \in 0 .. Len(l) /\ s.index \in Nat
    BY <1>1, <1>4, <1>7
  <1>9. DiskFits(e)
    BY <1>3, <1>6, <1>8 DEF DiskFits
  <1> HIDE DEF e
  <1> QED
    BY <1>4, <1>5, <1>6, <1>9 DEF e

(* Appending what is not stable leaves the whole log.                        *)
LEMMA AppendFits ==
    ASSUME NEW d, DiskFits(d), NEW l, IsSeq(l), NEW i \in 0 .. Len(l), i <= Len(d.log), d.commit <= Len(l)
    PROVE  LET e == append(d, i + 1, SubSeq(l, i + 1, Len(l)))
           IN  DiskFits(e) /\ e.commit = d.commit /\ Len(e.log) = Len(l)
  <1> DEFINE head == SubSeq(d.log, 1, i)
             tail == SubSeq(l, i + 1, Len(l))
             k == head \o tail
             e == [d EXCEPT !.log = k]
  <1>1. IsSeq(d.log) /\ Len(d.log) \in Nat /\ Len(l) \in Nat /\ i \in Nat /\ i \in 0 .. Len(d.log)
    <2>1. IsSeq(d.log)
      BY DEF DiskFits
    <2>2. Len(d.log) \in Nat /\ Len(l) \in Nat
      BY <2>1, SeqSizes
    <2> QED
      BY <2>1, <2>2
  <1>2. IsSeq(head) /\ Len(head) = i
    BY <1>1, SeqSizes
  <1>3. IsSeq(tail) /\ Len(tail) = Len(l) - i
    BY <1>1, SeqSizes
  <1>4. append(d, i + 1, tail) = e
    <2>1. (i + 1) - 1 = i
      BY <1>1
    <2> QED
      BY <2>1 DEF append
  <1> HIDE DEF head, tail
  <1>5. IsSeq(k) /\ Len(k) = Len(head) + Len(tail)
    BY <1>2, <1>3, SeqSizes
  <1>6. Len(k) = Len(l)
    BY <1>1, <1>2, <1>3, <1>5
  <1> HIDE DEF k
  <1>7. e.log = k /\ e.commit = d.commit /\ e.snap = d.snap /\ HasLog(e)
    BY DEF DiskFits, HasLog
  <1>8. d.commit \in 0 .. Len(k) /\ d.snap \in Nat
    BY <1>1, <1>6 DEF DiskFits
  <1> HIDE DEF e
  <1>9. DiskFits(e)
    BY <1>5, <1>7, <1>8 DEF DiskFits
  <1> QED
    BY <1>4, <1>6, <1>7, <1>9 DEF tail

(* The hard state may name any index the log reaches.                        *)
LEMMA StateFits ==
    ASSUME NEW d, DiskFits(d), NEW r, r.commit \in 0 .. Len(d.log)
    PROVE  LET e == set_hard_state(d, r)
           IN  DiskFits(e) /\ e.commit = r.commit /\ e.log = d.log
  <1> DEFINE e == [d EXCEPT !.term = r.term, !.vote = r.vote, !.commit = r.commit]
  <1>1. e.log = d.log /\ e.commit = r.commit /\ e.snap = d.snap /\ HasLog(e)
    BY DEF DiskFits, HasLog
  <1>2. set_hard_state(d, r) = e
    BY DEF set_hard_state
  <1> HIDE DEF e
  <1>3. DiskFits(e)
    BY <1>1 DEF DiskFits
  <1> QED
    BY <1>1, <1>2, <1>3

(* What a member says of its log fits it.                                    *)
LEMMA BroadcastFits ==
    ASSUME NEW N, MessagesFit(N), NEW m, NEW r, IsSeq(r.log), r.commit \in 0 .. Len(r.log)
    PROVE  MessagesFit(N \cup bcast_append(m, r))
  <1> DEFINE a == [type |-> "append", from |-> m, term |-> r.term, log |-> r.log,
                   commit |-> r.commit, snap |-> disk[m].snap]
  <1>1. a.log = r.log /\ a.commit = r.commit
    OBVIOUS
  <1>2. bcast_append(m, r) \in {{a}, {}}
    BY DEF bcast_append
  <1> HIDE DEF a
  <1> QED
    BY <1>1, <1>2 DEF MessagesFit, Appends

(* Messages that carry no log fit.                                           *)
LEMMA OthersFit ==
    ASSUME NEW N, MessagesFit(N), NEW M, Appends(M) = {}
    PROVE  MessagesFit(N \cup M)
  BY DEF MessagesFit, Appends

(* Where a pass applies up to, before it writes and after.                   *)
LEMMA ReadyApplies ==
    ASSUME NEW r, RawFits(r)
    PROVE  LET c1 == Max({r.applied, Min({r.commit, r.stable})})
           IN  /\ c1 \in Nat /\ r.applied <= c1 /\ c1 <= r.commit
               /\ r.applied \in Nat /\ r.commit \in Nat /\ r.stable \in Nat /\ Len(r.log) \in Nat
               /\ r.commit <= Len(r.log) /\ r.stable <= Len(r.log)
  <1>1. /\ r.applied \in Nat /\ r.commit \in Nat /\ r.stable \in Nat /\ Len(r.log) \in Nat
        /\ r.commit <= Len(r.log) /\ r.stable <= Len(r.log) /\ r.applied <= r.commit
    <2>1. IsSeq(r.log)
      BY DEF RawFits
    <2>2. Len(r.log) \in Nat
      BY <2>1, SeqSizes
    <2> QED
      BY <2>2 DEF RawFits
  <1> DEFINE b == Min({r.commit, r.stable})
  <1>2. b \in Nat /\ b <= r.commit
    <2>1. b = IF r.commit <= r.stable THEN r.commit ELSE r.stable
      BY <1>1, OfTwo
    <2> HIDE DEF b
    <2> QED
      BY <1>1, <2>1
  <1> HIDE DEF b
  <1> DEFINE c == Max({r.applied, b})
  <1>3. c = IF r.applied >= b THEN r.applied ELSE b
    BY <1>1, <1>2, OfTwo
  <1> HIDE DEF c
  <1>4. c \in Nat /\ r.applied <= c /\ c <= r.commit
    BY <1>1, <1>2, <1>3
  <1> QED
    BY <1>1, <1>4 DEF c, b

(* What a pass has once its log and its state are written.                   *)
LEMMA StagesFit ==
    ASSUME SizesInv, NEW m \in Members, NEW r, ReadyFits(m, r), NEW N
    PROVE  LET d1 == IF r.restored = NoSnapshot THEN disk[m] ELSE install_snapshot(disk[m], r.restored)
               d2 == IF r.stable < Len(r.log)
                     THEN append(d1, r.stable + 1, SubSeq(r.log, r.stable + 1, Len(r.log))) ELSE d1
               d3 == set_hard_state(d2, r)
               r4 == [Advanced(r) EXCEPT !.commit = Committed(Advanced(r), N)]
               d4 == set_hard_state(d3, r4)
           IN  /\ DiskFits(d1) /\ DiskFits(d2) /\ DiskFits(d3) /\ DiskFits(d4)
               /\ r.commit <= r4.commit /\ d4.commit = r4.commit
               /\ r4.log = r.log /\ r4.commit \in 0 .. Len(r.log) /\ IsSeq(r4.log)
               /\ r4.stable = Len(r.log) /\ r4.restored = NoSnapshot
               /\ RawFields \subseteq DOMAIN r4
               /\ Len(r.log) <= Len(d4.log)
  <1> DEFINE d1 == IF r.restored = NoSnapshot THEN disk[m] ELSE install_snapshot(disk[m], r.restored)
             d2 == IF r.stable < Len(r.log)
                   THEN append(d1, r.stable + 1, SubSeq(r.log, r.stable + 1, Len(r.log))) ELSE d1
             d3 == set_hard_state(d2, r)
             r3 == Advanced(r)
             r4 == [r3 EXCEPT !.commit = Committed(r3, N)]
             d4 == set_hard_state(d3, r4)
  <1>1. /\ r.commit \in Nat /\ r.stable \in Nat /\ Len(r.log) \in Nat /\ r.stable \in 0 .. Len(r.log)
        /\ r.commit <= Len(r.log) /\ r.stable <= Len(r.log) /\ IsSeq(r.log)
        /\ RawFields \subseteq DOMAIN r /\ r.commit \in 0 .. Len(r.log)
    <2>1. RawFits(r)
      BY DEF ReadyFits
    <2> QED
      BY <2>1, ReadyApplies DEF RawFits
  <1>2. DiskFits(d1) /\ d1.commit = disk[m].commit /\ r.stable <= Len(d1.log)
    <2>1. DiskFits(disk[m])
      BY DEF SizesInv
    <2>2. CASE r.restored = NoSnapshot
      BY <2>1, <2>2 DEF ReadyFits
    <2>3. CASE r.restored # NoSnapshot
      <3>1. SnapFits(r.restored) /\ r.stable = r.restored.index
        BY <2>3 DEF ReadyFits
      <3>2. d1 = install_snapshot(disk[m], r.restored)
        BY <2>3
      <3> HIDE DEF d1
      <3> QED
        BY <2>1, <3>1, <3>2, InstallFits
    <2> QED
      BY <2>2, <2>3
  <1>3. d1.commit <= r.commit /\ d1.commit \in Nat /\ Len(d1.log) \in Nat
    <2>1. IsSeq(d1.log) /\ d1.commit \in 0 .. Len(d1.log)
      BY <1>2 DEF DiskFits
    <2>2. disk[m].commit <= r.commit
      BY DEF ReadyFits
    <2> HIDE DEF d1
    <2>3. Len(d1.log) \in Nat
      BY <2>1, SeqSizes
    <2> QED
      BY <1>2, <2>1, <2>2, <2>3
  <1> HIDE DEF d1
  <1>4. DiskFits(d2) /\ Len(r.log) <= Len(d2.log) /\ Len(d2.log) \in Nat
    <2>1. CASE r.stable < Len(r.log)
      <3> DEFINE e == append(d1, r.stable + 1, SubSeq(r.log, r.stable + 1, Len(r.log)))
      <3>1. d1.commit <= Len(r.log)
        BY <1>1, <1>3
      <3>2. DiskFits(e) /\ Len(e.log) = Len(r.log)
        BY <1>1, <1>2, <3>1, AppendFits
      <3>3. d2 = e
        BY <2>1
      <3> HIDE DEF e, d2
      <3> QED
        BY <1>1, <3>2, <3>3
    <2>2. CASE ~(r.stable < Len(r.log))
      <3>1. d2 = d1 /\ r.stable = Len(r.log)
        BY <1>1, <2>2
      <3> HIDE DEF d2
      <3> QED
        BY <1>2, <1>3, <3>1
    <2> QED
      BY <2>1, <2>2
  <1> HIDE DEF d2
  <1>5. DiskFits(d3) /\ d3.log = d2.log
    <2>1. r.commit \in 0 .. Len(d2.log)
      BY <1>1, <1>4
    <2> QED
      BY <1>4, <2>1, StateFits
  <1>6. /\ r3.log = r.log /\ r3.commit = r.commit /\ r3.stable = Len(r.log) /\ r3.restored = NoSnapshot
        /\ RawFields \subseteq DOMAIN r3
    BY <1>1 DEF Advanced, RawFields
  <1> HIDE DEF d3, r3
  <1>7. Committed(r3, N) \in r.commit .. Len(r.log)
    <2>1. Len(r3.log) \in Nat /\ r3.commit \in 0 .. Len(r3.log)
      BY <1>1, <1>6
    <2>2. Committed(r3, N) \in r3.commit .. Len(r3.log)
      BY <2>1, CommittedFits
    <2> QED
      BY <1>6, <2>2
  <1>8. /\ r4.log = r.log /\ r4.commit = Committed(r3, N) /\ r4.stable = Len(r.log)
        /\ r4.restored = NoSnapshot /\ RawFields \subseteq DOMAIN r4
    BY <1>6 DEF RawFields
  <1> HIDE DEF r4
  <1>9. r4.commit \in 0 .. Len(r.log) /\ r.commit <= r4.commit /\ r4.commit \in 0 .. Len(d3.log)
    BY <1>1, <1>4, <1>5, <1>7, <1>8
  <1>10. DiskFits(d4) /\ d4.commit = r4.commit /\ d4.log = d3.log
    BY <1>5, <1>9, StateFits
  <1> HIDE DEF d4
  <1>11. Len(r.log) <= Len(d4.log)
    BY <1>4, <1>5, <1>10
  <1>12. IsSeq(r4.log)
    BY <1>1, <1>8
  <1> QED
    BY <1>2, <1>4, <1>5, <1>8, <1>9, <1>10, <1>11, <1>12 DEF d1, d2, d3, r3, r4, d4

(* A pass, and a death in it, keeps the sizes.                               *)
LEMMA PassFits ==
    ASSUME SizesInv, NEW m \in Members, Up(m), NEW r, ReadyFits(m, r),
           NEW out, Appends(out) = {}, NEW cs, on_ready(m, r, out, cs)
    PROVE  SizesInv'
  <1> DEFINE s1 == IF r.restored = NoSnapshot THEN store[m] ELSE r.restored.state
             d1 == IF r.restored = NoSnapshot THEN disk[m] ELSE install_snapshot(disk[m], r.restored)
             c1 == Max({r.applied, Min({r.commit, r.stable})})
             k1 == StopsAt(r.log, r.applied, c1)
             s2 == ApplyTo(s1, r.log, r.applied, k1 - 1)
             d2 == IF r.stable < Len(r.log)
                   THEN append(d1, r.stable + 1, SubSeq(r.log, r.stable + 1, Len(r.log))) ELSE d1
             d3 == set_hard_state(d2, r)
             early == SentUnpersisted(m, r, out)
             sent == early \cup persisted_messages(m, r, out)
             r4 == [Advanced(r) EXCEPT !.commit = Committed(Advanced(r), sent)]
             d4 == set_hard_state(d3, r4)
             k2 == StopsAt(r.log, c1, r4.commit)
             s4 == ApplyTo(s2, r.log, c1, k2 - 1)
             sent4 == sent \cup bcast_append(m, r4)
             stops == k1 <= c1 \/ k2 <= r4.commit
             Told(k) == complete(m, cs, SubSeq(r.log, r.applied + 1, k))
             Dies(d, s, N) == \E ds : Die(m, d, s, N, ds)
  <1>1. \/ /\ disk' = [disk EXCEPT ![m] = IF k1 <= c1 THEN d1 ELSE d4]
           /\ store' = [store EXCEPT ![m] = IF k1 <= c1 THEN s2 ELSE s4]
           /\ net' = IF k1 <= c1 THEN early ELSE sent4
           /\ raw' = [raw EXCEPT ![m] = [r4 EXCEPT !.applied = k2 - 1]]
           /\ status' = [status EXCEPT ![m] = IF stops THEN "stopped" ELSE @]
           /\ UNCHANGED cached
        \/ Die(m, disk[m], s1, early, cs)
        \/ \E k \in r.applied .. k1 - 1 :
              Die(m, d1, ApplyTo(s1, r.log, r.applied, k), early, Told(k))
        \/ k1 > c1 /\ \/ Die(m, d2, s2, early, Told(c1))
                      \/ Die(m, d3, s2, early, Told(c1))
                      \/ \E k \in c1 .. k2 - 1 :
                            Die(m, d4, ApplyTo(s2, r.log, c1, k), sent4, Told(k))
                      \/ Die(m, d3, s2, sent, Told(c1))
    BY DEF on_ready, Advanced
  <1>2. /\ c1 \in Nat /\ r.applied <= c1 /\ c1 <= r.commit /\ r.applied \in Nat /\ r.commit \in Nat
        /\ r.commit \in 0 .. Len(r.log) /\ Len(r.log) \in Nat /\ IsSeq(r.log)
    <2>1. RawFits(r)
      BY DEF ReadyFits
    <2> QED
      BY <2>1, ReadyApplies DEF RawFits
  <1>3. /\ DiskFits(d1) /\ DiskFits(d2) /\ DiskFits(d3) /\ DiskFits(d4) /\ DiskFits(disk[m])
        /\ r.commit <= r4.commit /\ d4.commit = r4.commit
        /\ r4.log = r.log /\ r4.commit \in 0 .. Len(r.log) /\ IsSeq(r4.log)
        /\ r4.stable = Len(r.log) /\ r4.restored = NoSnapshot
        /\ RawFields \subseteq DOMAIN r4
        /\ Len(r.log) <= Len(d4.log)
    BY StagesFit DEF SizesInv
  <1>4. StoreFits(s1)
    BY DEF SizesInv, ReadyFits, SnapFits
  <1>5. MessagesFit(early) /\ MessagesFit(sent) /\ MessagesFit(sent4)
    <2>1. MessagesFit(net)
      BY DEF SizesInv
    <2>2. MessagesFit(net \cup bcast_append(m, r))
      BY <1>2, <2>1, BroadcastFits
    <2>3. early = net \cup bcast_append(m, r)
      BY DEF SentUnpersisted
    <2>4. Appends(persisted_messages(m, r, out)) = {}
      BY DEF persisted_messages, Appends, Ack
    <2> HIDE DEF early
    <2>5. MessagesFit(sent)
      BY <2>2, <2>3, <2>4, OthersFit
    <2> HIDE DEF sent, r4
    <2>6. r4.commit \in 0 .. Len(r4.log)
      BY <1>3
    <2> QED
      BY <1>3, <2>2, <2>3, <2>5, <2>6, BroadcastFits
  <1> HIDE DEF s1, d1, c1, k1, d2, d3, d4, r4, early, sent, sent4
  <1>6. k1 \in r.applied + 1 .. c1 + 1
    BY <1>2, StopsAtIs DEF k1
  <1>7. r4.commit \in Nat /\ c1 <= r4.commit /\ r4.commit <= Len(r.log)
    BY <1>2, <1>3
  <1>8. k2 \in c1 + 1 .. r4.commit + 1
    BY <1>2, <1>7, StopsAtIs
  <1> HIDE DEF k2
  <1>9. k1 - 1 \in Nat /\ k2 - 1 \in Nat /\ k2 - 1 <= r4.commit
    BY <1>2, <1>6, <1>7, <1>8
  <1>10. StoreFits(s2)
    BY <1>2, <1>4, <1>9, AppliedFits
  <1> HIDE DEF s2
  <1>11. StoreFits(s4)
    BY <1>2, <1>9, <1>10, AppliedFits
  <1> HIDE DEF s4
  <1>12. ASSUME NEW d, DiskFits(d), NEW s, StoreFits(s), NEW N, MessagesFit(N), Dies(d, s, N)
         PROVE  SizesInv'
    <2>1. PICK ds : Die(m, d, s, N, ds)
      BY <1>12
    <2> QED
      BY <1>12, <2>1, DeathFits
  <1>13. CASE \E d, s, N : DiskFits(d) /\ StoreFits(s) /\ MessagesFit(N) /\ Dies(d, s, N)
    <2> HIDE DEF Dies
    <2> QED
      BY <1>12, <1>13
  <1>14. ASSUME \/ Die(m, disk[m], s1, early, cs)
                \/ \E k \in r.applied .. k1 - 1 :
                      Die(m, d1, ApplyTo(s1, r.log, r.applied, k), early, Told(k))
                \/ Die(m, d2, s2, early, Told(c1))
                \/ Die(m, d3, s2, early, Told(c1))
                \/ \E k \in c1 .. k2 - 1 :
                      Die(m, d4, ApplyTo(s2, r.log, c1, k), sent4, Told(k))
                \/ Die(m, d3, s2, sent, Told(c1))
         PROVE  SizesInv'
    <2>1. ASSUME NEW k \in r.applied .. k1 - 1 PROVE StoreFits(ApplyTo(s1, r.log, r.applied, k))
      <3>1. k \in Nat
        BY <1>2, <1>6
      <3> QED
        BY <1>2, <1>4, <3>1, AppliedFits
    <2>2. ASSUME NEW k \in c1 .. k2 - 1 PROVE StoreFits(ApplyTo(s2, r.log, c1, k))
      <3>1. k \in Nat
        BY <1>2, <1>8
      <3> QED
        BY <1>2, <1>10, <3>1, AppliedFits
    <2>3. \/ Dies(disk[m], s1, early) \/ Dies(d2, s2, early) \/ Dies(d3, s2, early) \/ Dies(d3, s2, sent)
          \/ \E k \in r.applied .. k1 - 1 : Dies(d1, ApplyTo(s1, r.log, r.applied, k), early)
          \/ \E k \in c1 .. k2 - 1 : Dies(d4, ApplyTo(s2, r.log, c1, k), sent4)
      <3> HIDE DEF Told
      <3> QED
        BY <1>14
    <2> HIDE DEF Dies
    <2> QED
      BY <1>3, <1>4, <1>5, <1>10, <1>13, <2>1, <2>2, <2>3
  <1>15. CASE /\ disk' = [disk EXCEPT ![m] = IF k1 <= c1 THEN d1 ELSE d4]
              /\ store' = [store EXCEPT ![m] = IF k1 <= c1 THEN s2 ELSE s4]
              /\ net' = IF k1 <= c1 THEN early ELSE sent4
              /\ raw' = [raw EXCEPT ![m] = [r4 EXCEPT !.applied = k2 - 1]]
              /\ status' = [status EXCEPT ![m] = IF stops THEN "stopped" ELSE @]
              /\ UNCHANGED cached
    <2> DEFINE rn == [r4 EXCEPT !.applied = k2 - 1]
    <2>1. Functions
      BY DEF SizesInv
    <2>2. /\ Functions'
          /\ \A n \in Members \ {m} :
                /\ disk'[n] = disk[n] /\ raw'[n] = raw[n] /\ status'[n] = status[n]
                /\ store'[n] = store[n] /\ cached'[n] = cached[n]
          /\ disk'[m] = (IF k1 <= c1 THEN d1 ELSE d4) /\ store'[m] = (IF k1 <= c1 THEN s2 ELSE s4)
          /\ raw'[m] = rn /\ status'[m] = (IF stops THEN "stopped" ELSE status[m])
          /\ cached'[m] = cached[m]
      <3> HIDE DEF rn, stops
      <3> QED
        BY <1>15, <2>1 DEF Functions, rn
    <2>3. DiskFits(disk'[m]) /\ StoreFits(store'[m]) /\ MessagesFit(net') /\ SnapFits(cached'[m])
      BY <1>3, <1>5, <1>10, <1>11, <1>15, <2>2 DEF SizesInv
    <2>4. status'[m] # "refused"
      BY <2>2 DEF Up
    <2>5. rn.log = r4.log /\ rn.commit = r4.commit /\ rn.stable = r4.stable
          /\ rn.restored = r4.restored /\ rn.applied = k2 - 1 /\ RawFields \subseteq DOMAIN rn
      BY <1>3 DEF RawFields
    <2> HIDE DEF rn
    <2>6. RawFits(rn)
      <3>1. k2 - 1 \in 0 .. r4.commit
        BY <1>7, <1>9
      <3>2. rn.stable \in 0 .. Len(rn.log)
        BY <1>2, <1>3, <2>5
      <3> QED
        BY <1>3, <2>5, <3>1, <3>2 DEF RawFits
    <2>7. Up(m)' => disk'[m] = d4
      BY <2>2 DEF Up
    <2>8. Up(m)' => ReadyFits(m, raw[m])' /\ raw'[m].restored = NoSnapshot
      <3>1. d4.commit <= rn.commit /\ rn.stable <= Len(d4.log) /\ rn.restored = NoSnapshot
        BY <1>3, <1>7, <2>5
      <3> QED
        BY <2>2, <2>6, <2>7, <3>1 DEF ReadyFits
    <2> QED
      BY <2>2, <2>3, <2>4, <2>8, MemberFits
  <1> QED
    BY <1>1, <1>14, <1>15

(* Two states of a member of one size.                                       *)
SameSizes(r, s) ==
    /\ RawFields \subseteq DOMAIN r
    /\ r.log = s.log /\ r.stable = s.stable /\ r.commit = s.commit
    /\ r.applied = s.applied /\ r.restored = s.restored

(* A change of role, term or vote changes no size.                           *)
LEMMA SameSizesFit ==
    ASSUME NEW m, NEW s, ReadyFits(m, s), NEW r, SameSizes(r, s)
    PROVE  ReadyFits(m, r)
  BY DEF ReadyFits, RawFits, SameSizes

(* What a member that runs is.                                               *)
LEMMA RunningFits ==
    ASSUME SizesInv, NEW m \in Members, Up(m)
    PROVE  /\ ReadyFits(m, raw[m]) /\ raw[m].restored = NoSnapshot
           /\ RawFields \subseteq DOMAIN raw[m] /\ IsSeq(raw[m].log) /\ Len(raw[m].log) \in Nat
           /\ raw[m].commit \in 0 .. Len(raw[m].log) /\ raw[m].stable \in 0 .. Len(raw[m].log)
           /\ raw[m].stable <= Len(disk[m].log) /\ Len(disk[m].log) \in Nat
           /\ raw[m].applied \in 0 .. raw[m].commit
           /\ disk[m].commit <= raw[m].commit /\ disk[m].commit \in Nat
           /\ \A term : SameSizes(CatchTerm(raw[m], term), raw[m])
  <1>1. ReadyFits(m, raw[m]) /\ raw[m].restored = NoSnapshot /\ DiskFits(disk[m])
    BY DEF SizesInv
  <1>2. RawFits(raw[m])
    BY <1>1 DEF ReadyFits
  <1>3. Len(raw[m].log) \in Nat
    BY <1>2, SeqSizes DEF RawFits
  <1>4. IsSeq(disk[m].log) /\ disk[m].commit \in 0 .. Len(disk[m].log)
    BY <1>1 DEF DiskFits
  <1>5. Len(disk[m].log) \in Nat
    BY <1>4, SeqSizes
  <1>6. \A term : SameSizes(CatchTerm(raw[m], term), raw[m])
    BY <1>2 DEF CatchTerm, SameSizes, RawFits, RawFields
  <1> QED
    BY <1>1, <1>2, <1>3, <1>4, <1>5, <1>6 DEF ReadyFits, RawFits

(* A request for votes, and the answer to one.                               *)
LEMMA VotesFit ==
    ASSUME SizesInv, NEW m \in Members,
           tick_campaign(m) \/ \E req \in net : step_request(m, req)
    PROVE  SizesInv'
  <1>1. Up(m)
    BY DEF tick_campaign, step_request
  <1>2. /\ ReadyFits(m, raw[m]) /\ RawFields \subseteq DOMAIN raw[m]
        /\ \A term : SameSizes(CatchTerm(raw[m], term), raw[m])
    BY <1>1, RunningFits
  <1>3. CASE tick_campaign(m)
    <2> DEFINE r == Campaign(raw[m], m)
               out == {[type |-> "request", from |-> m, term |-> raw[m].term + 1,
                        last |-> Len(raw[m].log), last_term |-> LastTerm(raw[m].log)]}
    <2>1. on_ready(m, r, out, calls)
      BY <1>3 DEF tick_campaign
    <2>2. SameSizes(r, raw[m])
      BY <1>2 DEF SameSizes, Campaign, RawFields
    <2>3. Appends(out) = {}
      BY DEF Appends
    <2> HIDE DEF r, out
    <2>4. ReadyFits(m, r)
      BY <1>2, <2>2, SameSizesFit
    <2> QED
      BY <1>1, <2>1, <2>3, <2>4, PassFits
  <1>4. ASSUME NEW req \in net, step_request(m, req) PROVE SizesInv'
    <2> DEFINE r == CatchTerm(raw[m], req.term)
               s == [r EXCEPT !.vote = req.from]
               out == {[type |-> "vote", from |-> m, to |-> req.from, term |-> req.term]}
    <2>1. on_ready(m, s, out, calls) \/ on_ready(m, r, {}, calls)
      BY <1>4 DEF step_request
    <2>2. SameSizes(r, raw[m])
      BY <1>2
    <2> HIDE DEF r
    <2>3. SameSizes(s, raw[m])
      BY <2>2 DEF SameSizes, RawFields
    <2>4. Appends(out) = {} /\ Appends({}) = {}
      BY DEF Appends
    <2> HIDE DEF s, out
    <2>5. ReadyFits(m, r) /\ ReadyFits(m, s)
      BY <1>2, <2>2, <2>3, SameSizesFit
    <2> QED
      BY <1>1, <2>1, <2>4, <2>5, PassFits
  <1> QED
    BY <1>3, <1>4

(* A leader's log grows by an entry, or its commit index within it.          *)
LEMMA LeadersFit ==
    ASSUME SizesInv, NEW m \in Members,
           \/ step_votes(m)
           \/ step_acks(m)
           \/ \E c \in DOMAIN calls : handle_propose(m, c) /\ raw[m].role = "leader"
    PROVE  SizesInv'
  <1>1. Up(m)
    BY DEF step_votes, step_acks, handle_propose
  <1>2. /\ ReadyFits(m, raw[m]) /\ raw[m].restored = NoSnapshot
        /\ RawFields \subseteq DOMAIN raw[m] /\ IsSeq(raw[m].log) /\ Len(raw[m].log) \in Nat
        /\ raw[m].commit \in 0 .. Len(raw[m].log) /\ raw[m].stable \in 0 .. Len(raw[m].log)
        /\ raw[m].stable <= Len(disk[m].log)
        /\ raw[m].applied \in 0 .. raw[m].commit
        /\ disk[m].commit <= raw[m].commit /\ disk[m].commit \in Nat
    BY <1>1, RunningFits
  <1>3. Appends({}) = {}
    BY DEF Appends
  <1>4. ASSUME NEW e, NEW r, RawFields \subseteq DOMAIN r, r.log = Append(raw[m].log, e),
               r.stable = raw[m].stable, r.commit = raw[m].commit, r.applied = raw[m].applied,
               r.restored = raw[m].restored, NEW cs, on_ready(m, r, {}, cs)
        PROVE  SizesInv'
    <2>1. IsSeq(r.log) /\ Len(r.log) = Len(raw[m].log) + 1
      BY <1>2, <1>4, SeqSizes
    <2>2. r.commit \in 0 .. Len(r.log) /\ r.stable \in 0 .. Len(r.log)
      BY <1>2, <1>4, <2>1
    <2>3. RawFits(r)
      BY <1>2, <1>4, <2>1, <2>2 DEF RawFits
    <2>4. ReadyFits(m, r)
      BY <1>2, <1>4, <2>3 DEF ReadyFits
    <2> QED
      BY <1>1, <1>3, <1>4, <2>4, PassFits
  <1>5. CASE step_votes(m)
    <2> DEFINE r == Lead(raw[m])
               e == NoCommand(raw[m].term)
    <2>1. on_ready(m, r, {}, calls)
      BY <1>5 DEF step_votes
    <2>2. /\ RawFields \subseteq DOMAIN r /\ r.log = Append(raw[m].log, e)
          /\ r.stable = raw[m].stable /\ r.commit = raw[m].commit /\ r.applied = raw[m].applied
          /\ r.restored = raw[m].restored
      BY <1>2 DEF Lead, RawFields
    <2> HIDE DEF r, e
    <2> QED
      BY <1>4, <2>1, <2>2
  <1>6. CASE \E c \in DOMAIN calls : handle_propose(m, c) /\ raw[m].role = "leader"
    <2>1. PICK c \in DOMAIN calls : handle_propose(m, c) /\ raw[m].role = "leader"
      BY <1>6
    <2> DEFINE e == [term |-> raw[m].term, id |-> calls[c].id, cmd |-> c]
               r == [raw[m] EXCEPT !.log = Append(raw[m].log, e)]
               cs == [calls EXCEPT ![c].queued = FALSE]
    <2>2. on_ready(m, r, {}, cs)
      BY <2>1 DEF handle_propose
    <2>3. /\ RawFields \subseteq DOMAIN r /\ r.log = Append(raw[m].log, e)
          /\ r.stable = raw[m].stable /\ r.commit = raw[m].commit /\ r.applied = raw[m].applied
          /\ r.restored = raw[m].restored
      BY <1>2 DEF RawFields
    <2> HIDE DEF r, e, cs
    <2> QED
      BY <1>4, <2>2, <2>3
  <1>7. CASE step_acks(m)
    <2> DEFINE c == Committed(raw[m], net)
               r == [raw[m] EXCEPT !.commit = c]
    <2>1. on_ready(m, r, {}, calls)
      BY <1>7 DEF step_acks
    <2>2. c \in raw[m].commit .. Len(raw[m].log)
      BY <1>2, CommittedFits
    <2>3. /\ RawFields \subseteq DOMAIN r /\ r.log = raw[m].log
          /\ r.stable = raw[m].stable /\ r.commit = c /\ r.applied = raw[m].applied
          /\ r.restored = raw[m].restored
      BY <1>2 DEF RawFields
    <2> HIDE DEF c, r
    <2>4. c \in 0 .. Len(raw[m].log) /\ raw[m].applied \in 0 .. c /\ disk[m].commit <= c
      BY <1>2, <2>2
    <2>5. RawFits(r)
      BY <1>2, <2>3, <2>4 DEF RawFits
    <2>6. ReadyFits(m, r)
      BY <1>2, <2>3, <2>4, <2>5 DEF ReadyFits
    <2> QED
      BY <1>1, <1>3, <2>1, <2>6, PassFits
  <1> QED
    BY <1>5, <1>6, <1>7

(* An append replaces a log from where it departs from it, which is above    *)
(* what is committed here.                                                   *)
LEMMA AppendStepFits ==
    ASSUME SizesInv, NEW m \in Members, NEW a \in net, step_append(m, a)
    PROVE  SizesInv'
  <1> DEFINE r0 == CatchTerm(raw[m], a.term)
             n == Matching(r0.log, a.log)
             r == AcceptAppend(r0, a)
             out == {Ack(m, a.term, Len(a.log))}
  <1>1. Up(m) /\ a.type = "append" /\ ~Contradicts(raw[m], a) /\ on_ready(m, r, out, calls)
    BY DEF step_append
  <1>2. /\ RawFields \subseteq DOMAIN raw[m] /\ IsSeq(raw[m].log) /\ Len(raw[m].log) \in Nat
        /\ raw[m].commit \in 0 .. Len(raw[m].log) /\ raw[m].stable \in 0 .. Len(raw[m].log)
        /\ raw[m].stable <= Len(disk[m].log) /\ Len(disk[m].log) \in Nat
        /\ raw[m].applied \in 0 .. raw[m].commit /\ raw[m].restored = NoSnapshot
        /\ disk[m].commit <= raw[m].commit /\ disk[m].commit \in Nat
        /\ SameSizes(r0, raw[m])
    BY <1>1, RunningFits
  <1>3. IsSeq(a.log) /\ a.commit \in 0 .. Len(a.log) /\ Len(a.log) \in Nat
    <2>1. IsSeq(a.log) /\ a.commit \in 0 .. Len(a.log)
      BY <1>1 DEF SizesInv, MessagesFit, Appends
    <2> QED
      BY <2>1, SeqSizes
  <1>4. /\ RawFields \subseteq DOMAIN r0 /\ r0.log = raw[m].log /\ r0.stable = raw[m].stable
        /\ r0.commit = raw[m].commit /\ r0.applied = raw[m].applied /\ r0.restored = NoSnapshot
    BY <1>2 DEF SameSizes
  <1> HIDE DEF r0
  <1>5. n \in Nat /\ n <= Len(raw[m].log) /\ n <= Len(a.log)
    BY <1>2, <1>3, <1>4, MatchingFits
  <1>6. n < Len(a.log) => raw[m].commit <= n
    <2>1. ~(n < Len(a.log) /\ n < raw[m].commit)
      BY <1>1, <1>4 DEF Contradicts
    <2> QED
      BY <1>2, <1>5, <2>1
  <1> DEFINE c == Max({r0.commit, a.commit})
             p == Min({r0.stable, n})
  <1>7. c = (IF raw[m].commit >= a.commit THEN raw[m].commit ELSE a.commit)
        /\ p = (IF raw[m].stable <= n THEN raw[m].stable ELSE n)
    <2>1. raw[m].commit \in Nat /\ a.commit \in Nat /\ raw[m].stable \in Nat
      BY <1>2, <1>3
    <2> QED
      BY <1>4, <1>5, <2>1, OfTwo
  <1>8. /\ RawFields \subseteq DOMAIN r /\ r.restored = NoSnapshot /\ r.applied = raw[m].applied
        /\ r.log = (IF n < Len(a.log) THEN a.log ELSE raw[m].log)
        /\ r.stable = (IF n < Len(a.log) THEN p ELSE raw[m].stable)
        /\ r.commit = c
    BY <1>4 DEF AcceptAppend, RawFields
  <1>9. Appends(out) = {}
    BY DEF Appends, Ack
  <1> HIDE DEF n, r, c, p, out
  <1>10. c \in Nat /\ raw[m].commit <= c /\ c <= (IF n < Len(a.log) THEN Len(a.log) ELSE Len(raw[m].log))
    BY <1>2, <1>3, <1>5, <1>6, <1>7
  <1>11. IsSeq(r.log) /\ r.commit \in 0 .. Len(r.log) /\ r.stable \in 0 .. Len(r.log)
         /\ r.stable <= Len(disk[m].log)
    <2>1. CASE n < Len(a.log)
      BY <1>2, <1>3, <1>5, <1>7, <1>8, <1>10, <2>1
    <2>2. CASE ~(n < Len(a.log))
      BY <1>2, <1>8, <1>10, <2>2
    <2> QED
      BY <2>1, <2>2
  <1>12. r.applied \in 0 .. r.commit /\ disk[m].commit <= r.commit
    BY <1>2, <1>8, <1>10
  <1>13. ReadyFits(m, r)
    BY <1>8, <1>11, <1>12 DEF ReadyFits, RawFits
  <1> QED
    BY <1>1, <1>9, <1>13, PassFits

(* A snapshot received is as long as it says.                                *)
LEMMA SnapshotStepFits ==
    ASSUME SizesInv, NEW l \in Members, NEW m \in Members, step_snapshot(l, m)
    PROVE  SizesInv'
  <1> DEFINE s == cached[l]
             r0 == CatchTerm(raw[m], raw[l].term)
             r == AcceptSnapshot(r0, s)
             out == {Ack(m, raw[l].term, s.index)}
  <1>1. Up(m) /\ s # NoSnapshot /\ s.index > raw[m].commit /\ on_ready(m, r, out, calls)
    BY DEF step_snapshot, Leads
  <1>2. /\ RawFields \subseteq DOMAIN raw[m] /\ IsSeq(raw[m].log) /\ Len(raw[m].log) \in Nat
        /\ raw[m].commit \in 0 .. Len(raw[m].log) /\ raw[m].stable \in 0 .. Len(raw[m].log)
        /\ raw[m].stable <= Len(disk[m].log) /\ Len(disk[m].log) \in Nat
        /\ raw[m].applied \in 0 .. raw[m].commit /\ raw[m].restored = NoSnapshot
        /\ disk[m].commit <= raw[m].commit /\ disk[m].commit \in Nat
        /\ SameSizes(r0, raw[m])
    BY <1>1, RunningFits
  <1>3. SnapFits(s) /\ IsSeq(s.log) /\ s.index = Len(s.log) /\ s.index \in Nat
    <2>1. SnapFits(s)
      BY DEF SizesInv
    <2> QED
      BY <2>1, SeqSizes DEF SnapFits
  <1>4. /\ RawFields \subseteq DOMAIN r0 /\ r0.log = raw[m].log /\ r0.stable = raw[m].stable
        /\ r0.commit = raw[m].commit /\ r0.applied = raw[m].applied /\ r0.restored = NoSnapshot
    BY <1>2 DEF SameSizes
  <1>5. Appends(out) = {}
    BY DEF Appends, Ack
  <1> HIDE DEF r0, s, out
  <1>6. CASE IsPrefix(s.log, r0.log)
    <2> DEFINE c == Max({r0.commit, s.index})
    <2>1. s.index <= Len(raw[m].log)
      BY <1>3, <1>4, <1>6 DEF IsPrefix
    <2>2. c = IF raw[m].commit >= s.index THEN raw[m].commit ELSE s.index
      <3>1. raw[m].commit \in Nat
        BY <1>2
      <3> QED
        BY <1>3, <1>4, <3>1, OfTwo
    <2>3. /\ RawFields \subseteq DOMAIN r /\ r.log = raw[m].log /\ r.stable = raw[m].stable
          /\ r.commit = c /\ r.applied = raw[m].applied /\ r.restored = NoSnapshot
      BY <1>4, <1>6 DEF AcceptSnapshot, RawFields
    <2> HIDE DEF c, r
    <2>4. c \in 0 .. Len(raw[m].log) /\ raw[m].commit <= c
      BY <1>2, <1>3, <2>1, <2>2
    <2>5. raw[m].applied \in 0 .. c /\ disk[m].commit <= c
      BY <1>2, <2>4
    <2>6. ReadyFits(m, r)
      BY <1>2, <2>3, <2>4, <2>5 DEF ReadyFits, RawFits
    <2> QED
      BY <1>1, <1>5, <2>6, PassFits
  <1>7. CASE ~IsPrefix(s.log, r0.log)
    <2>1. /\ RawFields \subseteq DOMAIN r /\ r.log = s.log /\ r.stable = s.index
          /\ r.commit = s.index /\ r.applied = s.index /\ r.restored = s
      BY <1>4, <1>7 DEF AcceptSnapshot, RawFields
    <2> HIDE DEF r
    <2>2. s.index \in 0 .. Len(s.log) /\ s.index \in 0 .. s.index /\ disk[m].commit <= s.index
      BY <1>1, <1>2, <1>3
    <2>3. s # NoSnapshot
      BY <1>1
    <2>4. ReadyFits(m, r)
      BY <1>3, <2>1, <2>2, <2>3 DEF ReadyFits, RawFits
    <2> QED
      BY <1>1, <1>5, <2>4, PassFits
  <1> QED
    BY <1>6, <1>7

(* A snapshot taken is, too.                                                 *)
LEMMA SnapshotTakenFits ==
    ASSUME SizesInv, NEW m \in Members, maintain_snapshot(m)
    PROVE  SizesInv'
  <1> DEFINE a == raw[m].applied
             s == [index |-> a, log |-> SubSeq(raw[m].log, 1, a), state |-> store[m]]
  <1>1. /\ Up(m) /\ disk' = [disk EXCEPT ![m] = install_snapshot(disk[m], s)]
        /\ cached' = [cached EXCEPT ![m] = s]
        /\ UNCHANGED <<store, raw, status, net>>
    BY DEF maintain_snapshot
  <1>2. /\ ReadyFits(m, raw[m]) /\ raw[m].restored = NoSnapshot /\ IsSeq(raw[m].log)
        /\ raw[m].applied \in 0 .. raw[m].commit /\ raw[m].commit \in 0 .. Len(raw[m].log)
        /\ raw[m].stable <= Len(disk[m].log) /\ Len(disk[m].log) \in Nat /\ Len(raw[m].log) \in Nat
        /\ raw[m].stable \in 0 .. Len(raw[m].log)
    BY <1>1, RunningFits
  <1>3. SnapFits(s)
    <2>1. a \in 0 .. Len(raw[m].log)
      BY <1>2
    <2>2. IsSeq(SubSeq(raw[m].log, 1, a)) /\ Len(SubSeq(raw[m].log, 1, a)) = a
      BY <1>2, <2>1, SeqSizes
    <2>3. StoreFits(store[m])
      BY DEF SizesInv
    <2> QED
      BY <2>2, <2>3 DEF SnapFits
  <1> DEFINE d == install_snapshot(disk[m], s)
  <1>4. DiskFits(disk[m]) /\ Functions /\ StoreFits(store[m]) /\ MessagesFit(net)
    BY DEF SizesInv
  <1> HIDE DEF s
  <1>5. DiskFits(d) /\ d.commit = disk[m].commit /\ Len(disk[m].log) <= Len(d.log)
    BY <1>3, <1>4, InstallFits
  <1> HIDE DEF d
  <1>6. /\ Functions' /\ disk'[m] = d /\ cached'[m] = s
        /\ \A n \in Members \ {m} :
              /\ disk'[n] = disk[n] /\ raw'[n] = raw[n] /\ status'[n] = status[n]
              /\ store'[n] = store[n] /\ cached'[n] = cached[n]
    BY <1>1, <1>4 DEF Functions, d
  <1>7. ReadyFits(m, raw[m])'
    <2>1. Len(d.log) \in Nat
      BY <1>5, SeqSizes DEF DiskFits
    <2>2. raw[m].stable <= Len(d.log)
      BY <1>2, <1>5, <2>1
    <2>3. RawFits(raw[m]) /\ d.commit <= raw[m].commit
      BY <1>2, <1>5 DEF ReadyFits
    <2> QED
      BY <1>1, <1>2, <1>6, <2>2, <2>3 DEF ReadyFits
  <1>8. store'[m] = store[m] /\ net' = net /\ raw'[m] = raw[m] /\ status'[m] # "refused"
    BY <1>1 DEF Up
  <1> QED
    BY <1>2, <1>3, <1>4, <1>5, <1>6, <1>7, <1>8, MemberFits

(* A member whose store is within its log starts.                            *)
LEMMA StartFits ==
    ASSUME SizesInv, NEW m \in Members, start(m)
    PROVE  SizesInv'
  <1> DEFINE applied == applied_index(store[m])
             d == reconcile(disk[m], applied)
             starts == ~BehindTheStore(disk[m], applied) /\ CanResume(d, applied)
             s == Resume(d, applied)
  <1>1. /\ disk' = [disk EXCEPT ![m] = IF BehindTheStore(disk[m], applied) THEN disk[m] ELSE d]
        /\ raw' = [raw EXCEPT ![m] = IF starts THEN s ELSE raw[m]]
        /\ status' = [status EXCEPT ![m] = IF starts THEN "up" ELSE "refused"]
        /\ store' = store /\ cached' = cached /\ net' = net
    BY DEF start
  <1>2. DiskFits(disk[m]) /\ Functions /\ StoreFits(store[m]) /\ SnapFits(cached[m]) /\ MessagesFit(net)
    BY DEF SizesInv
  <1>3. /\ IsSeq(disk[m].log) /\ Len(disk[m].log) \in Nat /\ disk[m].commit \in 0 .. Len(disk[m].log)
        /\ disk[m].snap \in Nat /\ HasLog(disk[m])
    BY <1>2, SeqSizes DEF DiskFits
  <1>4. applied \in Nat
    BY <1>2, AppliedIndexFits
  <1> HIDE DEF applied
  <1> DEFINE top == IF disk[m].commit >= applied THEN disk[m].commit ELSE applied
  <1>5. d = [disk[m] EXCEPT !.commit = top]
    <2>1. Max({disk[m].commit, applied}) = top
      <3>1. disk[m].commit \in Nat
        BY <1>3
      <3> QED
        BY <1>4, <3>1, OfTwo
    <2> QED
      BY <2>1 DEF reconcile
  <1> HIDE DEF top, d
  <1>6. d.log = disk[m].log /\ d.snap = disk[m].snap /\ d.commit = top /\ HasLog(d)
    BY <1>3, <1>5 DEF HasLog
  <1>7. /\ top \in Nat /\ applied <= top /\ disk[m].commit <= top
        /\ ~BehindTheStore(disk[m], applied) => top <= Len(disk[m].log)
    BY <1>3, <1>4 DEF top, BehindTheStore
  <1>8. ~BehindTheStore(disk[m], applied) => DiskFits(d)
    BY <1>3, <1>6, <1>7 DEF DiskFits
  <1>9. /\ Functions'
        /\ disk'[m] = (IF BehindTheStore(disk[m], applied) THEN disk[m] ELSE d)
        /\ raw'[m] = (IF starts THEN s ELSE raw[m])
        /\ status'[m] = (IF starts THEN "up" ELSE "refused")
        /\ \A n \in Members \ {m} :
              /\ disk'[n] = disk[n] /\ raw'[n] = raw[n] /\ status'[n] = status[n]
              /\ store'[n] = store[n] /\ cached'[n] = cached[n]
    <2> HIDE DEF starts, s
    <2> QED
      BY <1>1, <1>2 DEF Functions
  <1>10. DiskFits(disk'[m])
    BY <1>2, <1>8, <1>9
  <1>11. ASSUME starts
         PROVE  /\ ReadyFits(m, raw[m])' /\ raw'[m].restored = NoSnapshot
                /\ status'[m] # "refused"
    <2>1. disk'[m] = d /\ raw'[m] = s /\ status'[m] = "up" /\ DiskFits(d)
      BY <1>8, <1>9, <1>11
    <2>2. CanResume(d, applied)
      BY <1>11
    <2> DEFINE b == Max({applied, disk[m].snap})
    <2>3. b = IF applied >= disk[m].snap THEN applied ELSE disk[m].snap
      BY <1>3, <1>4, OfTwo
    <2>4. s = [role |-> "follower", term |-> d.term, vote |-> d.vote, log |-> d.log,
               stable |-> Len(d.log), commit |-> d.commit, restored |-> NoSnapshot, applied |-> b]
      BY <1>6 DEF Resume
    <2> HIDE DEF b, s, starts
    <2>5. d.commit \in Nat /\ disk[m].snap <= d.commit /\ applied <= d.commit
      BY <1>3, <1>6, <1>7, <2>2 DEF CanResume
    <2>6. b \in 0 .. d.commit
      BY <1>3, <1>4, <2>3, <2>5
    <2>7. /\ RawFields \subseteq DOMAIN s /\ s.log = d.log /\ s.stable = Len(d.log)
          /\ s.commit = d.commit /\ s.restored = NoSnapshot /\ s.applied = b
      BY <2>4 DEF RawFields
    <2>8. IsSeq(d.log) /\ Len(d.log) \in Nat /\ d.commit \in 0 .. Len(d.log)
      BY <1>3, <1>6, <2>1 DEF DiskFits
    <2>9. /\ s.stable \in 0 .. Len(s.log) /\ s.stable <= Len(d.log) /\ d.commit <= s.commit
          /\ s.commit \in 0 .. Len(s.log) /\ s.applied \in 0 .. s.commit
      BY <2>5, <2>6, <2>7, <2>8
    <2>10. RawFits(s)
      BY <2>7, <2>8, <2>9 DEF RawFits
    <2>11. ReadyFits(m, raw[m])'
      BY <2>1, <2>7, <2>9, <2>10 DEF ReadyFits
    <2> QED
      BY <2>1, <2>7, <2>11
  <1>12. ASSUME ~starts
         PROVE  /\ ~Up(m)'
                /\ applied \notin disk[m].snap .. Len(disk[m].log)
    <2>1. ~Up(m)'
      BY <1>9, <1>12 DEF Up
    <2>2. ASSUME applied \in disk[m].snap .. Len(disk[m].log) PROVE FALSE
      <3>1. ~BehindTheStore(disk[m], applied)
        BY <1>3, <1>4, <2>2 DEF BehindTheStore
      <3>2. top <= Len(disk[m].log) /\ disk[m].snap <= top
        BY <1>3, <1>4, <1>7, <2>2, <3>1
      <3>3. d.commit \in d.snap .. Len(d.log) /\ applied \in d.snap .. d.commit
        BY <1>3, <1>4, <1>6, <1>7, <2>2, <3>2
      <3>4. CanResume(d, applied)
        BY <3>3 DEF CanResume
      <3> QED
        BY <1>12, <3>1, <3>4
    <2> QED
      BY <2>1, <2>2
  <1> HIDE DEF starts, s
  <1>13. Up(m)' => ReadyFits(m, raw[m])' /\ raw'[m].restored = NoSnapshot
    BY <1>11, <1>12
  <1>14. status'[m] = "refused" => applied_index(store'[m]) \notin disk'[m].snap .. Len(disk'[m].log)
    <2>1. disk'[m].snap = disk[m].snap /\ disk'[m].log = disk[m].log
      BY <1>6, <1>9
    <2>2. status'[m] = "refused" => applied \notin disk[m].snap .. Len(disk[m].log)
      BY <1>11, <1>12
    <2> QED
      BY <1>1, <2>1, <2>2 DEF applied
  <1>15. StoreFits(store'[m]) /\ SnapFits(cached'[m]) /\ MessagesFit(net')
    BY <1>1, <1>2
  <1> QED
    BY <1>9, <1>10, <1>13, <1>14, <1>15, MemberFits

(* The sizes hold at the start.                                              *)
LEMMA SizesInitially == Init => SizesInv
  <1> SUFFICES ASSUME Init PROVE SizesInv
    OBVIOUS
  <1>1. /\ \A m \in Members : /\ disk[m] = NoDisk /\ raw[m] = Resume(NoDisk, 0) /\ store[m] = {}
                              /\ cached[m] = NoSnapshot /\ status[m] = "up"
        /\ Functions /\ net = {}
    BY DEF Init, Functions
  <1>2. IsSeq(<<>>) /\ Len(<<>>) = 0
    <2>1. <<>> \in Seq({}) /\ Len(<<>>) = 0
      OBVIOUS
    <2> QED
      BY <2>1 DEF IsSeq
  <1>3. /\ DiskFits(NoDisk) /\ NoDisk.log = <<>> /\ NoDisk.commit = 0 /\ NoDisk.snap = 0
        /\ SnapFits(NoSnapshot) /\ StoreFits({})
    BY <1>2 DEF NoDisk, DiskFits, HasLog, SnapFits, NoSnapshot, StoreFits
  <1>4. \A m \in Members : ReadyFits(m, raw[m]) /\ raw[m].restored = NoSnapshot
    <2>1. Max({0, 0}) = 0
      BY OfTwo
    <2> DEFINE r == Resume(NoDisk, 0)
    <2>2. /\ RawFields \subseteq DOMAIN r /\ r.log = <<>> /\ r.stable = 0 /\ r.commit = 0
          /\ r.restored = NoSnapshot /\ r.applied = 0
      BY <1>2, <1>3, <2>1 DEF Resume, RawFields
    <2> HIDE DEF r
    <2>3. RawFits(r)
      BY <1>2, <2>2 DEF RawFits
    <2>4. \A m \in Members : ReadyFits(m, r)
      BY <1>1, <1>2, <1>3, <2>2, <2>3 DEF ReadyFits
    <2> QED
      BY <1>1, <2>2, <2>4 DEF r
  <1>5. MessagesFit(net) /\ StartsFromItsLog
    BY <1>1 DEF MessagesFit, Appends, StartsFromItsLog
  <1> QED
    BY <1>1, <1>3, <1>4, <1>5 DEF SizesInv

(* A commit index never runs ahead of the log beside it, and a snapshot is   *)
(* as long as it says: what a restart rests on, and what it then decides.    *)
THEOREM SizesHold == Spec => []SizesInv
  <1>1. SizesInv /\ [Next]_repVars => SizesInv'
    <2> SUFFICES ASSUME SizesInv, [Next]_repVars PROVE SizesInv'
      OBVIOUS
    <2>1. ASSUME UNCHANGED <<disk, store, raw, cached, status, net>> PROVE SizesInv'
      <3>1. Functions' /\ MessagesFit(net') /\ StartsFromItsLog'
        BY <2>1 DEF SizesInv, Functions, StartsFromItsLog
      <3>2. \A m \in Members : Up(m)' => ReadyFits(m, raw[m])' /\ raw'[m].restored = NoSnapshot
        BY <2>1 DEF SizesInv, Up, ReadyFits
      <3> QED
        BY <2>1, <3>1, <3>2 DEF SizesInv
    <2>2. ASSUME NEW m \in Members, kill(m) PROVE SizesInv'
      BY <2>2, DeathFits DEF kill, SizesInv
    <2>3. ASSUME NEW m \in Members, propose(m) PROVE SizesInv'
      BY <2>1, <2>3 DEF propose, durable
    <2>4. ASSUME NEW m \in Members, NEW c \in DOMAIN calls, handle_propose(m, c) PROVE SizesInv'
      <3>1. CASE raw[m].role = "leader"
        BY <2>4, <3>1, LeadersFit
      <3>2. CASE raw[m].role # "leader"
        BY <2>1, <2>4, <3>2 DEF handle_propose, durable, volatile
      <3> QED
        BY <3>1, <3>2
    <2>5. ASSUME NEW c \in DOMAIN calls, give_up(c) PROVE SizesInv'
      BY <2>1, <2>5 DEF give_up, durable, volatile
    <2>6. ASSUME NEW m \in Members,
                 tick_campaign(m) \/ step_votes(m) \/ step_acks(m) \/ propose(m)
                    \/ maintain_snapshot(m) \/ kill(m) \/ start(m)
          PROVE  SizesInv'
      BY <2>2, <2>3, <2>6, VotesFit, LeadersFit, SnapshotTakenFits, StartFits
    <2>7. CASE UNCHANGED repVars
      BY <2>1, <2>7 DEF repVars, durable, volatile
    <2> QED
      BY <2>4, <2>5, <2>6, <2>7, VotesFit, AppendStepFits, SnapshotStepFits DEF Next
  <1> QED
    BY <1>1, SizesInitially, PTL DEF Spec

(* A member is refused a start only by a store that stands outside its log.  *)
THEOREM RefusedForItsStore == Spec => []StartsFromItsLog
  <1>1. SizesInv => StartsFromItsLog
    BY DEF SizesInv
  <1> QED
    BY <1>1, SizesHold, PTL
=============================================================================
