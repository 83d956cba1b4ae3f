--------------------------- MODULE MCReplication ---------------------------
(***************************************************************************)
(* Small clusters for TLC.  `story` fixes, for a whole behaviour, what      *)
(* besides elections may happen in it.                                     *)
(***************************************************************************)
EXTENDS Replication, TLC

CONSTANT Stories

VARIABLE story

mcVars == <<repVars, story>>

Interchangeable == Permutations(Members)

NoSnapshots == cached' = [m \in Members |-> NoSnapshot]
GivesUp     == \E c \in DOMAIN calls : calls[c].result = "waiting" /\ calls'[c].result = "unknown"

LeaderSnapshots ==
    \A m \in Members : cached'[m] # cached[m] =>
        raw[m].role = "leader" /\ \A n \in Members \ {m} : cached[n] = NoSnapshot

NoSplitVote == \A q1, q2 \in {q \in net' : q.type = "request"} : q1.term = q2.term => q1 = q2

OneCallEach == \A b, c \in DOMAIN calls' : calls'[b].at = calls'[c].at => b = c

Of(term) == {a \in net : a.type = "append" /\ a.term = term}

(* All take part in the first election.  *)
FirstLeaderOfAll ==
    \A l, m \in Members :
        raw[l].role # "leader" /\ raw'[l].role = "leader" /\ raw'[l].term = 1
            => raw'[m].term >= 1

(* An append overtaken by a later one of its term is not delivered.  *)
Punctual ==
    /\ \A ack \in {k \in net' \ net : k.type = "ack"} :
          \A a \in Of(ack.term) : Len(a.log) <= ack.match
    /\ \A m \in Members : \A a \in Of(raw'[m].term) :
          raw'[m].role = "follower" /\ raw'[m].commit > raw[m].commit => raw'[m].commit >= a.commit

(* A death is followed by an election, or splits one.  *)
ElectsAfterDeath ==
    /\ Len(calls') > 0 => NoSplitVote
    /\ \A q \in net' : q.type = "request" /\ q.term > 1 => deaths' < MaxDeaths

Allowed ==
    /\ FirstLeaderOfAll
    /\ \/ /\ story = "deaths" /\ ElectsAfterDeath
          /\ Punctual /\ NoSnapshots /\ Len(calls') <= 1 /\ (GivesUp => deaths' < deaths)
       \/ /\ story # "deaths"
          /\ NoSplitVote
          /\ \/ story = "delays"   /\ NoSnapshots /\ Len(calls') <= 1
             \/ /\ Punctual
                /\ \/ story = "writes"    /\ NoSnapshots /\ ~GivesUp /\ OneCallEach
                   \/ story = "snapshots" /\ LeaderSnapshots /\ ~GivesUp /\ Len(calls') <= 1
                   \/ story = "refusals"  /\ LeaderSnapshots /\ ~GivesUp
                                          /\ \A m \in Members : raw'[m].term <= 1

MCInit ==
    /\ Init
    /\ story \in Stories
    /\ deaths = IF story = "deaths" THEN MaxDeaths ELSE 0

MCNext == Next /\ Allowed /\ UNCHANGED story

MCSpec == MCInit /\ [][MCNext]_mcVars
=============================================================================
