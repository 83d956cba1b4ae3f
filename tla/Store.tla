------------------------------- MODULE Store -------------------------------
(***************************************************************************)
(* nodestore's state machine (crates/nodestore/src/store.rs): an           *)
(* append-only table of row versions with a revision counter, leases and   *)
(* a member address book, changed only by Store::apply_at.                 *)
(*                                                                         *)
(* apply_at runs a command inside one sqlite transaction.  The transaction *)
(* is modelled at the grain of the code's loops: `tx.db` is the            *)
(* transaction's view of the database, `tx.todo` what is left to run, and  *)
(* `db` the committed database, which is all a reader ever sees.  Commit   *)
(* installs the view; an error (the `?` of every helper) drops it.         *)
(***************************************************************************)
EXTENDS Integers, Sequences, FiniteSets

CONSTANTS
    Keys,        \* keys, as integers: sqlite compares them bytewise
    Commands,    \* the commands a client or a background loop may propose
    MaxIndex     \* bound: commands applied in one behaviour

(* The commands of command.rs.  Values, leases and times are integers.  *)
PutOp    == [op : {"put"}, key : Keys, value : Int, lease : Int,
             ignore_value : BOOLEAN, ignore_lease : BOOLEAN]
DeleteOp == [op : {"delete"}, range : SUBSET Keys]
RangeOp  == [op : {"range"}, range : SUBSET Keys, revision : Int]
RequestOp == PutOp \cup DeleteOp \cup RangeOp
Compare  == [key : Keys, operand : Int,
             target : {"version", "create", "mod", "value", "lease"},
             result : {"Equal", "NotEqual", "Greater", "Less"}]
TxnOp    == [op : {"txn"}, compare : SUBSET Compare,
             success : Seq(RequestOp), failure : Seq(RequestOp)]
Command  ==
    PutOp \cup DeleteOp \cup TxnOp
    \cup [op : {"compact"}, revision : Int]
    \cup [op : {"lease_grant"}, id : Int, ttl : Int, now : Int]
    \cup [op : {"lease_keep_alive"}, id : Int, now : Int]
    \cup [op : {"lease_revoke"}, id : Int]
    \cup [op : {"expire_leases"}, now : Int]
    \cup [op : {"set_member"}, member : [id : Int, is_learner : BOOLEAN]]
    \cup [op : {"remove_member"}, id : Int]

ASSUME KeysAreOrdered     == Keys \subseteq Int
ASSUME CommandsAreTyped   == Commands \subseteq Command
ASSUME MaxIndexIsNat      == MaxIndex \in Nat

VARIABLES
    db,      \* the committed database
    tx,      \* the open transaction, or NoTx
    live,    \* history: every event handed to the watch hub
    past     \* history: past[r] is what the store held when r was current

vars == <<db, tx, live, past>>

NoTx == [open |-> FALSE]

(* What a lookup of an absent key compares as: KeyValue::default(). *)
ZeroKv == [key |-> 0, value |-> 0, create |-> 0, mod |-> 0, version |-> 0, lease |-> 0]

Kv(r) == [key |-> r.key, value |-> r.value, create |-> r.create,
          mod |-> r.rev, version |-> r.version, lease |-> r.lease]

(* ORDER BY revision DESC, sub DESC *)
Newer(a, b) == a.rev > b.rev \/ (a.rev = b.rev /\ a.sub > b.sub)

Newest(rows) == {r \in rows : \A s \in rows : s.key = r.key => ~Newer(s, r)}

(* Tombstones are filtered after the newest row of each key is chosen. *)
range_in(rows, range, at) ==
    {r \in Newest({s \in rows : s.key \in range /\ s.rev <= at}) : ~r.deleted}

current_in_with_tombstones(rows, range) ==      \* variant: not filtered
    Newest({s \in rows : s.key \in range})

current_in(rows, range) ==
    {r \in Newest({s \in rows : s.key \in range}) : ~r.deleted}

lease_keys(rows, id) == {r \in current_in(rows, Keys) : r.lease = id}

Lowest(rows) == CHOOSE r \in rows : \A s \in rows : r.key <= s.key

Contents(rows) == {Kv(r) : r \in current_in(rows, Keys)}

(***************************************************************************)
(* Reads.                                                                  *)
(***************************************************************************)

(* Store::range refuses a compacted revision and one still to come; 0 and   *)
(* below mean the current one.                                              *)
Readable(d, revision) == revision <= 0 \/ revision \in d.compact_revision + 1 .. d.revision

range(d, keys, revision) ==
    {Kv(r) : r \in range_in(d.kv, keys, IF revision <= 0 THEN d.revision ELSE revision)}

(* Store::row_at: the row of `key` at exactly `revision`, the index order   *)
(* giving the lowest sub first; a tombstone resolves to nothing.            *)
row_at(rows, key, revision) ==
    LET at == {r \in rows : r.key = key /\ r.rev = revision}
    IN  {Kv(r) : r \in {x \in at : (\A s \in at : x.sub <= s.sub) /\ ~x.deleted}}

EventOf(r, prev) ==
    [rev |-> r.rev, sub |-> r.sub, delete |-> r.deleted,
     kv |-> IF r.deleted THEN [ZeroKv EXCEPT !.key = r.key, !.mod = r.rev] ELSE Kv(r),
     prev |-> prev]

(* Store::events_since: the watch replay; defined when since is not         *)
(* compacted.                                                               *)
events_since_inclusive(d, since) ==      \* variant: >= for >
    {EventOf(r, row_at(d.kv, r.key, r.prev)) : r \in {x \in d.kv : x.rev >= since}}

events_since(d, since) ==
    {EventOf(r, row_at(d.kv, r.key, r.prev)) : r \in {x \in d.kv : x.rev > since}}

(***************************************************************************)
(* Writes, inside the open transaction.                                    *)
(***************************************************************************)

evaluate_compare_create(rows, c) ==      \* variant: mod compares as create
    LET cur == current_in(rows, {c.key})
        kv  == IF cur = {} THEN ZeroKv ELSE Kv(CHOOSE r \in cur : TRUE)
        is  == IF c.target = "mod" THEN kv.create ELSE kv[c.target]
    IN  CASE c.result = "Equal"    -> is = c.operand
          [] c.result = "NotEqual" -> is # c.operand
          [] c.result = "Greater"  -> is > c.operand
          [] c.result = "Less"     -> is < c.operand

evaluate_compare(rows, c) ==
    LET cur == current_in(rows, {c.key})
        kv  == IF cur = {} THEN ZeroKv ELSE Kv(CHOOSE r \in cur : TRUE)
    IN  CASE c.result = "Equal"    -> kv[c.target] = c.operand
          [] c.result = "NotEqual" -> kv[c.target] # c.operand
          [] c.result = "Greater"  -> kv[c.target] > c.operand
          [] c.result = "Less"     -> kv[c.target] < c.operand

(* Writer::take_sub and the INSERT: one more row at the pending revision. *)
InsertUnmarked(t, row, prev) ==      \* variant: the revision is not used up
    LET r == [row EXCEPT !.rev = t.next, !.sub = t.sub]
    IN  [t EXCEPT !.db.kv  = @ \cup {r},
                  !.sub    = @ + 1,
                  !.events = @ \cup {EventOf(r, {Kv(p) : p \in prev})}]

InsertSameSub(t, row, prev) ==      \* variant: sub is not taken
    LET r == [row EXCEPT !.rev = t.next, !.sub = t.sub]
    IN  [t EXCEPT !.db.kv  = @ \cup {r},
                  !.used   = TRUE,
                  !.events = @ \cup {EventOf(r, {Kv(p) : p \in prev})}]

Insert(t, row, prev) ==
    LET r == [row EXCEPT !.rev = t.next, !.sub = t.sub]
    IN  [t EXCEPT !.db.kv  = @ \cup {r},
                  !.sub    = @ + 1,
                  !.used   = TRUE,
                  !.events = @ \cup {EventOf(r, {Kv(p) : p \in prev})}]

PutRow(t, op, prev) ==
    LET p == CHOOSE r \in prev : TRUE
    IN  [rev |-> 0, sub |-> 0, key |-> op.key, deleted |-> FALSE,
         value   |-> IF op.ignore_value THEN p.value ELSE op.value,
         lease   |-> IF op.ignore_lease THEN p.lease ELSE op.lease,
         create  |-> IF prev = {} THEN t.next ELSE p.create,
         version |-> IF prev = {} THEN 1 ELSE p.version + 1,
         prev    |-> IF prev = {} THEN 0 ELSE p.rev]

TombstoneOfNothing(r) ==      \* variant: prev_revision is not kept
    [rev |-> 0, sub |-> 0, key |-> r.key, deleted |-> TRUE, value |-> 0,
     lease |-> 0, create |-> 0, version |-> 0, prev |-> 0]

Tombstone(r) ==
    [rev |-> 0, sub |-> 0, key |-> r.key, deleted |-> TRUE, value |-> 0,
     lease |-> 0, create |-> 0, version |-> 0, prev |-> r.rev]

(* One iteration of apply_delete's loop, over its victims in key order. *)
DeleteOne(t, victims) == Insert(t, Tombstone(Lowest(victims)), {Lowest(victims)})

Pop(t) == [t EXCEPT !.todo = Tail(@)]

Op(kind) == tx.open /\ tx.todo # <<>> /\ Head(tx.todo).op = kind

Step(t) == tx' = t /\ UNCHANGED <<db, live, past>>

Rollback == tx' = NoTx /\ UNCHANGED <<db, live, past>>

apply_put ==
    /\ Op("put")
    /\ LET op   == Head(tx.todo)
           prev == current_in(tx.db.kv, {op.key})
       IN  IF (op.ignore_value \/ op.ignore_lease) /\ prev = {}
           THEN Rollback                                      \* KeyNotFound
           ELSE Step(Pop(Insert(tx, PutRow(tx, op, prev), prev)))

apply_delete ==
    /\ Op("delete")
    /\ LET victims == current_in(tx.db.kv, Head(tx.todo).range)
       IN  Step(IF victims = {} THEN Pop(tx) ELSE DeleteOne(tx, victims))

(* RequestOp::Range: what it answers does not change the store. *)
apply_range == Op("range") /\ Step(Pop(tx))

apply_compact_drops_live ==      \* variant: the newest row of a key goes too
    /\ Op("compact")
    /\ LET r == Head(tx.todo).revision
       IN  IF r <= tx.db.compact_revision \/ r > tx.db.revision
           THEN Rollback
           ELSE Step(Pop([tx EXCEPT !.db.kv = {x \in @ : x.rev > r},
                                    !.db.compact_revision = r]))

apply_compact ==
    /\ Op("compact")
    /\ LET r    == Head(tx.todo).revision
           old  == {x \in tx.db.kv : x.rev <= r}
           kept == {x \in Newest(old) : ~x.deleted}
       IN  IF r <= tx.db.compact_revision \/ r > tx.db.revision
           THEN Rollback                           \* Compacted, FutureRevision
           ELSE Step(Pop([tx EXCEPT !.db.kv = (@ \ old) \cup kept,
                                    !.db.compact_revision = r]))

Grant(id, ttl, now) ==
    [i \in DOMAIN tx.db.lease \cup {id} |->
        IF i = id THEN [ttl |-> ttl, expires |-> now + ttl] ELSE tx.db.lease[i]]

lease_grant ==
    /\ Op("lease_grant")
    /\ LET op  == Head(tx.todo)
           ttl == IF op.ttl < 1 THEN 1 ELSE op.ttl
       IN  Step(Pop([tx EXCEPT !.db.lease = Grant(op.id, ttl, op.now)]))

(* A keepalive of an unknown lease answers TTL 0 and changes nothing. *)
lease_keep_alive ==
    /\ Op("lease_keep_alive")
    /\ LET op == Head(tx.todo)
       IN  Step(Pop(IF op.id \in DOMAIN tx.db.lease
                    THEN [tx EXCEPT !.db.lease =
                            Grant(op.id, tx.db.lease[op.id].ttl, op.now)]
                    ELSE tx))

(* The order of an index scan of lease_expires. *)
FirstToExpire(lease, ids) ==
    CHOOSE i \in ids : \A j \in ids \ {i} :
        \/ lease[i].expires < lease[j].expires
        \/ lease[i].expires = lease[j].expires /\ i < j

revoke_lease_first_key ==      \* variant: one key goes with the lease
    /\ Op("revoke")
    /\ LET ids     == Head(tx.todo).ids
           id      == FirstToExpire(tx.db.lease, ids)
           victims == lease_keys(tx.db.kv, id)
           dropped == [tx EXCEPT !.todo[1].ids = @ \ {id},
                                 !.db.lease = [i \in DOMAIN @ \ {id} |-> @[i]]]
       IN  Step(IF ids = {} THEN Pop(tx)
                ELSE IF victims # {} THEN DeleteOne(dropped, victims) ELSE dropped)

(* revoke_lease for each id of the operation: delete the keys it holds,     *)
(* one by one, then its row.                                                *)
revoke_lease ==
    /\ Op("revoke")
    /\ LET ids     == Head(tx.todo).ids
           id      == FirstToExpire(tx.db.lease, ids)
           victims == lease_keys(tx.db.kv, id)
           dropped == [tx EXCEPT !.todo[1].ids = @ \ {id},
                                 !.db.lease = [i \in DOMAIN @ \ {id} |-> @[i]]]
       IN  Step(IF ids = {} THEN Pop(tx)
                ELSE IF victims # {} THEN DeleteOne(tx, victims) ELSE dropped)

set_member ==
    /\ Op("set_member")
    /\ LET m == Head(tx.todo).member
       IN  Step(Pop([tx EXCEPT !.db.member = {x \in @ : x.id # m.id} \cup {m}]))

remove_member ==
    /\ Op("remove_member")
    /\ Step(Pop([tx EXCEPT !.db.member = {x \in @ : x.id # Head(tx.todo).id}]))

(***************************************************************************)
(* apply_at.                                                               *)
(***************************************************************************)

Expired(d, now) == {i \in DOMAIN d.lease : d.lease[i].expires <= now}

(* The operations a command runs; a Txn picks its branch first.             *)
Plan(d, cmd) ==
    CASE cmd.op = "txn" ->
            IF \A c \in cmd.compare : evaluate_compare(d.kv, c)
            THEN cmd.success ELSE cmd.failure
      [] cmd.op = "lease_revoke"  -> <<[op |-> "revoke", ids |-> {cmd.id}]>>
      [] cmd.op = "expire_leases" -> <<[op |-> "revoke", ids |-> Expired(d, cmd.now)]>>
      [] OTHER -> <<cmd>>

Begin(cmd) ==
    /\ ~tx.open
    /\ db.applied_index < MaxIndex
    /\ tx' = [open |-> TRUE, cmd |-> cmd, todo |-> Plan(db, cmd), db |-> db,
              next |-> db.revision + 1, sub |-> 0, used |-> FALSE,
              events |-> {}]
    /\ UNCHANGED <<db, live, past>>

(* The revision moves only if a row was written; the applied index is       *)
(* written in the same transaction; Node::apply_committed publishes the     *)
(* events before it releases the store.                                     *)
Commit ==
    /\ tx.open
    /\ tx.todo = <<>>
    /\ db' = [tx.db EXCEPT !.revision = IF tx.used THEN tx.next ELSE @,
                           !.applied_index = @ + 1]
    /\ live' = live \cup tx.events
    /\ past' = IF tx.used THEN Append(past, Contents(tx.db.kv)) ELSE past
    /\ tx' = NoTx

(* A crash loses the open transaction and nothing that was committed. *)
Crash == tx.open /\ Rollback

Init ==
    /\ db = [kv |-> {}, lease |-> <<>>, member |-> {}, revision |-> 1,
             compact_revision |-> 0, applied_index |-> 0]
    /\ tx = NoTx
    /\ live = {}
    /\ past = <<{}>>

(* One step of the open transaction. *)
Run ==
    \/ apply_put
    \/ apply_delete
    \/ apply_range
    \/ apply_compact
    \/ lease_grant
    \/ lease_keep_alive
    \/ revoke_lease
    \/ set_member
    \/ remove_member

Next ==
    \/ \E cmd \in Commands : Begin(cmd)
    \/ Run
    \/ Commit
    \/ Crash

Spec == Init /\ [][Next]_vars

-----------------------------------------------------------------------------
(***************************************************************************)
(* Properties.                                                             *)
(***************************************************************************)

Row == [rev : Nat, sub : Nat, key : Keys, value : Int, create : Nat,
        version : Nat, lease : Int, deleted : BOOLEAN, prev : Nat]

DbOK(d) ==
    /\ d.kv \subseteq Row
    /\ DOMAIN d.lease \subseteq Int
    /\ \A i \in DOMAIN d.lease : d.lease[i] \in [ttl : Int, expires : Int]
    /\ d.member \subseteq [id : Int, is_learner : BOOLEAN]
    /\ d.revision \in Nat \ {0}
    /\ d.compact_revision \in 0 .. d.revision
    /\ d.applied_index \in 0 .. MaxIndex
    /\ \A r \in d.kv : r.rev <= d.revision

(* The shape of the committed database, of the open transaction's view of   *)
(* it, and of the Writer that numbers its rows.                             *)
TypeOK ==
    /\ DbOK(db)
    /\ Len(past) = db.revision
    /\ tx.open =>
        /\ tx.db.kv \subseteq Row
        /\ tx.next = db.revision + 1
        /\ tx.db.revision = db.revision
        /\ tx.used <=> tx.sub > 0
        /\ \A r \in tx.db.kv \ db.kv : r.rev = tx.next /\ r.sub < tx.sub

(* store.rs, "Shape of the data": a read at a past revision is the same     *)
(* query with a different bound.  So a read at any revision that is not     *)
(* compacted answers what a reader saw when that revision was current, and  *)
(* a read at the current one survives any compaction.                       *)
HistoryStable ==
    /\ \A r \in db.compact_revision + 1 .. db.revision : range(db, Keys, r) = past[r]
    /\ range(db, Keys, 0) = past[db.revision]

(* A watcher that replays from any revision events_since accepts is told    *)
(* what the live subscribers were told, each row written once: same kinds,  *)
(* same order, same contents (prev_kv apart).                               *)
ReplayMatchesLive ==
    LET told(e) == [rev |-> e.rev, sub |-> e.sub, delete |-> e.delete, kv |-> e.kv]
    IN  {told(e) : e \in events_since(db, db.compact_revision)} =
        {told(e) : e \in {x \in live : x.rev > db.compact_revision}}

(* The same, where (key, prev_revision) names one row: prev_kv is right if  *)
(* no transaction wrote the superseded key twice.                           *)
WrittenOnce(key, r) == \A x, y \in live :
    x.rev = r /\ y.rev = r /\ x.kv.key = key /\ y.kv.key = key => x = y

ReplayServesPrev ==
    \A x \in live :
        x.rev > db.compact_revision /\ (\A p \in x.prev : WrittenOnce(p.key, p.mod))
            => x \in events_since(db, db.compact_revision)

(* "A key re-created after deletion starts over at version 1 with a new     *)
(* create_revision - it is a different object" (apply_put): create_revision *)
(* names one life of a key, and versions number the writes within it.       *)
VersionsOrderALife ==
    \A a, b \in {r \in db.kv : ~r.deleted} :
        a.key = b.key /\ Newer(b, a) =>
            \/ a.create = b.create /\ a.version < b.version
            \/ a.rev < b.create

(* A command that changes key k, if at all, by deleting it or by one put     *)
(* that carries the mod_revision it was computed from and is guarded on it. *)
Changes(op, k) ==
    \/ op.op = "put" /\ op.key = k
    \/ op.op = "delete" /\ k \in op.range

Basis(put) == [key |-> put.key, target |-> "mod", result |-> "Equal", operand |-> put.value]

Optimistic(cmd, k) ==
    /\ ~(cmd.op = "put" /\ cmd.key = k)
    /\ cmd.op = "txn" =>
        /\ \A i \in DOMAIN cmd.failure : ~(cmd.failure[i].op = "put" /\ cmd.failure[i].key = k)
        /\ \A i \in DOMAIN cmd.success :
              cmd.success[i].op = "put" /\ cmd.success[i].key = k =>
                  /\ ~cmd.success[i].ignore_value
                  /\ Basis(cmd.success[i]) \in cmd.compare
                  /\ \A j \in 1 .. i - 1 : ~Changes(cmd.success[j], k)

(* evaluate_compare, and the apiserver's use of it: a key written only by   *)
(* transactions guarded on the revision they read never loses an update -   *)
(* each version was computed from the one it replaced, whatever was         *)
(* compacted, deleted or created anew between the read and the write.       *)
NoLostUpdate ==
    \A k \in {key \in Keys : \A cmd \in Commands : Optimistic(cmd, key)} :
        \A r \in db.kv : r.key = k /\ ~r.deleted => r.value = r.prev

(* revoke_lease: whatever removes a lease - a revoke or an expiry, of       *)
(* several leases at once - leaves no live key that holds it.               *)
LeaseRevocationComplete ==
    [][\A id \in DOMAIN db.lease \ DOMAIN db'.lease : lease_keys(db'.kv, id) = {}]_vars

(* Store implements EventLog: rows above the compaction point are the log.  *)
EventOfRow(r) == [rev |-> r.rev, sub |-> r.sub, key |-> r.key, delete |-> r.deleted]

Log == INSTANCE EventLog WITH
    log              <- {EventOfRow(r) : r \in {x \in db.kv : x.rev > db.compact_revision}},
    revision         <- db.revision,
    compact_revision <- db.compact_revision

(* A command writes one revision's events or none, and a compaction drops   *)
(* exactly the events at or below its revision - tombstones included.       *)
ImplementsEventLog == Log!LogSpec
=============================================================================
