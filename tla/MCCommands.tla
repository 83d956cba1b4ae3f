----------------------------- MODULE MCCommands -----------------------------
(* Command alphabets for the instances of Store and of what extends it.     *)
EXTENDS Integers

Put(k, v, l)     == [op |-> "put", key |-> k, value |-> v, lease |-> l,
                     ignore_value |-> FALSE, ignore_lease |-> FALSE]
PutKeepValue(k, l) == [Put(k, 0, l) EXCEPT !.ignore_value = TRUE]
PutKeepLease(k, v) == [Put(k, v, 0) EXCEPT !.ignore_lease = TRUE]
Delete(ks)       == [op |-> "delete", range |-> ks]
RangeAt(ks, r)   == [op |-> "range", range |-> ks, revision |-> r]
If(cs, yes, no)  == [op |-> "txn", compare |-> cs, success |-> yes, failure |-> no]
Cmp(k, t, r, v)  == [key |-> k, target |-> t, result |-> r, operand |-> v]
CompactTo(r)     == [op |-> "compact", revision |-> r]
LeaseGrant(i, ttl, now) == [op |-> "lease_grant", id |-> i, ttl |-> ttl, now |-> now]
KeepAlive(i, now)  == [op |-> "lease_keep_alive", id |-> i, now |-> now]
Revoke(i)        == [op |-> "lease_revoke", id |-> i]
Expire(now)      == [op |-> "expire_leases", now |-> now]

(* Writes, deletes, multi-key transactions and compactions. *)
DataCommands ==
    {Put(1, 1, 0), PutKeepLease(1, 2), Delete({1}), Delete({1, 2}),
     If({}, <<Put(1, 3, 0), Put(2, 3, 0)>>, <<>>),
     If({Cmp(1, "version", "Greater", 1)}, <<Delete({1}), Put(2, 4, 0)>>, <<RangeAt({1}, 0)>>)}
    \cup {CompactTo(r) : r \in 2 .. 4}

(* Transactions that write a key twice. *)
RewriteCommands ==
    {Put(1, 1, 0), Delete({1}), CompactTo(2), CompactTo(3),
     If({}, <<Put(1, 2, 0), Put(1, 3, 0)>>, <<>>),
     If({}, <<Delete({1}), Put(1, 4, 0)>>, <<>>),
     If({}, <<Put(1, 5, 0), Delete({1, 2})>>, <<>>),
     If({}, <<Put(2, 5, 0), Delete({1, 2}), Put(1, 6, 0)>>, <<>>)}

(* Leases that are granted, renewed, revoked and expired under their keys. *)
LeaseCommands ==
    {Put(1, 1, 1), Put(2, 1, 1), Put(2, 1, 2), PutKeepValue(1, 2), PutKeepLease(1, 2),
     LeaseGrant(1, 0, 0), LeaseGrant(2, 2, 0), KeepAlive(1, 1), Revoke(1), Expire(1), Expire(2),
     [op |-> "set_member", member |-> [id |-> 1, is_learner |-> TRUE]],
     [op |-> "remove_member", id |-> 1]}

(* Optimistic updates: every write of key 3 is guarded by the mod_revision  *)
(* it was based on, and stores that revision as its value.                  *)
Cas(m) == If({Cmp(3, "mod", "Equal", m)}, <<Put(3, m, 0)>>, <<RangeAt({3}, 0)>>)
CasCommands ==
    {Cas(m) : m \in {0} \cup 2 .. 5} \cup {Delete({3}), Put(2, 1, 0), CompactTo(3), CompactTo(4),
     If({Cmp(3, "create", "NotEqual", 0), Cmp(3, "value", "Less", 3)}, <<Delete({3})>>, <<>>)}

(* Key 1 holds an RBAC object, key 2 does not; a lease may hold both. *)
RbacCommands ==
    {Put(1, 1, 1), Put(1, 2, 0), Put(2, 1, 1), Delete({1, 2}), CompactTo(2), CompactTo(3),
     LeaseGrant(1, 1, 0), Revoke(1), Expire(1),
     If({Cmp(1, "version", "Equal", 1)}, <<Put(2, 2, 0)>>, <<Put(1, 3, 0)>>)}

(* Three keys, so that a transaction's keys need not be neighbours. *)
ReplicaCommands ==
    {Put(2, 1, 1), Delete({1, 2, 3}), LeaseGrant(1, 1, 0), Expire(1), CompactTo(2), CompactTo(3),
     PutKeepValue(2, 0), If({}, <<Put(1, 3, 0), Put(3, 3, 1)>>, <<>>),
     If({Cmp(2, "version", "Greater", 1)}, <<Delete({2})>>, <<Put(1, 4, 0)>>)}
=============================================================================
