--------------------------- MODULE ReplicasProofs ---------------------------
(***************************************************************************)
(* Two members' stores under one log, for any commands and any number of   *)
(* them.  The follower may have started from a snapshot, so its rows are   *)
(* not the leader's; what a transaction does depends on less than its      *)
(* rows.  An outline is what it depends on, and the argument is that every *)
(* operation acts on outlines: two transactions with one outline refuse    *)
(* together, or go on together.                                            *)
(***************************************************************************)
EXTENDS Replicas, StoreProofs

-----------------------------------------------------------------------------
(* Outlines.                                                               *)

Outline(t) ==
    [kvs |-> Contents(t.db.kv), lease |-> t.db.lease, member |-> t.db.member,
     revision |-> t.db.revision, compact_revision |-> t.db.compact_revision,
     next |-> t.next, todo |-> t.todo, sub |-> t.sub, used |-> t.used, events |-> t.events]

(* o with a row written, and with none written.                            *)
Writes(o, kvs, e, todo) ==
    [kvs |-> kvs, lease |-> o.lease, member |-> o.member,
     revision |-> o.revision, compact_revision |-> o.compact_revision,
     next |-> o.next, todo |-> todo, sub |-> o.sub + 1, used |-> TRUE,
     events |-> o.events \cup {e}]

Sets(o, lease, member, compacted, todo) ==
    [kvs |-> o.kvs, lease |-> lease, member |-> member,
     revision |-> o.revision, compact_revision |-> compacted,
     next |-> o.next, todo |-> todo, sub |-> o.sub, used |-> o.used, events |-> o.events]

Held(o, R) == {c \in o.kvs : c.key \in R}

Leased(o, id) == {c \in o.kvs : c.lease = id}

PutKv(o, op, prev) ==
    LET p == CHOOSE c \in prev : TRUE
    IN  [key |-> op.key, mod |-> o.next,
         value   |-> IF op.ignore_value THEN p.value ELSE op.value,
         lease   |-> IF op.ignore_lease THEN p.lease ELSE op.lease,
         create  |-> IF prev = {} THEN o.next ELSE p.create,
         version |-> IF prev = {} THEN 1 ELSE p.version + 1]

Puts(o) ==
    LET op   == Head(o.todo)
        prev == Held(o, {op.key})
        kv   == PutKv(o, op, prev)
    IN  Writes(o, {c \in o.kvs : c.key # op.key} \cup {kv},
               [rev |-> o.next, sub |-> o.sub, delete |-> FALSE, kv |-> kv, prev |-> prev],
               Tail(o.todo))

Deletes(o, v) ==
    Writes(o, {c \in o.kvs : c.key # v.key},
           [rev |-> o.next, sub |-> o.sub, delete |-> TRUE,
            kv |-> [ZeroKv EXCEPT !.key = v.key, !.mod = o.next], prev |-> {v}],
           o.todo)

Pops(o) == Sets(o, o.lease, o.member, o.compact_revision, Tail(o.todo))

DeletesOrPops(o) ==
    LET victims == Held(o, Head(o.todo).range)
    IN  IF victims = {} THEN Pops(o) ELSE Deletes(o, Lowest(victims))

Renewed(lease, id, ttl, now) ==
    [i \in DOMAIN lease \cup {id} |->
        IF i = id THEN [ttl |-> ttl, expires |-> now + ttl] ELSE lease[i]]

Grants(o) ==
    LET op  == Head(o.todo)
        ttl == IF op.ttl < 1 THEN 1 ELSE op.ttl
    IN  Sets(o, Renewed(o.lease, op.id, ttl, op.now), o.member, o.compact_revision, Tail(o.todo))

KeepsAlive(o) ==
    LET op == Head(o.todo)
    IN  IF op.id \in DOMAIN o.lease
        THEN Sets(o, Renewed(o.lease, op.id, o.lease[op.id].ttl, op.now), o.member,
                  o.compact_revision, Tail(o.todo))
        ELSE Pops(o)

Revokes(o) ==
    LET ids     == Head(o.todo).ids
        id      == FirstToExpire(o.lease, ids)
        victims == Leased(o, id)
    IN  IF ids = {} THEN Pops(o)
        ELSE IF victims # {} THEN Deletes(o, Lowest(victims))
        ELSE Sets(o, [i \in DOMAIN o.lease \ {id} |-> o.lease[i]], o.member, o.compact_revision,
                  [o.todo EXCEPT ![1].ids = @ \ {id}])

SetsMember(o) ==
    LET m == Head(o.todo).member
    IN  Sets(o, o.lease, {x \in o.member : x.id # m.id} \cup {m}, o.compact_revision, Tail(o.todo))

RemovesMember(o) ==
    Sets(o, o.lease, {x \in o.member : x.id # Head(o.todo).id}, o.compact_revision, Tail(o.todo))

Compacts(o) == Sets(o, o.lease, o.member, Head(o.todo).revision, Tail(o.todo))

(* The error paths of apply_put and apply_compact.                         *)
PutRefused(o) ==
    LET op == Head(o.todo)
    IN  (op.ignore_value \/ op.ignore_lease) /\ Held(o, {op.key}) = {}

CompactRefused(o) ==
    LET r == Head(o.todo).revision
    IN  r <= o.compact_revision \/ r > o.revision

Refuses(o) ==
    \/ Head(o.todo).op = "put" /\ PutRefused(o)
    \/ Head(o.todo).op = "compact" /\ CompactRefused(o)

(* The next outline: the head of the list of operations is run.            *)
Goes(o) ==
    LET k == Head(o.todo).op
    IN  CASE k = "put"              -> Puts(o)
          [] k = "delete"           -> DeletesOrPops(o)
          [] k = "range"            -> Pops(o)
          [] k = "compact"          -> Compacts(o)
          [] k = "lease_grant"      -> Grants(o)
          [] k = "lease_keep_alive" -> KeepsAlive(o)
          [] k = "revoke"           -> Revokes(o)
          [] k = "set_member"       -> SetsMember(o)
          [] k = "remove_member"    -> RemovesMember(o)

-----------------------------------------------------------------------------
(* Transactions on rows, as constants: what both members' transactions     *)
(* are.                                                                    *)

Good(t) ==
    /\ TxFields \subseteq DOMAIN t /\ DbFields \subseteq DOMAIN t.db
    /\ t.open = TRUE
    /\ t.todo \in Seq(Operation)
    /\ t.used \in BOOLEAN /\ (t.used <=> t.sub > 0)
    /\ t.db.revision \in Nat /\ t.db.compact_revision \in Nat
    /\ t.next = t.db.revision + 1
    /\ Numbered(t.db.kv, t.next, t.sub)
    /\ Dense(t.db.kv, t.next, t.sub)

Numbering(t, row) == [row EXCEPT !.rev = t.next, !.sub = t.sub]

Dropped(t, id) ==
    [t EXCEPT !.todo[1].ids = @ \ {id}, !.db.lease = [i \in DOMAIN @ \ {id} |-> @[i]]]

SomeOf(S) == CHOOSE r \in S : TRUE

KvsOf(rows) == {Kv(r) : r \in rows}

(* u is the transaction t one step on.                                     *)
Continues(t, u) ==
    /\ Good(u)
    /\ u.cmd = t.cmd
    /\ u.db.applied_index = t.db.applied_index

(* Running t's next operation: t is dropped where its outline is refused,   *)
(* and goes on to u, as its outline does, where it is not.                 *)
ActsOnOutline(t, u) ==
    \/ Refuses(Outline(t)) /\ u = NoTx
    \/ /\ ~Refuses(Outline(t))
       /\ Continues(t, u)
       /\ Outline(u) = Goes(Outline(t))

-----------------------------------------------------------------------------
(* Contents and the rows they stand for.                                   *)

LEMMA CurrentOf ==
    ASSUME NEW K, NEW n, NEW s, Numbered(K, n, s), NEW R \in SUBSET Keys
    PROVE  current_in(K, R) = {r \in current_in(K, Keys) : r.key \in R}
  <1>1. \A r \in K : r.key \in Keys
    BY DEF Numbered, Row
  <1> QED
    BY <1>1 DEF current_in, Newest

LEMMA KvFields ==
    ASSUME NEW r
    PROVE  /\ Kv(r).key = r.key /\ Kv(r).value = r.value /\ Kv(r).create = r.create
           /\ Kv(r).mod = r.rev /\ Kv(r).version = r.version /\ Kv(r).lease = r.lease
  BY DEF Kv

LEMMA HeldRows ==
    ASSUME NEW t, NEW n, NEW s, Numbered(t.db.kv, n, s), NEW R \in SUBSET Keys
    PROVE  Held(Outline(t), R) = {Kv(r) : r \in current_in(t.db.kv, R)}
  <1>1. Outline(t).kvs = {Kv(r) : r \in current_in(t.db.kv, Keys)}
    BY DEF Outline, Contents
  <1>2. current_in(t.db.kv, R) = {r \in current_in(t.db.kv, Keys) : r.key \in R}
    BY CurrentOf
  <1> QED
    BY <1>1, <1>2, KvFields DEF Held

LEMMA LeasedRows ==
    ASSUME NEW t, NEW id
    PROVE  Leased(Outline(t), id) = KvsOf(lease_keys(t.db.kv, id))
  <1>1. Outline(t).kvs = {Kv(r) : r \in current_in(t.db.kv, Keys)}
    BY DEF Outline, Contents
  <1> QED
    BY <1>1, KvFields DEF lease_keys, Leased, KvsOf

(* A key is held once.                                                     *)
LEMMA HeldOnce ==
    ASSUME NEW K, NEW n, NEW s, Numbered(K, n, s)
    PROVE  \A a, b \in current_in(K, Keys) : a.key = b.key => a = b
  BY NewerIsAnOrder DEF Numbered, current_in, Newest

LEMMA LowestKv ==
    ASSUME NEW K, NEW n, NEW s, Numbered(K, n, s), NEW S \in SUBSET current_in(K, Keys), S # {}
    PROVE  /\ Lowest(S) \in S
           /\ Lowest({Kv(r) : r \in S}) = Kv(Lowest(S))
  <1> DEFINE v == Lowest(S)
             C == {Kv(r) : r \in S}
  <1>1. S \in SUBSET K /\ \A r \in S : r.key \in Int
    BY CurrentRows, KeysAreOrdered DEF Row
  <1>2. v \in S /\ \A r \in S : v.key <= r.key
    BY <1>1, SomeRowIsLowest
  <1>3. \A a, b \in S : a.key = b.key => a = b
    BY HeldOnce
  <1> HIDE DEF v
  <1>4. Kv(v) \in C /\ \A c \in C : Kv(v).key <= c.key
    BY <1>2, KvFields
  <1>5. ASSUME NEW c \in C, \A e \in C : c.key <= e.key PROVE c = Kv(v)
    <2>1. PICK r \in S : c = Kv(r)
      OBVIOUS
    <2>2. r.key <= v.key /\ v.key <= r.key
      BY <1>2, <1>4, <1>5, <2>1, KvFields
    <2> QED
      BY <1>1, <1>2, <1>3, <2>1, <2>2
  <1> HIDE DEF C
  <1>6. Lowest(C) = Kv(v)
    BY <1>4, <1>5 DEF Lowest
  <1> QED
    BY <1>2, <1>6 DEF v, C

(* A row is written: the key holds that row, or nothing.                   *)
LEMMA ContentsAfterInsert ==
    ASSUME NEW K, NEW n, NEW s, Numbered(K, n, s), NEW x, NextRow(x, n, s)
    PROVE  /\ ~x.deleted => Contents(K \cup {x}) = {c \in Contents(K) : c.key # x.key} \cup {Kv(x)}
           /\ x.deleted => Contents(K \cup {x}) = {c \in Contents(K) : c.key # x.key}
  <1> DEFINE L == K \cup {x}
  <1>1. \A r \in K : r.key \in Keys /\ ~Newer(r, x) /\ Newer(x, r)
    BY NextIsNewer DEF Numbered, Row
  <1>2. x.key \in Keys /\ ~Newer(x, x)
    BY NewerIsAnOrder DEF NextRow, Row
  <1>3. \A r : r \in current_in(L, Keys) <=>
            \/ r \in current_in(K, Keys) /\ r.key # x.key
            \/ r = x /\ ~x.deleted
    BY <1>1, <1>2 DEF current_in, Newest
  <1> HIDE DEF L
  <1>4. ~x.deleted => Contents(L) = {c \in Contents(K) : c.key # x.key} \cup {Kv(x)}
    BY <1>3, KvFields DEF Contents
  <1>5. x.deleted => Contents(L) = {c \in Contents(K) : c.key # x.key}
    BY <1>3, KvFields DEF Contents
  <1> QED
    BY <1>4, <1>5 DEF L

(* A compaction changes no key.                                            *)
LEMMA ContentsAfterCompact ==
    ASSUME NEW K, NEW n, NEW s, Numbered(K, n, s), NEW r \in Nat, r <= n
    PROVE  Contents(Kept(K, r)) = Contents(K)
  <1> DEFINE d == [kv |-> K]
             c == [kv |-> Kept(K, r)]
  <1>1. n \in Nat /\ \A x \in K : x.rev \in Nat /\ x.rev <= n
    BY DEF Numbered, Row
  <1>2. Kept(K, r) \subseteq K
    BY CompactRows
  <1>3. ReadsAt(c, n) = ReadsAt(d, n)
    <2>1. d.kv = K /\ c.kv = Kept(d.kv, r)
      OBVIOUS
    <2> HIDE DEF d, c
    <2> QED
      BY <1>1, <2>1, CompactReads
  <1>4. ASSUME NEW L, L \subseteq K PROVE range_in(L, Keys, n) = current_in(L, Keys)
    <2>1. {x \in L : x.key \in Keys /\ x.rev <= n} = {x \in L : x.key \in Keys}
      BY <1>1, <1>4
    <2> QED
      BY <2>1 DEF range_in, current_in
  <1> QED
    BY <1>2, <1>3, <1>4 DEF ReadsAt, Contents

-----------------------------------------------------------------------------
(* The operators on transactions.                                          *)

LEMMA OutlineFields ==
    ASSUME NEW t
    PROVE  /\ Outline(t).kvs = Contents(t.db.kv) /\ Outline(t).lease = t.db.lease
           /\ Outline(t).member = t.db.member /\ Outline(t).revision = t.db.revision
           /\ Outline(t).compact_revision = t.db.compact_revision
           /\ Outline(t).next = t.next /\ Outline(t).todo = t.todo /\ Outline(t).sub = t.sub
           /\ Outline(t).used = t.used /\ Outline(t).events = t.events
  BY DEF Outline

LEMMA PopGoes ==
    ASSUME NEW t, Good(t), t.todo # <<>>, NEW u, u = Pop(t)
    PROVE  Continues(t, u) /\ Outline(u) = Pops(Outline(t))
  <1>1. /\ TxFields \subseteq DOMAIN u
        /\ u.open = t.open /\ u.db = t.db /\ u.next = t.next /\ u.sub = t.sub
        /\ u.used = t.used /\ u.events = t.events /\ u.todo = Tail(t.todo)
    BY PopFields DEF Good
  <1>2. u.cmd = t.cmd
    BY DEF Pop, Good, TxFields
  <1>3. u.todo \in Seq(Operation)
    BY <1>1, TodoHead DEF Good
  <1>4. Good(u)
    BY <1>1, <1>3 DEF Good
  <1>5. Outline(u) = Pops(Outline(t))
    BY <1>1, OutlineFields DEF Outline, Pops, Sets
  <1> QED
    BY <1>1, <1>2, <1>4, <1>5 DEF Continues

LEMMA InsertGoes ==
    ASSUME NEW t, Good(t),
           NEW row, NEW prev, NEW x, x = Numbering(t, row),
           NEW P, P = KvsOf(prev), NextRow(x, t.next, t.sub),
           NEW u, u = Insert(t, row, prev)
    PROVE  /\ Continues(t, u) /\ u.todo = t.todo
           /\ Outline(u) = Writes(Outline(t), Contents(t.db.kv \cup {x}), EventOf(x, P), t.todo)
  <1>1. /\ TxFields \subseteq DOMAIN u /\ DbFields \subseteq DOMAIN u.db
        /\ u.db.kv = t.db.kv \cup {x}
        /\ u.db.lease = t.db.lease /\ u.db.member = t.db.member
        /\ u.db.revision = t.db.revision
        /\ u.db.compact_revision = t.db.compact_revision
        /\ u.db.applied_index = t.db.applied_index
        /\ u.open = t.open /\ u.next = t.next /\ u.sub = t.sub + 1 /\ u.used = TRUE
        /\ u.events = t.events \cup {EventOf(x, P)}
        /\ u.todo = t.todo /\ u.cmd = t.cmd
    <2>1. TxFields \subseteq DOMAIN t /\ DbFields \subseteq DOMAIN t.db
      BY DEF Good
    <2>2. /\ x = [row EXCEPT !.rev = t.next, !.sub = t.sub]
          /\ P = {Kv(p) : p \in prev} /\ u = Insert(t, row, prev)
      BY DEF Numbering, KvsOf
    <2> QED
      BY ONLY <2>1, <2>2 DEF Insert, TxFields, DbFields
  <1>2. t.next > 0 /\ t.sub \in Nat
    BY DEF Good, Numbered
  <1>3. Numbered(u.db.kv, u.next, u.sub) /\ Dense(u.db.kv, u.next, u.sub)
    <2>1. Numbered(t.db.kv, t.next, t.sub) /\ Dense(t.db.kv, t.next, t.sub)
      BY DEF Good
    <2>2. /\ Numbered(t.db.kv \cup {x}, t.next, t.sub + 1)
          /\ Dense(t.db.kv \cup {x}, t.next, t.sub + 1)
      BY <1>2, <2>1, InsertNumbered
    <2> QED
      BY <1>1, <2>2
  <1>4. u.used \in BOOLEAN /\ (u.used <=> u.sub > 0)
    <2>1. u.used = TRUE
      BY <1>1
    <2>2. u.sub > 0
      BY <1>1, <1>2
    <2> QED
      BY ONLY <2>1, <2>2, Zenon
  <1>5. Good(u)
    BY <1>1, <1>3, <1>4 DEF Good
  <1>6. Outline(u) = Writes(Outline(t), Contents(t.db.kv \cup {x}), EventOf(x, P), t.todo)
    BY <1>1, OutlineFields DEF Outline, Writes
  <1> QED
    BY <1>1, <1>5, <1>6 DEF Continues

(* The row of a put.                                                       *)
IsPut(t, op, prev, x, p) ==
    /\ NextRow(x, t.next, t.sub) /\ x.key = op.key /\ ~x.deleted
    /\ x.rev = t.next /\ x.sub = t.sub
    /\ x.value = IF op.ignore_value THEN p.value ELSE op.value
    /\ x.lease = IF op.ignore_lease THEN p.lease ELSE op.lease
    /\ x.create = IF prev = {} THEN t.next ELSE p.create
    /\ x.version = IF prev = {} THEN 1 ELSE p.version + 1

LEMMA PutRowIs ==
    ASSUME NEW t, Good(t), NEW op \in PutOp, NEW prev, prev = current_in(t.db.kv, {op.key}),
           ~((op.ignore_value \/ op.ignore_lease) /\ prev = {}),
           NEW x, x = Numbering(t, PutRow(t, op, prev)),
           NEW p, p = SomeOf(prev)
    PROVE  IsPut(t, op, prev, x, p)
  <1>1. /\ x.key = op.key /\ x.deleted = FALSE /\ x.rev = t.next /\ x.sub = t.sub
        /\ x.value = IF op.ignore_value THEN p.value ELSE op.value
        /\ x.lease = IF op.ignore_lease THEN p.lease ELSE op.lease
        /\ x.create = IF prev = {} THEN t.next ELSE p.create
        /\ x.version = IF prev = {} THEN 1 ELSE p.version + 1
        /\ x.prev = IF prev = {} THEN 0 ELSE p.rev
        /\ x = [rev |-> x.rev, sub |-> x.sub, key |-> x.key, deleted |-> x.deleted,
                value |-> x.value, lease |-> x.lease, create |-> x.create,
                version |-> x.version, prev |-> x.prev]
    <2> DEFINE row == PutRow(t, op, prev)
    <2>1. /\ row.key = op.key /\ row.deleted = FALSE
          /\ row.value = IF op.ignore_value THEN p.value ELSE op.value
          /\ row.lease = IF op.ignore_lease THEN p.lease ELSE op.lease
          /\ row.create = IF prev = {} THEN t.next ELSE p.create
          /\ row.version = IF prev = {} THEN 1 ELSE p.version + 1
          /\ row.prev = IF prev = {} THEN 0 ELSE p.rev
      BY DEF PutRow, SomeOf
    <2>2. DOMAIN row = {"rev", "sub", "key", "deleted", "value", "lease", "create", "version", "prev"}
          /\ row = [f \in DOMAIN row |-> row[f]]
      BY DEF PutRow
    <2>3. x = [row EXCEPT !.rev = t.next, !.sub = t.sub]
      BY DEF Numbering
    <2> HIDE DEF row
    <2> QED
      BY ONLY <2>1, <2>2, <2>3
  <1>2. t.next \in Nat /\ t.sub \in Nat
    BY DEF Good, Numbered
  <1>3. prev # {} => p \in Row
    <2>1. Numbered(t.db.kv, t.next, t.sub)
      BY DEF Good
    <2>2. prev # {} => p \in prev
      BY DEF SomeOf
    <2> QED
      BY ONLY <2>1, <2>2, prev = current_in(t.db.kv, {op.key}), CurrentRows
  <1>4. op.key \in Keys /\ op.value \in Int /\ op.lease \in Int
    BY DEF PutOp
  <1>5. /\ x.key \in Keys /\ x.rev \in Nat /\ x.sub \in Nat
        /\ x.value \in Int /\ x.lease \in Int /\ x.create \in Nat /\ x.version \in Nat
        /\ x.prev \in Nat
    <2>1. x.key = op.key /\ x.rev = t.next /\ x.sub = t.sub
      BY <1>1
    <2>2. CASE prev = {}
      <3>1. x.value = op.value /\ x.lease = op.lease
        BY <1>1, <2>2, Zenon
      <3>2. x.create = t.next /\ x.version = 1 /\ x.prev = 0
        BY <1>1, <2>2
      <3> QED
        BY ONLY <1>2, <1>4, <2>1, <3>1, <3>2
    <2>3. CASE prev # {}
      <3>1. x.value \in {op.value, p.value} /\ x.lease \in {op.lease, p.lease}
        BY <1>1, Zenon
      <3>2. x.create = p.create /\ x.version = p.version + 1 /\ x.prev = p.rev
        BY <1>1, <2>3
      <3>3. /\ p.value \in Int /\ p.lease \in Int /\ p.create \in Nat
            /\ p.version \in Nat /\ p.rev \in Nat
        BY <1>3, <2>3 DEF Row
      <3> QED
        BY ONLY <1>2, <1>4, <2>1, <3>1, <3>2, <3>3
    <2> QED
      BY <2>2, <2>3
  <1>6. x \in Row
    <2>1. x.deleted \in BOOLEAN
      BY <1>1, Zenon
    <2> QED
      BY <1>1, <1>5, <2>1 DEF Row
  <1> QED
    BY <1>1, <1>6 DEF NextRow, IsPut

LEMMA PopsWrites ==
    ASSUME NEW o, NEW kvs, NEW e, NEW q
    PROVE  Pops(Writes(o, kvs, e, q)) = Writes(o, kvs, e, Tail(q))
  BY DEF Pops, Writes, Sets

-----------------------------------------------------------------------------
(* One operation at a time.                                                *)

LEMMA HeadOf ==
    ASSUME NEW t, Good(t), t.todo # <<>>
    PROVE  Head(t.todo) \in Operation /\ Head(Outline(t).todo) = Head(t.todo)
  BY TodoHead, OutlineFields DEF Good

LEMMA apply_putActs ==
    ASSUME NEW t, Good(t), t.todo # <<>>, NEW op, op = Head(t.todo), op.op = "put",
           NEW prev, prev = current_in(t.db.kv, {op.key}),
           NEW u, IF (op.ignore_value \/ op.ignore_lease) /\ prev = {}
                  THEN u = NoTx ELSE u = Pop(Insert(t, PutRow(t, op, prev), prev))
    PROVE  ActsOnOutline(t, u)
  <1> DEFINE o == Outline(t)
             P == KvsOf(prev)
             refused == (op.ignore_value \/ op.ignore_lease) /\ prev = {}
  <1>1. Head(o.todo) = op /\ op \in PutOp /\ op.key \in Keys
    <2>1. Head(o.todo) = op /\ op \in Operation
      BY HeadOf
    <2>2. op \in PutOp
      BY <2>1, OpTypes
    <2> QED
      BY <2>1, <2>2 DEF PutOp
  <1>2. Numbered(t.db.kv, t.next, t.sub)
    BY DEF Good
  <1>3. Held(o, {op.key}) = P
    BY <1>1, <1>2, HeldRows DEF KvsOf
  <1> HIDE DEF o
  <1>4. Refuses(o) <=> refused
    <2>1. P = {} <=> prev = {}
      BY DEF KvsOf
    <2> HIDE DEF P
    <2>2. Refuses(o) <=> PutRefused(o)
      BY <1>1 DEF Refuses
    <2>3. PutRefused(o) <=> (op.ignore_value \/ op.ignore_lease) /\ P = {}
      BY ONLY <1>1, <1>3, Zenon DEF PutRefused
    <2> QED
      BY ONLY <2>1, <2>2, <2>3, Zenon DEF refused
  <1>5. CASE refused
    BY <1>4, <1>5 DEF ActsOnOutline, o
  <1>6. CASE ~refused
    <2> DEFINE p == SomeOf(prev)
               c == SomeOf(P)
               row == PutRow(t, op, prev)
               x == Numbering(t, row)
               i == Insert(t, row, prev)
               kv == PutKv(o, op, P)
    <2>1. u = Pop(i)
      BY <1>6
    <2>2. /\ NextRow(x, t.next, t.sub) /\ x.key = op.key /\ ~x.deleted
          /\ x.rev = t.next /\ x.sub = t.sub
          /\ x.value = IF op.ignore_value THEN p.value ELSE op.value
          /\ x.lease = IF op.ignore_lease THEN p.lease ELSE op.lease
          /\ x.create = IF prev = {} THEN t.next ELSE p.create
          /\ x.version = IF prev = {} THEN 1 ELSE p.version + 1
      <3>1. /\ x = Numbering(t, PutRow(t, op, prev)) /\ p = SomeOf(prev)
            /\ Good(t) /\ prev = current_in(t.db.kv, {op.key})
        OBVIOUS
      <3>2. op \in PutOp /\ ~((op.ignore_value \/ op.ignore_lease) /\ prev = {})
        BY <1>1, <1>6 DEF refused
      <3> HIDE DEF x, p, row
      <3>3. IsPut(t, op, prev, x, p)
        BY ONLY <3>1, <3>2, PutRowIs
      <3> QED
        BY ONLY <3>3 DEF IsPut
    <2>3. Continues(t, i) /\ i.todo = t.todo
          /\ Outline(i) = Writes(o, Contents(t.db.kv \cup {x}), EventOf(x, P), t.todo)
      <3>1. /\ i = Insert(t, row, prev) /\ x = Numbering(t, row)
            /\ P = KvsOf(prev) /\ Good(t)
        OBVIOUS
      <3>2. NextRow(x, t.next, t.sub)
        BY <2>2
      <3> HIDE DEF i, x, row, P
      <3>3. Continues(t, i) /\ i.todo = t.todo
            /\ Outline(i) = Writes(Outline(t), Contents(t.db.kv \cup {x}), EventOf(x, P), t.todo)
        BY ONLY <3>1, <3>2, InsertGoes
      <3> QED
        BY ONLY <3>3 DEF o
    <2> HIDE DEF i, x, row
    <2>4. Continues(i, u) /\ Outline(u) = Writes(o, Contents(t.db.kv \cup {x}), EventOf(x, P), Tail(t.todo))
      <3>1. Good(i) /\ i.todo # <<>>
        BY <2>3 DEF Continues
      <3> QED
        BY <2>1, <2>3, <3>1, PopGoes, PopsWrites
    <2>5. prev # {} => c = Kv(p)
      <3>1. prev # {} => prev = {p}
        <4>1. \A a, b \in prev : a = b
          <5> DEFINE K == t.db.kv
                     k == op.key
          <5>1. prev = current_in(K, {k}) /\ Numbered(K, t.next, t.sub)
            BY <1>2
          <5> HIDE DEF K, k
          <5>2. \A a, b \in current_in(K, {k}) : a = b
            BY ONLY <5>1, OneCurrentRow
          <5> QED
            BY ONLY <5>1, <5>2
        <4> QED
          BY ONLY <4>1 DEF SomeOf
      <3> HIDE DEF p
      <3>2. prev # {} => P = {Kv(p)}
        BY <3>1 DEF KvsOf
      <3> HIDE DEF P
      <3> QED
        BY <3>2 DEF SomeOf
    <2>6. P = {} <=> prev = {}
      BY DEF KvsOf
    <2>7. o.next = t.next /\ o.sub = t.sub /\ o.kvs = Contents(t.db.kv) /\ o.todo = t.todo
      BY OutlineFields DEF o
    <2> HIDE DEF c, p, P
    <2>8. Kv(x) = kv
      <3>0. kv = [key |-> op.key, mod |-> o.next,
                  value   |-> IF op.ignore_value THEN c.value ELSE op.value,
                  lease   |-> IF op.ignore_lease THEN c.lease ELSE op.lease,
                  create  |-> IF P = {} THEN o.next ELSE c.create,
                  version |-> IF P = {} THEN 1 ELSE c.version + 1]
        BY DEF PutKv, SomeOf, c
      <3> HIDE DEF kv
      <3>1. /\ x.value = kv.value /\ x.lease = kv.lease
            /\ x.create = kv.create /\ x.version = kv.version
        <4>1. CASE prev = {}
          <5>1. ~op.ignore_value /\ ~op.ignore_lease
            BY <1>6, <4>1, Zenon
          <5>2. x.value = op.value /\ x.lease = op.lease /\ x.create = t.next /\ x.version = 1
            BY <2>2, <4>1, <5>1
          <5>3. kv.value = op.value /\ kv.lease = op.lease /\ kv.create = o.next /\ kv.version = 1
            BY <2>6, <3>0, <4>1, <5>1
          <5> QED
            BY <2>7, <5>2, <5>3
        <4>2. CASE prev # {}
          <5>1. /\ c.value = p.value /\ c.lease = p.lease
                /\ c.create = p.create /\ c.version = p.version
            BY <2>5, <4>2, KvFields
          <5>2. x.create = p.create /\ x.version = p.version + 1
            BY <2>2, <4>2
          <5>3. kv.create = c.create /\ kv.version = c.version + 1
            BY <2>6, <3>0, <4>2
          <5>4. kv.value = (IF op.ignore_value THEN c.value ELSE op.value)
                /\ kv.lease = (IF op.ignore_lease THEN c.lease ELSE op.lease)
            BY <3>0
          <5> QED
            BY ONLY <2>2, <5>1, <5>2, <5>3, <5>4
        <4> QED
          BY <4>1, <4>2
      <3>2. kv.key = op.key /\ kv.mod = o.next
        BY <3>0
      <3>3. kv = [key |-> kv.key, value |-> kv.value, create |-> kv.create, mod |-> kv.mod,
                  version |-> kv.version, lease |-> kv.lease]
        BY <3>0
      <3> QED
        BY <2>2, <2>7, <3>1, <3>2, <3>3 DEF Kv
    <2> HIDE DEF kv
    <2>9. EventOf(x, P) = [rev |-> o.next, sub |-> o.sub, delete |-> FALSE, kv |-> kv, prev |-> P]
      <3>1. x.deleted = FALSE
        BY <2>2 DEF NextRow, Row
      <3> QED
        BY <2>2, <2>7, <2>8, <3>1 DEF EventOf
    <2>10. Contents(t.db.kv \cup {x}) = {e \in o.kvs : e.key # op.key} \cup {kv}
      BY <1>2, <2>2, <2>7, <2>8, ContentsAfterInsert
    <2>11. Puts(o) = Writes(o, {e \in o.kvs : e.key # op.key} \cup {kv},
               [rev |-> o.next, sub |-> o.sub, delete |-> FALSE, kv |-> kv, prev |-> P], Tail(o.todo))
      BY ONLY <1>1, <1>3 DEF Puts, kv
    <2>12. Outline(u) = Puts(o)
      BY <2>4, <2>7, <2>9, <2>10, <2>11
    <2>13. Goes(o) = Puts(o)
      BY <1>1 DEF Goes
    <2> QED
      BY <1>4, <1>6, <2>3, <2>4, <2>12, <2>13 DEF ActsOnOutline, Continues, o
  <1> QED
    BY <1>5, <1>6

LEMMA DeleteOneGoes ==
    ASSUME NEW t, Good(t), NEW S \in SUBSET current_in(t.db.kv, Keys), S # {},
           NEW u, u = DeleteOne(t, S)
    PROVE  Continues(t, u) /\ Outline(u) = Deletes(Outline(t), Lowest(KvsOf(S)))
  <1> DEFINE o == Outline(t)
             v == Lowest(S)
             row == Tombstone(v)
             x == Numbering(t, row)
             P == KvsOf({v})
  <1>1. Numbered(t.db.kv, t.next, t.sub) /\ t.next \in Nat /\ t.sub \in Nat
    BY DEF Good, Numbered
  <1>2. v \in S /\ Lowest(KvsOf(S)) = Kv(v)
    BY <1>1, LowestKv DEF KvsOf
  <1>3. v \in Row /\ P = {Kv(v)}
    <2> HIDE DEF v
    <2> QED
      BY <1>1, <1>2, CurrentRows DEF KvsOf
  <1> HIDE DEF v
  <1>4. row \in Row /\ row.key = v.key /\ row.deleted
    BY <1>3 DEF Tombstone, Row
  <1>5. x \in Row /\ x.rev = t.next /\ x.sub = t.sub /\ x.key = v.key /\ x.deleted
    <2> HIDE DEF row
    <2> QED
      BY <1>4, <1>1 DEF Row, Numbering
  <1>6. u = Insert(t, row, {v})
    BY DEF DeleteOne, v
  <1> HIDE DEF x, P, row
  <1>7. NextRow(x, t.next, t.sub)
    BY <1>5 DEF NextRow
  <1>8. /\ Continues(t, u) /\ u.todo = t.todo
        /\ Outline(u) = Writes(o, Contents(t.db.kv \cup {x}), EventOf(x, P), t.todo)
    BY <1>6, <1>7, InsertGoes DEF x, P
  <1>9. o.next = t.next /\ o.sub = t.sub /\ o.kvs = Contents(t.db.kv) /\ o.todo = t.todo
    BY OutlineFields
  <1> HIDE DEF o
  <1>10. Contents(t.db.kv \cup {x}) = {c \in o.kvs : c.key # v.key}
    BY <1>1, <1>5, <1>7, <1>9, ContentsAfterInsert
  <1>11. EventOf(x, P) = [rev |-> o.next, sub |-> o.sub, delete |-> TRUE,
                          kv |-> [ZeroKv EXCEPT !.key = v.key, !.mod = o.next], prev |-> {Kv(v)}]
    <2>1. x.deleted = TRUE
      BY <1>5 DEF Row
    <2> QED
      BY <1>3, <1>5, <1>9, <2>1 DEF EventOf
  <1>12. Deletes(o, Kv(v)) = Writes(o, {c \in o.kvs : c.key # v.key}, EventOf(x, P), o.todo)
    BY <1>11, KvFields DEF Deletes
  <1> QED
    BY <1>2, <1>8, <1>9, <1>10, <1>12 DEF o

LEMMA PopsSets ==
    ASSUME NEW o, NEW lease, NEW member, NEW compacted, NEW q
    PROVE  Pops(Sets(o, lease, member, compacted, q)) = Sets(o, lease, member, compacted, Tail(q))
  BY DEF Pops, Sets

(* A step that writes no row, and a step that does and ends its operation. *)
LEMMA SetsGoes ==
    ASSUME NEW t, Good(t), NEW u, TxFields \subseteq DOMAIN u, DbFields \subseteq DOMAIN u.db,
           u.db.kv = t.db.kv, u.db.revision = t.db.revision,
           u.db.compact_revision = t.db.compact_revision,
           u.db.applied_index = t.db.applied_index,
           u.open = t.open, u.next = t.next, u.sub = t.sub, u.used = t.used,
           u.events = t.events, u.cmd = t.cmd, u.todo \in Seq(Operation)
    PROVE  /\ Continues(t, u)
           /\ Outline(u) = Sets(Outline(t), u.db.lease, u.db.member,
                                Outline(t).compact_revision, u.todo)
  <1>1. Good(u)
    BY DEF Good
  <1>2. Outline(u) = Sets(Outline(t), u.db.lease, u.db.member, Outline(t).compact_revision, u.todo)
    BY OutlineFields DEF Outline, Sets
  <1> QED
    BY <1>1, <1>2 DEF Continues

(* The same, and the operation is over.                                    *)
LEMMA SetsAndPopsGoes ==
    ASSUME NEW t, Good(t), t.todo # <<>>, NEW v, TxFields \subseteq DOMAIN v, DbFields \subseteq DOMAIN v.db,
           v.db.kv = t.db.kv, v.db.revision = t.db.revision,
           v.db.compact_revision = t.db.compact_revision,
           v.db.applied_index = t.db.applied_index,
           v.open = t.open, v.next = t.next, v.sub = t.sub, v.used = t.used,
           v.events = t.events, v.cmd = t.cmd, v.todo = t.todo,
           NEW u, u = Pop(v)
    PROVE  /\ Continues(t, u)
           /\ Outline(u) = Sets(Outline(t), v.db.lease, v.db.member,
                                Outline(t).compact_revision, Tail(Outline(t).todo))
  <1>1. v.todo \in Seq(Operation) /\ Outline(t).todo = t.todo
    BY OutlineFields DEF Good
  <1>2. Continues(t, v) /\ Outline(v) = Sets(Outline(t), v.db.lease, v.db.member,
                                             Outline(t).compact_revision, v.todo)
    BY <1>1, SetsGoes
  <1>3. Continues(v, u) /\ Outline(u) = Pops(Outline(v))
    BY <1>2, PopGoes DEF Continues
  <1> QED
    BY <1>1, <1>2, <1>3, PopsSets DEF Continues

(* Operations that are never refused.                                      *)
LEMMA NotRefused ==
    ASSUME NEW t, Good(t), t.todo # <<>>, Head(t.todo).op # "put", Head(t.todo).op # "compact",
           NEW u, Continues(t, u), Outline(u) = Goes(Outline(t))
    PROVE  ActsOnOutline(t, u)
  <1>1. ~Refuses(Outline(t))
    BY HeadOf DEF Refuses
  <1> QED
    BY <1>1 DEF ActsOnOutline

LEMMA apply_rangeActs ==
    ASSUME NEW t, Good(t), t.todo # <<>>, NEW op, op = Head(t.todo), op.op = "range",
           NEW u, u = Pop(t)
    PROVE  ActsOnOutline(t, u)
  <1>1. Continues(t, u) /\ Outline(u) = Pops(Outline(t))
    BY PopGoes
  <1>2. Goes(Outline(t)) = Pops(Outline(t))
    BY HeadOf DEF Goes
  <1> QED
    BY <1>1, <1>2, NotRefused

LEMMA apply_deleteActs ==
    ASSUME NEW t, Good(t), t.todo # <<>>, NEW op, op = Head(t.todo), op.op = "delete",
           NEW victims, victims = current_in(t.db.kv, op.range),
           NEW u, IF victims = {} THEN u = Pop(t) ELSE u = DeleteOne(t, victims)
    PROVE  ActsOnOutline(t, u)
  <1> DEFINE o == Outline(t)
  <1>1. Head(o.todo) = op /\ op.range \in SUBSET Keys
    <2>1. Head(o.todo) = op /\ op \in Operation
      BY HeadOf
    <2>2. op \in DeleteOp
      BY <2>1, OpTypes
    <2> QED
      BY <2>1, <2>2 DEF DeleteOp
  <1>2. Numbered(t.db.kv, t.next, t.sub)
    BY DEF Good
  <1>3. Held(o, op.range) = KvsOf(victims)
    BY <1>1, <1>2, HeldRows DEF KvsOf
  <1>4. victims \in SUBSET current_in(t.db.kv, Keys)
    BY <1>1, <1>2, CurrentOf
  <1>5. KvsOf(victims) = {} <=> victims = {}
    BY DEF KvsOf
  <1> HIDE DEF o
  <1>6. Goes(o) = IF KvsOf(victims) = {} THEN Pops(o) ELSE Deletes(o, Lowest(KvsOf(victims)))
    BY <1>1, <1>3 DEF Goes, DeletesOrPops
  <1>7. Continues(t, u) /\ Outline(u) = Goes(o)
    <2>1. CASE victims = {}
      BY <1>5, <1>6, <2>1, PopGoes DEF o
    <2>2. CASE victims # {}
      BY <1>4, <1>5, <1>6, <2>2, DeleteOneGoes DEF o
    <2> QED
      BY <2>1, <2>2
  <1> QED
    BY <1>7, NotRefused DEF o

LEMMA RenewsGoes ==
    ASSUME NEW t, Good(t), t.todo # <<>>, NEW g, NEW u, u = Pop([t EXCEPT !.db.lease = g])
    PROVE  /\ Continues(t, u)
           /\ Outline(u) = Sets(Outline(t), g, Outline(t).member,
                                Outline(t).compact_revision, Tail(Outline(t).todo))
  <1> DEFINE v == [t EXCEPT !.db.lease = g]
  <1>1. /\ TxFields \subseteq DOMAIN v /\ DbFields \subseteq DOMAIN v.db
        /\ v.db.lease = g /\ v.db.member = t.db.member
        /\ v.db.kv = t.db.kv /\ v.db.revision = t.db.revision
        /\ v.db.compact_revision = t.db.compact_revision
        /\ v.db.applied_index = t.db.applied_index
        /\ v.open = t.open /\ v.next = t.next /\ v.sub = t.sub /\ v.used = t.used
        /\ v.events = t.events /\ v.cmd = t.cmd /\ v.todo = t.todo
    <2>1. TxFields \subseteq DOMAIN t /\ DbFields \subseteq DOMAIN t.db
      BY DEF Good
    <2> QED
      BY ONLY <2>1 DEF TxFields, DbFields
  <1>2. u = Pop(v)
    OBVIOUS
  <1> HIDE DEF v
  <1> QED
    <2>1. /\ Continues(t, u)
          /\ Outline(u) = Sets(Outline(t), v.db.lease, v.db.member,
                               Outline(t).compact_revision, Tail(Outline(t).todo))
      <3>1. Good(t) /\ t.todo # <<>>
        OBVIOUS
      <3> QED
        BY ONLY <1>1, <1>2, <3>1, SetsAndPopsGoes
    <2> QED
      BY ONLY <1>1, <2>1, OutlineFields

LEMMA lease_grantActs ==
    ASSUME NEW t, Good(t), t.todo # <<>>, NEW op, op = Head(t.todo), op.op = "lease_grant",
           NEW ttl, ttl = IF op.ttl < 1 THEN 1 ELSE op.ttl,
           NEW u, u = Pop([t EXCEPT !.db.lease = Renewed(t.db.lease, op.id, ttl, op.now)])
    PROVE  ActsOnOutline(t, u)
  <1> DEFINE o == Outline(t)
             g == Renewed(t.db.lease, op.id, ttl, op.now)
  <1>1. Head(o.todo) = op /\ o.lease = t.db.lease
    BY HeadOf, OutlineFields
  <1>2. Continues(t, u) /\ Outline(u) = Sets(o, g, o.member, o.compact_revision, Tail(o.todo))
    BY RenewsGoes
  <1> HIDE DEF o
  <1>3. Goes(o) = Sets(o, g, o.member, o.compact_revision, Tail(o.todo))
    BY <1>1 DEF Goes, Grants
  <1> QED
    BY <1>2, <1>3, NotRefused DEF o

LEMMA lease_keep_aliveActs ==
    ASSUME NEW t, Good(t), t.todo # <<>>, NEW op, op = Head(t.todo), op.op = "lease_keep_alive",
           NEW u, IF op.id \in DOMAIN t.db.lease
                  THEN u = Pop([t EXCEPT !.db.lease =
                                    Renewed(t.db.lease, op.id, t.db.lease[op.id].ttl, op.now)])
                  ELSE u = Pop(t)
    PROVE  ActsOnOutline(t, u)
  <1> DEFINE o == Outline(t)
             g == Renewed(t.db.lease, op.id, t.db.lease[op.id].ttl, op.now)
  <1>1. Head(o.todo) = op /\ o.lease = t.db.lease
    BY HeadOf, OutlineFields
  <1>2. Continues(t, u) /\ Outline(u) = Goes(o)
    <2>1. CASE op.id \in DOMAIN t.db.lease
      <3>1. Continues(t, u) /\ Outline(u) = Sets(o, g, o.member, o.compact_revision, Tail(o.todo))
        BY <2>1, RenewsGoes
      <3> HIDE DEF o
      <3>2. Goes(o) = Sets(o, g, o.member, o.compact_revision, Tail(o.todo))
        BY <1>1, <2>1 DEF Goes, KeepsAlive
      <3> QED
        BY <3>1, <3>2
    <2>2. CASE op.id \notin DOMAIN t.db.lease
      <3>1. Continues(t, u) /\ Outline(u) = Pops(o)
        BY <2>2, PopGoes
      <3> HIDE DEF o
      <3>2. Goes(o) = Pops(o)
        BY <1>1, <2>2 DEF Goes, KeepsAlive
      <3> QED
        BY <3>1, <3>2
    <2> QED
      BY <2>1, <2>2
  <1> QED
    BY <1>2, NotRefused

LEMMA MembersGoes ==
    ASSUME NEW t, Good(t), t.todo # <<>>, NEW g, NEW u, u = Pop([t EXCEPT !.db.member = g])
    PROVE  /\ Continues(t, u)
           /\ Outline(u) = Sets(Outline(t), Outline(t).lease, g,
                                Outline(t).compact_revision, Tail(Outline(t).todo))
  <1> DEFINE v == [t EXCEPT !.db.member = g]
  <1>1. /\ TxFields \subseteq DOMAIN v /\ DbFields \subseteq DOMAIN v.db
        /\ v.db.member = g /\ v.db.lease = t.db.lease
        /\ v.db.kv = t.db.kv /\ v.db.revision = t.db.revision
        /\ v.db.compact_revision = t.db.compact_revision
        /\ v.db.applied_index = t.db.applied_index
        /\ v.open = t.open /\ v.next = t.next /\ v.sub = t.sub /\ v.used = t.used
        /\ v.events = t.events /\ v.cmd = t.cmd /\ v.todo = t.todo
    <2>1. TxFields \subseteq DOMAIN t /\ DbFields \subseteq DOMAIN t.db
      BY DEF Good
    <2> QED
      BY ONLY <2>1 DEF TxFields, DbFields
  <1>2. u = Pop(v)
    OBVIOUS
  <1> HIDE DEF v
  <1> QED
    <2>1. /\ Continues(t, u)
          /\ Outline(u) = Sets(Outline(t), v.db.lease, v.db.member,
                               Outline(t).compact_revision, Tail(Outline(t).todo))
      <3>1. Good(t) /\ t.todo # <<>>
        OBVIOUS
      <3> QED
        BY ONLY <1>1, <1>2, <3>1, SetsAndPopsGoes
    <2> QED
      BY ONLY <1>1, <2>1, OutlineFields

LEMMA set_memberActs ==
    ASSUME NEW t, Good(t), t.todo # <<>>, NEW op, op = Head(t.todo), op.op = "set_member",
           NEW u, u = Pop([t EXCEPT !.db.member = {x \in @ : x.id # op.member.id} \cup {op.member}])
    PROVE  ActsOnOutline(t, u)
  <1> DEFINE o == Outline(t)
             g == {x \in t.db.member : x.id # op.member.id} \cup {op.member}
  <1>1. Head(o.todo) = op /\ o.member = t.db.member
    BY HeadOf, OutlineFields
  <1>2. u = Pop([t EXCEPT !.db.member = g])
    OBVIOUS
  <1> HIDE DEF g
  <1>3. Continues(t, u) /\ Outline(u) = Sets(o, o.lease, g, o.compact_revision, Tail(o.todo))
    BY <1>2, MembersGoes
  <1> HIDE DEF o
  <1>4. Goes(o) = Sets(o, o.lease, g, o.compact_revision, Tail(o.todo))
    BY <1>1 DEF Goes, SetsMember, g
  <1> QED
    BY <1>3, <1>4, NotRefused DEF o

LEMMA remove_memberActs ==
    ASSUME NEW t, Good(t), t.todo # <<>>, NEW op, op = Head(t.todo), op.op = "remove_member",
           NEW u, u = Pop([t EXCEPT !.db.member = {x \in @ : x.id # op.id}])
    PROVE  ActsOnOutline(t, u)
  <1> DEFINE o == Outline(t)
             g == {x \in t.db.member : x.id # op.id}
  <1>1. Head(o.todo) = op /\ o.member = t.db.member
    BY HeadOf, OutlineFields
  <1>2. u = Pop([t EXCEPT !.db.member = g])
    OBVIOUS
  <1> HIDE DEF g
  <1>3. Continues(t, u) /\ Outline(u) = Sets(o, o.lease, g, o.compact_revision, Tail(o.todo))
    BY <1>2, MembersGoes
  <1> HIDE DEF o
  <1>4. Goes(o) = Sets(o, o.lease, g, o.compact_revision, Tail(o.todo))
    BY <1>1 DEF Goes, RemovesMember, g
  <1> QED
    BY <1>3, <1>4, NotRefused DEF o

LEMMA apply_compactActs ==
    ASSUME NEW t, Good(t), t.todo # <<>>, NEW op, op = Head(t.todo), op.op = "compact",
           NEW r, r = op.revision,
           NEW u, IF r <= t.db.compact_revision \/ r > t.db.revision
                  THEN u = NoTx
                  ELSE u = Pop([t EXCEPT !.db.kv = Kept(t.db.kv, r), !.db.compact_revision = r])
    PROVE  ActsOnOutline(t, u)
  <1> DEFINE o == Outline(t)
             v == [t EXCEPT !.db.kv = Kept(t.db.kv, r), !.db.compact_revision = r]
  <1>1. /\ Head(o.todo) = op /\ op \in Operation /\ op.revision = r /\ r \in Int
        /\ o.compact_revision = t.db.compact_revision /\ o.revision = t.db.revision
    BY HeadOf, OutlineFields, OpTypes
  <1> HIDE DEF o
  <1>2. Refuses(o) <=> r <= t.db.compact_revision \/ r > t.db.revision
    BY <1>1 DEF Refuses, CompactRefused
  <1>3. CASE r <= t.db.compact_revision \/ r > t.db.revision
    BY <1>2, <1>3 DEF ActsOnOutline, o
  <1>4. CASE ~(r <= t.db.compact_revision \/ r > t.db.revision)
    <2>1. u = Pop(v)
      BY <1>4
    <2>2. /\ TxFields \subseteq DOMAIN v /\ DbFields \subseteq DOMAIN v.db
          /\ v.db.kv = Kept(t.db.kv, r) /\ v.db.compact_revision = r
          /\ v.db.member = t.db.member /\ v.db.lease = t.db.lease
          /\ v.db.revision = t.db.revision
          /\ v.db.applied_index = t.db.applied_index
          /\ v.open = t.open /\ v.next = t.next /\ v.sub = t.sub /\ v.used = t.used
          /\ v.events = t.events /\ v.cmd = t.cmd /\ v.todo = t.todo
      <3>1. TxFields \subseteq DOMAIN t /\ DbFields \subseteq DOMAIN t.db
        BY DEF Good
      <3> QED
        BY ONLY <3>1 DEF TxFields, DbFields
    <2> HIDE DEF v
    <2>3. /\ r \in Nat /\ r < t.next /\ t.next \in Nat
      BY <1>1, <1>4 DEF Good
    <2>4. Numbered(t.db.kv, t.next, t.sub) /\ Dense(t.db.kv, t.next, t.sub)
      BY DEF Good
    <2>5. /\ Kept(t.db.kv, r) \subseteq t.db.kv
          /\ \A x \in t.db.kv : ~(x.rev <= r) => x \in Kept(t.db.kv, r)
      BY <2>4, CompactRows
    <2>6. Numbered(v.db.kv, v.next, v.sub)
      BY <2>2, <2>4, <2>5, FS_Subset DEF Numbered
    <2>7. Dense(v.db.kv, v.next, v.sub)
      <3>1. \A x \in t.db.kv : x.rev = t.next => x \in Kept(t.db.kv, r)
        BY <2>3, <2>5
      <3> QED
        BY <2>2, <2>4, <3>1 DEF Dense
    <2>8. Good(v)
      BY <2>2, <2>3, <2>6, <2>7 DEF Good
    <2>9. Contents(v.db.kv) = Contents(t.db.kv)
      <3>1. r <= t.next
        BY <2>3
      <3> QED
        BY <2>2, <2>3, <2>4, <3>1, ContentsAfterCompact
    <2>10. Continues(v, u) /\ Outline(u) = Pops(Outline(v))
      BY <2>1, <2>2, <2>8, PopGoes
    <2>11. Outline(v) = Sets(o, o.lease, o.member, r, o.todo)
      BY <2>2, <2>9, OutlineFields DEF Outline, Sets, o
    <2>12. Goes(o) = Sets(o, o.lease, o.member, r, Tail(o.todo))
      BY <1>1 DEF Goes, Compacts
    <2>13. Outline(u) = Goes(o)
      BY <2>10, <2>11, <2>12, PopsSets
    <2> QED
      BY <1>2, <1>4, <2>2, <2>10, <2>13 DEF ActsOnOutline, Continues, o
  <1> QED
    BY <1>3, <1>4

LEMMA revoke_leaseActs ==
    ASSUME NEW t, Good(t), t.todo # <<>>, NEW op, op = Head(t.todo), op.op = "revoke",
           NEW id, id = FirstToExpire(t.db.lease, op.ids),
           NEW victims, victims = lease_keys(t.db.kv, id),
           NEW u, IF op.ids = {} THEN u = Pop(t)
                  ELSE IF victims # {} THEN u = DeleteOne(t, victims)
                  ELSE u = Dropped(t, id)
    PROVE  ActsOnOutline(t, u)
  <1> DEFINE o == Outline(t)
             g == [i \in DOMAIN t.db.lease \ {id} |-> t.db.lease[i]]
             op1 == [op EXCEPT !.ids = @ \ {id}]
             q == [t.todo EXCEPT ![1] = op1]
  <1>1. /\ Head(o.todo) = op /\ op \in [op : {"revoke"}, ids : SUBSET Int]
        /\ o.lease = t.db.lease /\ o.member = t.db.member /\ o.todo = t.todo
    BY HeadOf, OutlineFields, OpTypes
  <1>2. Leased(o, id) = KvsOf(victims)
    BY LeasedRows
  <1>3. victims \in SUBSET current_in(t.db.kv, Keys)
    BY DEF lease_keys
  <1>4. KvsOf(victims) = {} <=> victims = {}
    BY DEF KvsOf
  <1> HIDE DEF o
  <1>5. Goes(o) = Revokes(o)
    BY <1>1 DEF Goes
  <1>6. CASE op.ids = {}
    <2>1. Goes(o) = Pops(o)
      BY <1>1, <1>5, <1>6 DEF Revokes
    <2> QED
      BY <1>6, <2>1, PopGoes, NotRefused DEF o
  <1>7. CASE op.ids # {} /\ victims # {}
    <2>1. Goes(o) = Deletes(o, Lowest(KvsOf(victims)))
      BY <1>1, <1>2, <1>4, <1>5, <1>7 DEF Revokes
    <2>2. u = DeleteOne(t, victims)
      BY <1>7
    <2>3. Continues(t, u) /\ Outline(u) = Deletes(o, Lowest(KvsOf(victims)))
      BY <1>3, <1>7, <2>2, DeleteOneGoes DEF o
    <2> QED
      BY <2>1, <2>3, NotRefused DEF o
  <1>8. CASE op.ids # {} /\ victims = {}
    <2>1. u = [t EXCEPT !.todo[1].ids = @ \ {id}, !.db.lease = [i \in DOMAIN @ \ {id} |-> @[i]]]
      BY <1>8 DEF Dropped
    <2>2. /\ t.todo \in Seq(Operation) /\ 1 \in DOMAIN t.todo /\ op = t.todo[1]
      BY TodoHead DEF Good
    <2>3. /\ TxFields \subseteq DOMAIN u /\ DbFields \subseteq DOMAIN u.db
          /\ u.db.lease = g /\ u.db.member = t.db.member
          /\ u.db.kv = t.db.kv /\ u.db.revision = t.db.revision
          /\ u.db.compact_revision = t.db.compact_revision
          /\ u.db.applied_index = t.db.applied_index
          /\ u.open = t.open /\ u.next = t.next /\ u.sub = t.sub /\ u.used = t.used
          /\ u.events = t.events /\ u.cmd = t.cmd
      <3>1. TxFields \subseteq DOMAIN t /\ DbFields \subseteq DOMAIN t.db
        BY DEF Good
      <3> QED
        BY ONLY <2>1, <3>1 DEF TxFields, DbFields
    <2>4. u.todo = q
      <3>1. TxFields \subseteq DOMAIN t
        BY DEF Good
      <3> QED
        BY ONLY <2>1, <2>2, <3>1 DEF TxFields
    <2>5. op1 \in Operation
      BY <1>1 DEF Operation
    <2>6. q \in Seq(Operation)
      <3> HIDE DEF op1
      <3> QED
        BY <2>2, <2>5, ExceptSeq
    <2> HIDE DEF q, g
    <2>7. Continues(t, u) /\ Outline(u) = Sets(o, g, o.member, o.compact_revision, q)
      <3>1. /\ Continues(t, u)
            /\ Outline(u) = Sets(Outline(t), u.db.lease, u.db.member,
                                 Outline(t).compact_revision, u.todo)
        <4>1. Good(t) /\ u.todo \in Seq(Operation)
          BY <2>4, <2>6
        <4> QED
          BY ONLY <2>3, <4>1, SetsGoes
      <3> QED
        BY <1>1, <2>3, <2>4, <3>1 DEF o
    <2>8. [o.todo EXCEPT ![1].ids = @ \ {id}] = q
      BY <1>1, <2>2 DEF q
    <2>9. Goes(o) = Sets(o, g, o.member, o.compact_revision, q)
      <3>1. FirstToExpire(o.lease, Head(o.todo).ids) = id
        BY <1>1
      <3>2. Revokes(o) = Sets(o, [i \in DOMAIN o.lease \ {id} |-> o.lease[i]], o.member,
                              o.compact_revision, [o.todo EXCEPT ![1].ids = @ \ {id}])
        BY <1>1, <1>2, <1>4, <1>8, <3>1 DEF Revokes
      <3> QED
        BY <1>1, <1>5, <2>8, <3>2 DEF g
    <2> QED
      BY <2>7, <2>9, NotRefused DEF o
  <1> QED
    BY <1>6, <1>7, <1>8

(* u is what a run of t's next operation leaves of it: the actions of       *)
(* Store, as a relation on constants.                                      *)
Ran(t, u) ==
    LET op == Head(t.todo)
    IN  \/ /\ op.op = "put"
           /\ LET prev == current_in(t.db.kv, {op.key})
              IN  IF (op.ignore_value \/ op.ignore_lease) /\ prev = {}
                  THEN u = NoTx ELSE u = Pop(Insert(t, PutRow(t, op, prev), prev))
        \/ /\ op.op = "delete"
           /\ LET victims == current_in(t.db.kv, op.range)
              IN  IF victims = {} THEN u = Pop(t) ELSE u = DeleteOne(t, victims)
        \/ op.op = "range" /\ u = Pop(t)
        \/ /\ op.op = "compact"
           /\ LET r == op.revision
              IN  IF r <= t.db.compact_revision \/ r > t.db.revision
                  THEN u = NoTx
                  ELSE u = Pop([t EXCEPT !.db.kv = Kept(t.db.kv, r), !.db.compact_revision = r])
        \/ /\ op.op = "lease_grant"
           /\ LET ttl == IF op.ttl < 1 THEN 1 ELSE op.ttl
              IN  u = Pop([t EXCEPT !.db.lease = Renewed(t.db.lease, op.id, ttl, op.now)])
        \/ /\ op.op = "lease_keep_alive"
           /\ IF op.id \in DOMAIN t.db.lease
              THEN u = Pop([t EXCEPT !.db.lease =
                                Renewed(t.db.lease, op.id, t.db.lease[op.id].ttl, op.now)])
              ELSE u = Pop(t)
        \/ /\ op.op = "revoke"
           /\ LET id      == FirstToExpire(t.db.lease, op.ids)
                  victims == lease_keys(t.db.kv, id)
              IN  IF op.ids = {} THEN u = Pop(t)
                  ELSE IF victims # {} THEN u = DeleteOne(t, victims)
                  ELSE u = Dropped(t, id)
        \/ /\ op.op = "set_member"
           /\ u = Pop([t EXCEPT !.db.member = {x \in @ : x.id # op.member.id} \cup {op.member}])
        \/ /\ op.op = "remove_member"
           /\ u = Pop([t EXCEPT !.db.member = {x \in @ : x.id # op.id}])

LEMMA RanActs ==
    ASSUME NEW t, Good(t), t.todo # <<>>, NEW u, Ran(t, u)
    PROVE  ActsOnOutline(t, u)
  <1> DEFINE op == Head(t.todo)
  <1>1. CASE op.op = "put"
    <2> DEFINE prev == current_in(t.db.kv, {op.key})
    <2>1. IF (op.ignore_value \/ op.ignore_lease) /\ prev = {}
          THEN u = NoTx ELSE u = Pop(Insert(t, PutRow(t, op, prev), prev))
      BY <1>1 DEF Ran
    <2> HIDE DEF prev
    <2> QED
      BY <1>1, <2>1, apply_putActs DEF prev
  <1>2. CASE op.op = "delete"
    <2> DEFINE victims == current_in(t.db.kv, op.range)
    <2>1. IF victims = {} THEN u = Pop(t) ELSE u = DeleteOne(t, victims)
      BY <1>2 DEF Ran
    <2> QED
      BY <1>2, <2>1, apply_deleteActs
  <1>3. CASE op.op = "range"
    BY <1>3, apply_rangeActs DEF Ran
  <1>4. CASE op.op = "compact"
    BY <1>4, apply_compactActs DEF Ran
  <1>5. CASE op.op = "lease_grant"
    BY <1>5, lease_grantActs DEF Ran
  <1>6. CASE op.op = "lease_keep_alive"
    BY <1>6, lease_keep_aliveActs DEF Ran
  <1>7. CASE op.op = "revoke"
    <2> DEFINE id == FirstToExpire(t.db.lease, op.ids)
               victims == lease_keys(t.db.kv, id)
    <2>1. IF op.ids = {} THEN u = Pop(t)
          ELSE IF victims # {} THEN u = DeleteOne(t, victims)
          ELSE u = Dropped(t, id)
      BY <1>7 DEF Ran
    <2>2. Good(t) /\ t.todo # <<>> /\ op.op = "revoke"
      BY <1>7
    <2> HIDE DEF op
    <2>3. op = Head(t.todo)
      BY DEF op
    <2>4. id = FirstToExpire(t.db.lease, op.ids)
      OBVIOUS
    <2> HIDE DEF id
    <2>5. victims = lease_keys(t.db.kv, id)
      OBVIOUS
    <2> HIDE DEF victims
    <2> QED
      BY ONLY <2>1, <2>2, <2>3, <2>4, <2>5, revoke_leaseActs
  <1>8. CASE op.op = "set_member"
    BY <1>8, set_memberActs DEF Ran
  <1>9. CASE op.op = "remove_member"
    BY <1>9, remove_memberActs DEF Ran
  <1> QED
    BY <1>1, <1>2, <1>3, <1>4, <1>5, <1>6, <1>7, <1>8, <1>9 DEF Ran

(* Both members run their transactions so.                                 *)
LEMMA LeaderRuns ==
    ASSUME Run
    PROVE  tx.open /\ tx.todo # <<>> /\ Ran(tx, tx') /\ UNCHANGED <<db, live, past>>
  <1>1. CASE apply_put
    BY <1>1 DEF apply_put, Op, Step, Rollback, Ran
  <1>2. CASE apply_delete
    BY <1>2 DEF apply_delete, Op, Step, Rollback, Ran
  <1>3. CASE apply_range
    BY <1>3 DEF apply_range, Op, Step, Rollback, Ran
  <1>4. CASE apply_compact
    BY <1>4 DEF apply_compact, Op, Step, Rollback, Ran, Kept
  <1>5. CASE lease_grant
    BY <1>5 DEF lease_grant, Grant, Renewed, Op, Step, Rollback, Ran
  <1>6. CASE lease_keep_alive
    BY <1>6 DEF lease_keep_alive, Grant, Renewed, Op, Step, Rollback, Ran
  <1>7. CASE revoke_lease
    BY <1>7 DEF revoke_lease, Dropped, Op, Step, Rollback, Ran
  <1>8. CASE set_member
    BY <1>8 DEF set_member, Op, Step, Rollback, Ran
  <1>9. CASE remove_member
    BY <1>9 DEF remove_member, Op, Step, Rollback, Ran
  <1> QED
    BY <1>1, <1>2, <1>3, <1>4, <1>5, <1>6, <1>7, <1>8, <1>9 DEF Run

(* The follower's operators are those of Store.                            *)
LEMMA SameOperators ==
    /\ F!NoTx = NoTx
    /\ \A t : F!Pop(t) = Pop(t)
    /\ \A t, row, prev : F!Insert(t, row, prev) = Insert(t, row, prev)
    /\ \A t, op, prev : F!PutRow(t, op, prev) = PutRow(t, op, prev)
    /\ \A K, R : F!current_in(K, R) = current_in(K, R)
    /\ \A t, S : F!DeleteOne(t, S) = DeleteOne(t, S)
    /\ \A K, id : F!lease_keys(K, id) = lease_keys(K, id)
    /\ \A lease, ids : F!FirstToExpire(lease, ids) = FirstToExpire(lease, ids)
    /\ \A S : F!Newest(S) = Newest(S)
  <1>1. \A t : F!Pop(t) = Pop(t)
    BY DEF F!Pop, Pop
  <1>2. \A t, row, prev : F!Insert(t, row, prev) = Insert(t, row, prev)
    BY DEF F!Insert, Insert, F!EventOf, EventOf, F!Kv, Kv, F!ZeroKv, ZeroKv
  <1>3. \A t, op, prev : F!PutRow(t, op, prev) = PutRow(t, op, prev)
    BY DEF F!PutRow, PutRow
  <1>4. \A S : F!Newest(S) = Newest(S)
    BY DEF F!Newest, Newest, F!Newer, Newer
  <1>5. \A K, R : F!current_in(K, R) = current_in(K, R)
    BY <1>4 DEF F!current_in, current_in
  <1>6. \A S : F!Lowest(S) = Lowest(S)
    BY DEF F!Lowest, Lowest
  <1>7. \A v : F!Tombstone(v) = Tombstone(v)
    BY DEF F!Tombstone, Tombstone
  <1>8. \A t, S : F!DeleteOne(t, S) = DeleteOne(t, S)
    BY <1>2, <1>6, <1>7 DEF F!DeleteOne, DeleteOne
  <1>9. \A K, id : F!lease_keys(K, id) = lease_keys(K, id)
    BY <1>5 DEF F!lease_keys, lease_keys
  <1>10. \A lease, ids : F!FirstToExpire(lease, ids) = FirstToExpire(lease, ids)
    BY DEF F!FirstToExpire, FirstToExpire
  <1> QED
    BY <1>1, <1>2, <1>3, <1>4, <1>5, <1>8, <1>9, <1>10 DEF F!NoTx, NoTx

LEMMA FollowerRuns ==
    ASSUME F!Run
    PROVE  ftx.open /\ ftx.todo # <<>> /\ Ran(ftx, ftx') /\ UNCHANGED <<fdb, flive, fpast>>
  <1>1. CASE F!apply_put
    BY <1>1, SameOperators DEF F!apply_put, F!Op, F!Step, F!Rollback, Ran
  <1>2. CASE F!apply_delete
    BY <1>2, SameOperators DEF F!apply_delete, F!Op, F!Step, F!Rollback, Ran
  <1>3. CASE F!apply_range
    BY <1>3, SameOperators DEF F!apply_range, F!Op, F!Step, F!Rollback, Ran
  <1>4. CASE F!apply_compact
    BY <1>4, SameOperators DEF F!apply_compact, F!Op, F!Step, F!Rollback, Ran, Kept
  <1>5. CASE F!lease_grant
    BY <1>5, SameOperators DEF F!lease_grant, F!Grant, Renewed, F!Op, F!Step, F!Rollback, Ran
  <1>6. CASE F!lease_keep_alive
    BY <1>6, SameOperators DEF F!lease_keep_alive, F!Grant, Renewed, F!Op, F!Step, F!Rollback, Ran
  <1>7. CASE F!revoke_lease
    BY <1>7, SameOperators DEF F!revoke_lease, Dropped, F!Op, F!Step, F!Rollback, Ran
  <1>8. CASE F!set_member
    BY <1>8, SameOperators DEF F!set_member, F!Op, F!Step, F!Rollback, Ran
  <1>9. CASE F!remove_member
    BY <1>9, SameOperators DEF F!remove_member, F!Op, F!Step, F!Rollback, Ran
  <1> QED
    BY <1>1, <1>2, <1>3, <1>4, <1>5, <1>6, <1>7, <1>8, <1>9 DEF F!Run

-----------------------------------------------------------------------------
(* Beginning and ending a transaction.                                     *)

LookedUp(kvs, k) ==
    LET cur == {c \in kvs : c.key = k} IN IF cur = {} THEN ZeroKv ELSE SomeOf(cur)

Compares(kvs, c) ==
    LET kv == LookedUp(kvs, c.key)
    IN  CASE c.result = "Equal"    -> kv[c.target] = c.operand
          [] c.result = "NotEqual" -> kv[c.target] # c.operand
          [] c.result = "Greater"  -> kv[c.target] > c.operand
          [] c.result = "Less"     -> kv[c.target] < c.operand

PlanOf(ob, cmd) ==
    CASE cmd.op = "txn" ->
            IF \A c \in cmd.compare : Compares(ob.kvs, c) THEN cmd.success ELSE cmd.failure
      [] cmd.op = "lease_revoke"  -> <<[op |-> "revoke", ids |-> {cmd.id}]>>
      [] cmd.op = "expire_leases" -> <<[op |-> "revoke", ids |-> Expired(ob, cmd.now)]>>
      [] OTHER -> <<cmd>>

(* The outline a command starts with where ob is observed, and what is     *)
(* observed once an outline is committed.                                  *)
Opening(ob, cmd) ==
    [kvs |-> ob.kvs, lease |-> ob.lease, member |-> ob.member, revision |-> ob.revision,
     compact_revision |-> ob.compact_revision, next |-> ob.revision + 1,
     todo |-> PlanOf(ob, cmd), sub |-> 0, used |-> FALSE, events |-> {}]

Result(o) ==
    [kvs |-> o.kvs, lease |-> o.lease, member |-> o.member,
     revision |-> IF o.used THEN o.next ELSE o.revision, compact_revision |-> o.compact_revision]

GoodDb(d) ==
    /\ DbFields \subseteq DOMAIN d
    /\ d.revision \in Nat /\ d.compact_revision \in Nat
    /\ Numbered(d.kv, d.revision + 1, 0)

LEMMA ObservedContents ==
    ASSUME NEW d, Numbered(d.kv, d.revision + 1, 0), d.revision \in Nat
    PROVE  Observable(d) = [kvs |-> Contents(d.kv), lease |-> d.lease, member |-> d.member,
                            revision |-> d.revision, compact_revision |-> d.compact_revision]
  <1>1. \A x \in d.kv : x.rev \in Nat /\ x.sub \in Nat /\ x.rev <= d.revision
    BY DEF Numbered, Row
  <1>2. {x \in d.kv : x.key \in Keys /\ x.rev <= d.revision} = {x \in d.kv : x.key \in Keys}
    BY <1>1
  <1>3. range_in(d.kv, Keys, d.revision) = current_in(d.kv, Keys)
    BY <1>2 DEF range_in, current_in
  <1>4. range(d, Keys, 0) = Contents(d.kv)
    BY <1>3 DEF range, Contents
  <1> QED
    BY <1>4 DEF Observable

LEMMA LooksUp ==
    ASSUME NEW K, NEW n, NEW s, Numbered(K, n, s), NEW k \in Keys
    PROVE  LookedUp(Contents(K), k) = IF current_in(K, {k}) = {} THEN ZeroKv
                                      ELSE Kv(CHOOSE r \in current_in(K, {k}) : TRUE)
  <1> DEFINE cur == current_in(K, {k})
             held == {c \in Contents(K) : c.key = k}
  <1>1. cur = {r \in current_in(K, Keys) : r.key \in {k}}
    BY CurrentOf
  <1>2. held = KvsOf(cur)
    BY <1>1, KvFields DEF Contents, KvsOf
  <1>3. \A a, b \in cur : a = b
    BY OneCurrentRow
  <1> HIDE DEF cur, held
  <1>4. CASE cur = {}
    BY <1>2, <1>4 DEF LookedUp, held, cur, KvsOf
  <1>5. CASE cur # {}
    <2>1. PICK r \in cur : cur = {r}
      BY <1>3, <1>5
    <2>2. held = {Kv(r)}
      BY <1>2, <2>1 DEF KvsOf
    <2>3. SomeOf(held) = Kv(r) /\ (CHOOSE x \in cur : TRUE) = r
      BY <2>1, <2>2 DEF SomeOf
    <2>4. LookedUp(Contents(K), k) = SomeOf(held)
      BY <2>2 DEF LookedUp, held
    <2> QED
      BY <1>5, <2>3, <2>4 DEF cur
  <1> QED
    BY <1>4, <1>5

LEMMA ComparesAlike ==
    ASSUME NEW K, NEW n, NEW s, Numbered(K, n, s), NEW c \in Compare
    PROVE  evaluate_compare(K, c) <=> Compares(Contents(K), c)
  <1>1. c.key \in Keys /\ c.result \in {"Equal", "NotEqual", "Greater", "Less"}
    BY DEF Compare
  <1> DEFINE kv == IF current_in(K, {c.key}) = {} THEN ZeroKv
                   ELSE Kv(CHOOSE r \in current_in(K, {c.key}) : TRUE)
  <1>2. LookedUp(Contents(K), c.key) = kv
    BY <1>1, LooksUp
  <1>3. evaluate_compare(K, c) <=>
            CASE c.result = "Equal"    -> kv[c.target] = c.operand
              [] c.result = "NotEqual" -> kv[c.target] # c.operand
              [] c.result = "Greater"  -> kv[c.target] > c.operand
              [] c.result = "Less"     -> kv[c.target] < c.operand
    BY DEF evaluate_compare
  <1> HIDE DEF kv
  <1> QED
    BY <1>1, <1>2, <1>3 DEF Compares

LEMMA PlansAlike ==
    ASSUME NEW d, GoodDb(d), NEW cmd \in Commands
    PROVE  Plan(d, cmd) = PlanOf(Observable(d), cmd)
  <1> DEFINE ob == Observable(d)
  <1>1. ob.kvs = Contents(d.kv) /\ ob.lease = d.lease
    BY ObservedContents DEF GoodDb
  <1> HIDE DEF ob
  <1>2. CASE cmd.op = "txn"
    <2>1. cmd.compare \in SUBSET Compare
      BY <1>2, CommandsAreTyped DEF Command, PutOp, DeleteOp, TxnOp
    <2>2. (\A c \in cmd.compare : evaluate_compare(d.kv, c)) <=> \A c \in cmd.compare : Compares(ob.kvs, c)
      <3>1. \A c \in cmd.compare : evaluate_compare(d.kv, c) <=> Compares(Contents(d.kv), c)
        BY <2>1, ComparesAlike DEF GoodDb
      <3> QED
        BY <1>1, <3>1
    <2> QED
      BY <1>2, <2>2 DEF Plan, PlanOf, ob
  <1>3. CASE cmd.op # "txn"
    <2>1. Expired(d, cmd.now) = Expired(ob, cmd.now)
      BY <1>1 DEF Expired
    <2> QED
      BY <1>3, <2>1 DEF Plan, PlanOf, ob
  <1> QED
    BY <1>2, <1>3

(* A transaction as Begin opens it.                                        *)
LEMMA Opens ==
    ASSUME NEW d, GoodDb(d), NEW cmd \in Commands, NEW t,
           t = [open |-> TRUE, cmd |-> cmd, todo |-> Plan(d, cmd), db |-> d,
                next |-> d.revision + 1, sub |-> 0, used |-> FALSE, events |-> {}],
           PlanOf(Observable(d), cmd) \in Seq(Operation)
    PROVE  /\ Good(t) /\ Outline(t) = Opening(Observable(d), cmd)
           /\ t.cmd = cmd /\ t.db = d
  <1>1. /\ TxFields \subseteq DOMAIN t /\ t.open = TRUE /\ t.cmd = cmd /\ t.db = d
        /\ t.todo = PlanOf(Observable(d), cmd)
        /\ t.next = d.revision + 1 /\ t.sub = 0 /\ t.events = {}
    BY PlansAlike DEF TxFields
  <1>2. t.used = FALSE
    OBVIOUS
  <1>3. Numbered(t.db.kv, t.next, t.sub) /\ Dense(t.db.kv, t.next, t.sub)
    BY <1>1 DEF GoodDb, Dense
  <1>4. t.used \in BOOLEAN /\ (t.used <=> t.sub > 0)
    <2>1. ~(t.sub > 0)
      BY <1>1
    <2> QED
      BY ONLY <1>2, <2>1, Zenon
  <1>5. Good(t)
    BY <1>1, <1>3, <1>4 DEF Good, GoodDb
  <1>6. Outline(t) = Opening(Observable(d), cmd)
    <2> DEFINE ob == Observable(d)
    <2>1. /\ ob.kvs = Contents(d.kv) /\ ob.lease = d.lease /\ ob.member = d.member
          /\ ob.revision = d.revision /\ ob.compact_revision = d.compact_revision
      BY ObservedContents DEF GoodDb
    <2> HIDE DEF ob
    <2>2. Outline(t) = [kvs |-> ob.kvs, lease |-> ob.lease, member |-> ob.member,
                        revision |-> ob.revision, compact_revision |-> ob.compact_revision,
                        next |-> ob.revision + 1, todo |-> PlanOf(ob, cmd), sub |-> 0,
                        used |-> FALSE, events |-> {}]
      BY ONLY <1>1, <1>2, <2>1 DEF Outline, ob
    <2> QED
      BY ONLY <2>2 DEF Opening, ob
  <1> QED
    BY <1>1, <1>5, <1>6

(* What a commit of t leaves.                                              *)
LEMMA Commits ==
    ASSUME NEW t, Good(t), NEW d,
           d = [t.db EXCEPT !.revision = IF t.used THEN t.next ELSE @, !.applied_index = @ + 1]
    PROVE  /\ GoodDb(d) /\ Observable(d) = Result(Outline(t))
           /\ d.applied_index = t.db.applied_index + 1
  <1>1. /\ DbFields \subseteq DOMAIN d
        /\ d.kv = t.db.kv /\ d.lease = t.db.lease /\ d.member = t.db.member
        /\ d.compact_revision = t.db.compact_revision
        /\ d.applied_index = t.db.applied_index + 1
        /\ d.revision = IF t.used THEN t.next ELSE t.db.revision
    <2>1. DbFields \subseteq DOMAIN t.db
      BY DEF Good
    <2> QED
      BY ONLY <2>1, d = [t.db EXCEPT !.revision = IF t.used THEN t.next ELSE @, !.applied_index = @ + 1]
         DEF DbFields
  <1>2. /\ t.db.revision \in Nat /\ t.db.compact_revision \in Nat /\ t.next = t.db.revision + 1
        /\ Numbered(t.db.kv, t.next, t.sub) /\ t.sub \in Nat /\ (t.used <=> t.sub > 0)
    BY DEF Good, Numbered
  <1>3. \A x \in t.db.kv : x.rev \in Nat /\ x.sub \in Nat
    BY <1>2 DEF Numbered, Row
  <1>4. d.revision \in Nat /\ \A x \in t.db.kv : x.rev < d.revision + 1
    <2>1. CASE t.used
      <3>1. d.revision = t.next
        BY <1>1, <2>1
      <3> QED
        BY <1>2, <1>3, <3>1 DEF Numbered
    <2>2. CASE ~t.used
      <3>1. d.revision = t.db.revision /\ t.sub = 0
        BY <1>1, <1>2, <2>2
      <3> QED
        BY <1>2, <1>3, <3>1 DEF Numbered
    <2> QED
      BY <2>1, <2>2
  <1>5. Numbered(d.kv, d.revision + 1, 0)
    BY <1>1, <1>2, <1>4 DEF Numbered
  <1>6. Observable(d) = Result(Outline(t))
    <2>1. Observable(d) = [kvs |-> Contents(d.kv), lease |-> d.lease, member |-> d.member,
                           revision |-> d.revision, compact_revision |-> d.compact_revision]
      BY <1>4, <1>5, ObservedContents
    <2> DEFINE o == Outline(t)
    <2>2. /\ o.kvs = Contents(d.kv) /\ o.lease = d.lease /\ o.member = d.member
          /\ o.compact_revision = d.compact_revision
      BY ONLY <1>1, OutlineFields
    <2>3. d.revision = IF o.used THEN o.next ELSE o.revision
      BY ONLY <1>1, OutlineFields
    <2> HIDE DEF o
    <2> QED
      BY ONLY <2>1, <2>2, <2>3 DEF Result, o
  <1> QED
    BY <1>1, <1>2, <1>4, <1>5, <1>6 DEF GoodDb

-----------------------------------------------------------------------------
(* Executions: f is where the operations of o lead.                        *)

Reaches(o, f) ==
    \E n \in Nat : \E s :
        /\ s[0] = o /\ s[n] = f
        /\ \A i \in Nat : i < n =>
              s[i].todo # <<>> /\ ~Refuses(s[i]) /\ s[i + 1] = Goes(s[i])

LEMMA ReachesItself == ASSUME NEW o PROVE Reaches(o, o)
  <1> DEFINE s == [i \in Nat |-> o]
  <1>1. s[0] = o /\ \A i \in Nat : ~(i < 0)
    OBVIOUS
  <1> HIDE DEF s
  <1> QED
    BY <1>1 DEF Reaches

LEMMA ReachesFurther ==
    ASSUME NEW o, NEW f, Reaches(o, f), f.todo # <<>>, ~Refuses(f)
    PROVE  Reaches(o, Goes(f))
  <1>1. PICK n \in Nat : \E s :
            /\ s[0] = o /\ s[n] = f
            /\ \A i \in Nat : i < n => s[i].todo # <<>> /\ ~Refuses(s[i]) /\ s[i + 1] = Goes(s[i])
    BY DEF Reaches
  <1>2. PICK s : /\ s[0] = o /\ s[n] = f
                 /\ \A i \in Nat : i < n => s[i].todo # <<>> /\ ~Refuses(s[i]) /\ s[i + 1] = Goes(s[i])
    BY <1>1
  <1> DEFINE q == [i \in Nat |-> IF i <= n THEN s[i] ELSE Goes(f)]
  <1>3. q[0] = o /\ q[n + 1] = Goes(f)
    BY <1>2
  <1>4. ASSUME NEW i \in Nat, i < n + 1
        PROVE  q[i].todo # <<>> /\ ~Refuses(q[i]) /\ q[i + 1] = Goes(q[i])
    <2>1. q[i] = s[i]
      BY <1>4
    <2>2. CASE i < n
      <3>1. q[i + 1] = s[i + 1]
        BY <2>2
      <3> HIDE DEF q
      <3> QED
        BY <1>2, <2>1, <2>2, <3>1
    <2>3. CASE i = n
      <3>1. q[i + 1] = Goes(f)
        BY <2>3
      <3> HIDE DEF q
      <3> QED
        BY <1>2, <2>1, <2>3, <3>1
    <2> QED
      BY <1>4, <2>2, <2>3
  <1> HIDE DEF q
  <1>5. n + 1 \in Nat
    OBVIOUS
  <1> QED
    BY <1>3, <1>4, <1>5 DEF Reaches

LEMMA ReachesNext ==
    ASSUME NEW o, NEW f, Reaches(o, f), f.todo = <<>>
    PROVE  /\ o.todo = <<>> => o = f
           /\ o.todo # <<>> => ~Refuses(o) /\ Reaches(Goes(o), f)
  <1>1. PICK n \in Nat : \E s :
            /\ s[0] = o /\ s[n] = f
            /\ \A i \in Nat : i < n => s[i].todo # <<>> /\ ~Refuses(s[i]) /\ s[i + 1] = Goes(s[i])
    BY DEF Reaches
  <1>2. PICK s : /\ s[0] = o /\ s[n] = f
                 /\ \A i \in Nat : i < n => s[i].todo # <<>> /\ ~Refuses(s[i]) /\ s[i + 1] = Goes(s[i])
    BY <1>1
  <1>3. CASE n = 0
    BY <1>2, <1>3
  <1>4. CASE n > 0
    <2>1. o.todo # <<>> /\ ~Refuses(o) /\ s[1] = Goes(o)
      BY <1>2, <1>4
    <2> DEFINE q == [i \in Nat |-> s[i + 1]]
    <2>2. q[0] = Goes(o) /\ q[n - 1] = f /\ n - 1 \in Nat
      BY <1>2, <1>4, <2>1
    <2>3. ASSUME NEW i \in Nat, i < n - 1
          PROVE  q[i].todo # <<>> /\ ~Refuses(q[i]) /\ q[i + 1] = Goes(q[i])
      <3>1. q[i] = s[i + 1] /\ q[i + 1] = s[(i + 1) + 1] /\ i + 1 \in Nat /\ i + 1 < n
        BY <2>3
      <3> HIDE DEF q
      <3> QED
        BY <1>2, <3>1
    <2> HIDE DEF q
    <2>4. Reaches(Goes(o), f)
      BY <2>2, <2>3 DEF Reaches
    <2> QED
      BY <2>1, <2>4
  <1> QED
    BY <1>3, <1>4

-----------------------------------------------------------------------------
(* Snapshots: a restored store is observed as the store it was taken of.   *)

LEMMA RestoredRowFields ==
    ASSUME NEW kvs, IsFiniteSet(kvs), NEW r \in Row, NEW w, w = RestoredRow(kvs, Kv(r))
    PROVE  /\ w \in Row /\ Kv(w) = Kv(r) /\ w.rev = r.rev /\ w.key = r.key
           /\ ~w.deleted
  <1> DEFINE x == Kv(r)
             same == {y \in kvs : y.key < x.key /\
                        \A z \in kvs : z.key \in y.key .. x.key => z.mod = x.mod}
  <1>1. RestoredSub(kvs, x) \in Nat
    <2>1. same \subseteq kvs
      OBVIOUS
    <2> HIDE DEF same
    <2>2. IsFiniteSet(same)
      BY <2>1, FS_Subset
    <2>3. Cardinality(same) \in Nat
      BY <2>2, FS_CardinalityType
    <2> QED
      BY <2>3 DEF RestoredSub, same
  <1>2. /\ x.mod = r.rev /\ x.key = r.key /\ x.value = r.value /\ x.create = r.create
        /\ x.version = r.version /\ x.lease = r.lease
    BY KvFields
  <1> HIDE DEF x
  <1>3. w = [rev |-> x.mod, sub |-> RestoredSub(kvs, x), key |-> x.key, deleted |-> FALSE,
             value |-> x.value, create |-> x.create, version |-> x.version,
             lease |-> x.lease, prev |-> 0]
    BY DEF RestoredRow, x
  <1>4. w \in Row
    BY <1>1, <1>2, <1>3 DEF Row
  <1>5. Kv(w) = Kv(r)
    BY <1>2, <1>3 DEF Kv
  <1> QED
    BY <1>2, <1>3, <1>4, <1>5

LEMMA ImageIsFinite ==
    ASSUME NEW f, IsFiniteSet(DOMAIN f), f = [x \in DOMAIN f |-> f[x]]
    PROVE  IsFiniteSet({f[x] : x \in DOMAIN f})
  <1> DEFINE T == {f[x] : x \in DOMAIN f}
  <1>1. f \in [DOMAIN f -> T] /\ \A y \in T : \E x \in DOMAIN f : f[x] = y
    OBVIOUS
  <1> HIDE DEF T
  <1>2. f \in Surjection(DOMAIN f, T)
    BY <1>1 DEF Surjection
  <1>3. IsFiniteSet(T)
    BY <1>2, FS_Surjection
  <1> QED
    BY <1>3 DEF T

LEMMA RestoredIsGood ==
    ASSUME NEW d, GoodDb(d), NEW e, e = Restored(export_snapshot(d)), PrimaryKeyHolds(e.kv)
    PROVE  GoodDb(e) /\ Observable(e) = Observable(d) /\ e.applied_index = d.applied_index
  <1> DEFINE kvs == Contents(d.kv)
             cur == current_in(d.kv, Keys)
             Row1(x) == RestoredRow(kvs, x)
  <1>1. /\ DbFields \subseteq DOMAIN d /\ d.revision \in Nat /\ d.compact_revision \in Nat
        /\ Numbered(d.kv, d.revision + 1, 0)
    BY DEF GoodDb
  <1>2. range(d, Keys, 0) = kvs
    <2>1. Observable(d).kvs = kvs
      BY <1>1, ObservedContents
    <2> QED
      BY <2>1 DEF Observable
  <1>3. /\ DbFields \subseteq DOMAIN e /\ e.kv = {Row1(x) : x \in kvs}
        /\ e.lease = d.lease /\ e.member = d.member /\ e.revision = d.revision
        /\ e.compact_revision = d.compact_revision /\ e.applied_index = d.applied_index
    BY <1>1, <1>2 DEF Restored, export_snapshot, DbFields
  <1>4. IsFiniteSet(cur) /\ \A r \in cur : r \in Row /\ r \in d.kv
    <2>1. cur \subseteq d.kv
      BY <1>1, CurrentRows
    <2> QED
      BY <1>1, <2>1, FS_Subset DEF Numbered
  <1>5. \A a, b \in cur : a.key = b.key => a = b
    BY <1>1, HeldOnce
  <1>6. \A x : x \in kvs <=> \E r \in cur : x = Kv(r)
    BY DEF Contents
  <1>7. IsFiniteSet(kvs)
    <2>1. kvs = {Kv(r) : r \in cur}
      BY DEF Contents
    <2> HIDE DEF cur, kvs
    <2> DEFINE f == [r \in cur |-> Kv(r)]
    <2>2. DOMAIN f = cur /\ f = [x \in DOMAIN f |-> f[x]] /\ kvs = {f[x] : x \in DOMAIN f}
      BY <2>1
    <2> HIDE DEF f
    <2> QED
      BY <1>4, <2>2, ImageIsFinite
  <1> HIDE DEF kvs, cur
  <1>8. ASSUME NEW r \in cur
        PROVE  /\ Row1(Kv(r)) \in Row /\ Kv(Row1(Kv(r))) = Kv(r) /\ Row1(Kv(r)).rev = r.rev
               /\ Row1(Kv(r)).key = r.key /\ ~Row1(Kv(r)).deleted
    BY <1>4, <1>7, RestoredRowFields
  <1>9. \A w : w \in e.kv <=> \E r \in cur : w = Row1(Kv(r))
    BY <1>3, <1>6
  <1>10. IsFiniteSet(e.kv)
    <2> HIDE DEF Row1
    <2> DEFINE f == [x \in kvs |-> Row1(x)]
    <2>1. DOMAIN f = kvs /\ f = [x \in DOMAIN f |-> f[x]] /\ e.kv = {f[x] : x \in DOMAIN f}
      BY <1>3
    <2> HIDE DEF f
    <2> QED
      BY <1>7, <2>1, ImageIsFinite
  <1> HIDE DEF Row1
  <1>11. e.kv \subseteq Row
    BY <1>8, <1>9
  <1>12. Numbered(e.kv, d.revision + 1, 0)
    <2>1. \A r \in cur : 0 < r.rev /\ r.rev < d.revision + 1
      BY <1>1, <1>4 DEF Numbered, Row
    <2>2. \A w \in e.kv : 0 < w.rev /\ w.rev < d.revision + 1
      BY <1>8, <1>9, <2>1
    <2> QED
      BY <1>1, <1>10, <1>11, <2>2 DEF Numbered, PrimaryKeyHolds
  <1>13. \A a, b \in e.kv : a.key = b.key => a = b
    BY <1>5, <1>8, <1>9
  <1>14. current_in(e.kv, Keys) = e.kv
    <2>1. \A w \in e.kv : w.key \in Keys /\ ~w.deleted /\ ~Newer(w, w)
      BY <1>8, <1>9, <1>11, NewerIsAnOrder DEF Row
    <2> QED
      BY <1>13, <2>1 DEF current_in, Newest
  <1>15. Contents(e.kv) = kvs
    BY <1>6, <1>8, <1>9, <1>14 DEF Contents
  <1>16. GoodDb(e)
    BY <1>1, <1>3, <1>12 DEF GoodDb
  <1>17. Observable(e) = Observable(d)
    BY <1>1, <1>3, <1>12, <1>15, ObservedContents DEF kvs
  <1> QED
    BY <1>3, <1>16, <1>17

-----------------------------------------------------------------------------
(* The inductive invariant: the log and the states after each of its        *)
(* entries are explained by executions of outlines; the leader's open       *)
(* transaction is on such an execution, and the follower's on the one       *)
(* recorded for its entry.                                                 *)

FirstState == [kvs |-> {}, lease |-> <<>>, member |-> {}, revision |-> 1, compact_revision |-> 0]

StateIn(sts, i) == IF i = 0 THEN FirstState ELSE sts[i]

Ended(f, state, told) == f.todo = <<>> /\ Result(f) = state /\ f.events \subseteq told

Recorded(cs, sts, told, i) ==
    /\ PlanOf(StateIn(sts, i - 1), cs[i]) \in Seq(Operation)
    /\ \E f : Reaches(Opening(StateIn(sts, i - 1), cs[i]), f) /\ Ended(f, sts[i], told)

LogOK(cs, sts, told) ==
    /\ cs \in Seq(Commands)
    /\ \E S : sts \in Seq(S)
    /\ Len(sts) = Len(cs)
    /\ \A i \in 1 .. Len(cs) : Recorded(cs, sts, told, i)

LeaderAtItsEnd ==
    /\ db.applied_index = Len(cmds)
    /\ Observable(db) = StateIn(states, Len(cmds))

LeaderTx ==
    tx.open =>
        /\ tx.cmd \in Commands
        /\ PlanOf(Observable(db), tx.cmd) \in Seq(Operation)
        /\ Reaches(Opening(Observable(db), tx.cmd), Outline(tx))

FollowerDb ==
    /\ GoodDb(fdb)
    /\ fdb.applied_index \in 0 .. Len(cmds)
    /\ Observable(fdb) = StateIn(states, fdb.applied_index)
    /\ flive \subseteq live

FollowerTx ==
    ftx.open =>
        /\ Good(ftx)
        /\ ftx.db.applied_index = fdb.applied_index
        /\ fdb.applied_index < Len(cmds)
        /\ \E f : Reaches(Outline(ftx), f) /\ Ended(f, states[fdb.applied_index + 1], live)

RInv == IInv /\ LogOK(cmds, states, live) /\ LeaderAtItsEnd /\ LeaderTx /\ FollowerDb /\ FollowerTx

LEMMA LeaderIsGood ==
    ASSUME IInv
    PROVE  /\ GoodDb(db)
           /\ tx.open => Good(tx) /\ tx.db.applied_index = db.applied_index
  <1>1. GoodDb(db)
    BY DEF IInv, DbInv, View, ShapeOf, GoodDb
  <1>2. ASSUME tx.open PROVE Good(tx) /\ tx.db.applied_index = db.applied_index
    <2>1. TxShape /\ View(tx.db, tx.next, tx.sub, live \cup tx.events, past)
      BY <1>2 DEF IInv, TxInv
    <2>2. tx.open = TRUE
      BY <1>2 DEF IInv
    <2>3. DbFields \subseteq DOMAIN tx.db /\ tx.db.revision \in Nat /\ tx.db.compact_revision \in Nat
          /\ tx.next = tx.db.revision + 1 /\ Numbered(tx.db.kv, tx.next, tx.sub)
          /\ Dense(tx.db.kv, tx.next, tx.sub)
      BY <2>1 DEF View, ShapeOf
    <2> QED
      BY <2>1, <2>2, <2>3 DEF Good, TxShape
  <1> QED
    BY <1>1, <1>2

(* An entry c is added to the log, with st the state after it: f is where   *)
(* its operations led.                                                     *)
MayGrow(cs, sts, told, c, st, f, more) ==
    /\ LogOK(cs, sts, told) /\ c \in Commands /\ told \subseteq more
    /\ f.todo = <<>> /\ Result(f) = st /\ f.events \subseteq more
    /\ PlanOf(StateIn(sts, Len(cs)), c) \in Seq(Operation)
    /\ Reaches(Opening(StateIn(sts, Len(cs)), c), f)

Grown(cs, sts, ds, uts, st, more) ==
    /\ LogOK(ds, uts, more)
    /\ Len(ds) = Len(cs) + 1
    /\ \A i \in 0 .. Len(cs) : StateIn(uts, i) = StateIn(sts, i)
    /\ \A i \in 1 .. Len(cs) : uts[i] = sts[i]
    /\ StateIn(uts, Len(ds)) = st

LEMMA LogGrows ==
    ASSUME NEW cs, NEW sts, NEW told, NEW c, NEW st, NEW f, NEW more,
           MayGrow(cs, sts, told, c, st, f, more),
           NEW ds, ds = Append(cs, c), NEW uts, uts = Append(sts, st)
    PROVE  Grown(cs, sts, ds, uts, st, more)
  <1> USE DEF MayGrow
  <1>1. PICK S : sts \in Seq(S)
    BY DEF LogOK
  <1>2. /\ Len(cs) \in Nat /\ Len(sts) = Len(cs)
        /\ ds \in Seq(Commands) /\ Len(ds) = Len(cs) + 1
        /\ \A i \in 1 .. Len(cs) : ds[i] = cs[i]
        /\ ds[Len(cs) + 1] = c
    BY AppendProperties DEF LogOK
  <1>3. /\ uts \in Seq(S \cup {st}) /\ Len(uts) = Len(cs) + 1
        /\ \A i \in 1 .. Len(cs) : uts[i] = sts[i]
        /\ uts[Len(cs) + 1] = st
    <2>1. sts \in Seq(S \cup {st}) /\ st \in S \cup {st}
      BY <1>1
    <2>2. \A i \in 1 .. Len(sts) + 1 : uts[i] = IF i <= Len(sts) THEN sts[i] ELSE st
      BY <2>1, AppendProperties
    <2>3. uts \in Seq(S \cup {st}) /\ Len(uts) = Len(sts) + 1
      BY <2>1, AppendProperties
    <2> QED
      BY <1>2, <2>2, <2>3
  <1>4. \A i \in 0 .. Len(cs) : StateIn(uts, i) = StateIn(sts, i)
    BY <1>2, <1>3 DEF StateIn
  <1>5. ASSUME NEW i \in 1 .. Len(cs) PROVE Recorded(ds, uts, more, i)
    <2>1. i - 1 \in 0 .. Len(cs) /\ uts[i] = sts[i] /\ ds[i] = cs[i]
      BY <1>2, <1>3
    <2>2. StateIn(uts, i - 1) = StateIn(sts, i - 1)
      BY <1>4, <2>1
    <2>3. Recorded(cs, sts, told, i)
      BY DEF LogOK
    <2>4. \A g : Ended(g, sts[i], told) => Ended(g, sts[i], more)
      BY DEF Ended
    <2> QED
      BY <2>1, <2>2, <2>3, <2>4 DEF Recorded
  <1>6. Recorded(ds, uts, more, Len(cs) + 1)
    <2>1. (Len(cs) + 1) - 1 = Len(cs) /\ Len(cs) \in 0 .. Len(cs)
      BY <1>2
    <2>2. StateIn(uts, (Len(cs) + 1) - 1) = StateIn(sts, Len(cs))
      BY <1>4, <2>1
    <2>3. Ended(f, st, more)
      BY DEF Ended
    <2> QED
      BY <1>2, <1>3, <2>2, <2>3 DEF Recorded
  <1>7. LogOK(ds, uts, more)
    <2>1. \A i \in 1 .. Len(ds) : i \in 1 .. Len(cs) \/ i = Len(cs) + 1
      BY <1>2
    <2>2. \A i \in 1 .. Len(ds) : Recorded(ds, uts, more, i)
      BY <1>5, <1>6, <2>1
    <2> QED
      BY <1>2, <1>3, <2>2 DEF LogOK
  <1>8. StateIn(uts, Len(ds)) = st
    BY <1>2, <1>3 DEF StateIn
  <1> QED
    BY <1>2, <1>3, <1>4, <1>7, <1>8 DEF Grown

LEMMA FollowerUndisturbed ==
    ASSUME FollowerDb, FollowerTx, UNCHANGED <<cmds, states, live, followerVars>>
    PROVE  FollowerDb' /\ FollowerTx'
  <1>1. UNCHANGED <<cmds, states, live, fdb, ftx, flive>>
    BY DEF followerVars
  <1> QED
    BY <1>1 DEF FollowerDb, FollowerTx

LEMMA RInvInit == ASSUME ReplicaInit PROVE RInv
  <1>1. IInv /\ db.applied_index = 0
    BY InitInv DEF ReplicaInit, Init
  <1>2. LogOK(cmds, states, live) /\ Len(cmds) = 0
    <2>1. cmds = <<>> /\ states = <<>>
      BY DEF ReplicaInit
    <2> QED
      BY <2>1 DEF LogOK
  <1>3. ~tx.open /\ ~ftx.open
    BY DEF ReplicaInit, Init, F!Init, NoTx, F!NoTx
  <1>4. ASSUME NEW d, d = [kv |-> {}, lease |-> <<>>, member |-> {}, revision |-> 1,
                           compact_revision |-> 0, applied_index |-> 0]
        PROVE  GoodDb(d) /\ Observable(d) = FirstState /\ d.applied_index = 0
    <2>1. /\ DbFields \subseteq DOMAIN d
          /\ d.kv = {} /\ d.lease = <<>> /\ d.member = {} /\ d.revision = 1
          /\ d.compact_revision = 0 /\ d.applied_index = 0
      BY <1>4 DEF DbFields
    <2>2. Numbered(d.kv, d.revision + 1, 0)
      BY <2>1, FS_EmptySet DEF Numbered
    <2>3. Contents(d.kv) = {}
      BY <2>1 DEF Contents, current_in, Newest
    <2>4. d.revision \in Nat
      BY <2>1
    <2>5. Observable(d) = [kvs |-> Contents(d.kv), lease |-> d.lease, member |-> d.member,
                           revision |-> d.revision, compact_revision |-> d.compact_revision]
      BY ONLY <2>2, <2>4, ObservedContents
    <2>6. Observable(d) = FirstState
      BY ONLY <2>1, <2>3, <2>5 DEF FirstState
    <2> QED
      BY <2>1, <2>2, <2>6 DEF GoodDb
  <1>5. Observable(db) = FirstState /\ GoodDb(fdb) /\ Observable(fdb) = FirstState
        /\ fdb.applied_index = 0
    BY <1>4 DEF ReplicaInit, Init, F!Init
  <1>6. flive = {}
    BY DEF ReplicaInit, F!Init
  <1> QED
    BY <1>1, <1>2, <1>3, <1>5, <1>6
       DEF RInv, LeaderAtItsEnd, LeaderTx, FollowerDb, FollowerTx, StateIn

-----------------------------------------------------------------------------
(* The leader's steps.                                                     *)

LEMMA LeadBegins ==
    ASSUME RInv, NEW cmd \in Commands, Begin(cmd), UNCHANGED <<cmds, states, followerVars>>, IInv'
    PROVE  RInv'
  <1>1. /\ tx' = [open |-> TRUE, cmd |-> cmd, todo |-> Plan(db, cmd), db |-> db,
                  next |-> db.revision + 1, sub |-> 0, used |-> FALSE, events |-> {}]
        /\ UNCHANGED <<db, live, past, cmds, states>>
    BY DEF Begin
  <1>2. GoodDb(db) /\ LeasesOK(db)
    BY LeaderIsGood DEF RInv, IInv, DbInv, View, ShapeOf
  <1>3. PlanOf(Observable(db), cmd) \in Seq(Operation)
    <2>1. Plan(db, cmd) \in Seq(Operation)
      BY <1>2, PlanIsTyped
    <2> QED
      BY <1>2, <2>1, PlansAlike
  <1>4. Outline(tx') = Opening(Observable(db), cmd) /\ tx'.cmd = cmd
    BY <1>1, <1>2, <1>3, Opens
  <1>5. LeaderTx'
    <2>1. Observable(db)' = Observable(db) /\ Outline(tx)' = Outline(tx')
      BY <1>1 DEF Observable, range, range_in, Newest, Outline
    <2>2. Reaches(Opening(Observable(db), cmd), Outline(tx'))
      BY <1>4, ReachesItself
    <2> QED
      BY <1>3, <1>4, <2>1, <2>2 DEF LeaderTx
  <1>6. LogOK(cmds, states, live)' /\ LeaderAtItsEnd'
    BY <1>1 DEF RInv, LeaderAtItsEnd
  <1>7. FollowerDb' /\ FollowerTx'
    BY <1>1, FollowerUndisturbed DEF RInv
  <1> QED
    BY <1>5, <1>6, <1>7 DEF RInv

LEMMA LeadRuns ==
    ASSUME RInv, Run, UNCHANGED <<cmds, states, followerVars>>, IInv'
    PROVE  RInv'
  <1>1. tx.open /\ tx.todo # <<>> /\ Ran(tx, tx') /\ UNCHANGED <<db, live, past>>
    BY LeaderRuns
  <1>2. Good(tx)
    BY <1>1, LeaderIsGood DEF RInv
  <1>3. ActsOnOutline(tx, tx')
    BY <1>1, <1>2, RanActs
  <1>4. LeaderTx'
    <2>1. CASE tx' = NoTx
      BY <2>1 DEF LeaderTx, NoTx
    <2>2. CASE ~Refuses(Outline(tx)) /\ Continues(tx, tx') /\ Outline(tx') = Goes(Outline(tx))
      <3>1. Outline(tx).todo # <<>>
        BY <1>1, OutlineFields
      <3>2. /\ tx.cmd \in Commands /\ PlanOf(Observable(db), tx.cmd) \in Seq(Operation)
            /\ Reaches(Opening(Observable(db), tx.cmd), Outline(tx))
        BY <1>1 DEF RInv, LeaderTx
      <3>3. Reaches(Opening(Observable(db), tx.cmd), Outline(tx'))
        BY <2>2, <3>1, <3>2, ReachesFurther
      <3>4. tx'.cmd = tx.cmd
        BY <2>2 DEF Continues
      <3> QED
        BY <1>1, <3>2, <3>3, <3>4 DEF LeaderTx
    <2> QED
      BY <1>3, <2>1, <2>2 DEF ActsOnOutline
  <1>5. LogOK(cmds, states, live)' /\ LeaderAtItsEnd'
    BY <1>1 DEF RInv, LeaderAtItsEnd
  <1>6. FollowerDb' /\ FollowerTx'
    BY <1>1, FollowerUndisturbed DEF RInv
  <1> QED
    BY <1>4, <1>5, <1>6 DEF RInv

LEMMA LeadCommits ==
    ASSUME RInv, Commit, cmds' = Append(cmds, tx.cmd), states' = Append(states, Observable(db')),
           UNCHANGED followerVars, IInv'
    PROVE  RInv'
  <1>1. /\ tx.open /\ tx.todo = <<>>
        /\ db' = [tx.db EXCEPT !.revision = IF tx.used THEN tx.next ELSE @, !.applied_index = @ + 1]
        /\ live' = live \cup tx.events /\ tx' = NoTx
    BY DEF Commit
  <1>2. Good(tx) /\ tx.db.applied_index = db.applied_index
    BY <1>1, LeaderIsGood DEF RInv
  <1>3. Observable(db') = Result(Outline(tx)) /\ db'.applied_index = db.applied_index + 1
    BY <1>1, <1>2, Commits
  <1>4. Outline(tx).todo = <<>> /\ Outline(tx).events \subseteq live' /\ live \subseteq live'
    BY <1>1, OutlineFields
  <1>5. /\ LogOK(cmds, states, live) /\ tx.cmd \in Commands
        /\ PlanOf(StateIn(states, Len(cmds)), tx.cmd) \in Seq(Operation)
        /\ Reaches(Opening(StateIn(states, Len(cmds)), tx.cmd), Outline(tx))
        /\ db.applied_index = Len(cmds)
    BY <1>1 DEF RInv, LeaderTx, LeaderAtItsEnd
  <1> DEFINE f  == Outline(tx)
             st == Observable(db')
             c  == tx.cmd
             ds == cmds'
             uts == states'
             more == live'
  <1>6. /\ LogOK(ds, uts, more)
        /\ Len(ds) = Len(cmds) + 1
        /\ \A i \in 0 .. Len(cmds) : StateIn(uts, i) = StateIn(states, i)
        /\ \A i \in 1 .. Len(cmds) : uts[i] = states[i]
        /\ StateIn(uts, Len(ds)) = st
    <2>1. MayGrow(cmds, states, live, c, st, f, more) /\ ds = Append(cmds, c) /\ uts = Append(states, st)
      BY <1>3, <1>4, <1>5 DEF MayGrow
    <2> HIDE DEF f, st, c, ds, uts, more
    <2>2. Grown(cmds, states, ds, uts, st, more)
      BY ONLY <2>1, LogGrows
    <2> QED
      BY ONLY <2>2 DEF Grown
  <1>7. LeaderAtItsEnd'
    BY <1>3, <1>5, <1>6 DEF LeaderAtItsEnd
  <1>8. LeaderTx'
    BY <1>1 DEF LeaderTx, NoTx
  <1>9. UNCHANGED <<fdb, ftx, flive>> /\ Len(cmds) \in Nat
    BY <1>5 DEF followerVars, LogOK
  <1>10. FollowerDb'
    <2>1. fdb.applied_index \in 0 .. Len(cmds) /\ fdb.applied_index \in 0 .. Len(cmds')
      BY <1>6, <1>9 DEF RInv, FollowerDb
    <2> QED
      BY <1>4, <1>6, <1>9, <2>1 DEF RInv, FollowerDb
  <1>11. FollowerTx'
    <2> SUFFICES ASSUME ftx.open PROVE FollowerTx'
      BY <1>9 DEF FollowerTx
    <2>1. /\ Good(ftx) /\ ftx.db.applied_index = fdb.applied_index
          /\ fdb.applied_index < Len(cmds) /\ fdb.applied_index \in 0 .. Len(cmds)
      BY DEF RInv, FollowerTx, FollowerDb
    <2>2. PICK g : Reaches(Outline(ftx), g) /\ Ended(g, states[fdb.applied_index + 1], live)
      BY DEF RInv, FollowerTx
    <2>3. states'[fdb.applied_index + 1] = states[fdb.applied_index + 1]
          /\ fdb.applied_index < Len(cmds')
      <3>1. fdb.applied_index + 1 \in 1 .. Len(cmds)
        BY ONLY <1>9, <2>1
      <3>2. Len(cmds') = Len(cmds) + 1
        BY ONLY <1>6
      <3>3. states'[fdb.applied_index + 1] = states[fdb.applied_index + 1]
        BY ONLY <1>6, <3>1
      <3>4. fdb.applied_index < Len(cmds')
        BY ONLY <1>9, <2>1, <3>2
      <3> QED
        BY ONLY <3>3, <3>4
    <2>4. Ended(g, states'[fdb.applied_index + 1], live')
      BY <1>4, <2>2, <2>3 DEF Ended
    <2> QED
      BY <1>9, <2>1, <2>2, <2>3, <2>4 DEF FollowerTx
  <1> QED
    BY <1>6, <1>7, <1>8, <1>10, <1>11 DEF RInv

-----------------------------------------------------------------------------
(* The follower's steps.                                                   *)

LEMMA SamePlan == \A d, cmd : F!Plan(d, cmd) = Plan(d, cmd)
  <1>1. \A kvs, c : F!evaluate_compare(kvs, c) = evaluate_compare(kvs, c)
    <2> SUFFICES ASSUME NEW kvs, NEW c PROVE F!evaluate_compare(kvs, c) = evaluate_compare(kvs, c)
      OBVIOUS
    <2>1. (\A r : F!Kv(r) = Kv(r)) /\ F!ZeroKv = ZeroKv
      BY DEF F!Kv, Kv, F!ZeroKv, ZeroKv
    <2> DEFINE cur == current_in(kvs, {c.key})
               now == F!current_in(kvs, {c.key})
               kv  == IF cur = {} THEN ZeroKv ELSE Kv(CHOOSE r \in cur : TRUE)
    <2>2. now = cur
      BY SameOperators
    <2> HIDE DEF now, cur
    <2>3. kv = IF now = {} THEN F!ZeroKv ELSE F!Kv(CHOOSE r \in now : TRUE)
      BY ONLY <2>1, <2>2
    <2> QED
      BY <2>3 DEF F!evaluate_compare, evaluate_compare, now, cur
  <1>2. \A d, now : F!Expired(d, now) = Expired(d, now)
    BY DEF F!Expired, Expired
  <1> QED
    BY <1>1, <1>2 DEF F!Plan, Plan

LEMMA FollowBegins ==
    ASSUME RInv, fdb.applied_index < Len(cmds), F!Begin(cmds[fdb.applied_index + 1]),
           UNCHANGED <<vars, cmds, states>>, IInv'
    PROVE  RInv'
  <1> DEFINE i == fdb.applied_index + 1
             c == cmds[i]
  <1>1. /\ ftx' = [open |-> TRUE, cmd |-> c, todo |-> Plan(fdb, c), db |-> fdb,
                   next |-> fdb.revision + 1, sub |-> 0, used |-> FALSE, events |-> {}]
        /\ UNCHANGED <<fdb, flive, fpast, db, tx, live, past, cmds, states>>
    BY SamePlan DEF F!Begin, vars
  <1>2. /\ GoodDb(fdb) /\ fdb.applied_index \in Nat /\ i \in 1 .. Len(cmds)
        /\ Observable(fdb) = StateIn(states, i - 1)
        /\ LogOK(cmds, states, live)
    BY DEF RInv, FollowerDb, LogOK
  <1>3. Recorded(cmds, states, live, i) /\ c \in Commands
    BY <1>2 DEF LogOK
  <1> HIDE DEF c
  <1>4. /\ PlanOf(Observable(fdb), c) \in Seq(Operation)
        /\ \E f : Reaches(Opening(Observable(fdb), c), f) /\ Ended(f, states[i], live)
    BY ONLY <1>2, <1>3 DEF Recorded, c
  <1>5. /\ Good(ftx') /\ Outline(ftx') = Opening(Observable(fdb), c) /\ ftx'.db = fdb
    BY ONLY <1>1, <1>2, <1>3, <1>4, Opens
  <1>6. FollowerTx'
    <2>1. \E f : Reaches(Outline(ftx'), f) /\ Ended(f, states[i], live)
      BY ONLY <1>4, <1>5
    <2>2. Good(ftx)' <=> Good(ftx')
      BY DEF Good
    <2>3. Outline(ftx)' = Outline(ftx')
      BY DEF Outline
    <2> QED
      BY <1>1, <1>5, <2>1, <2>2, <2>3 DEF FollowerTx
  <1>7. FollowerDb'
    BY <1>1 DEF RInv, FollowerDb, GoodDb, Observable, range, range_in, Newest
  <1>8. LogOK(cmds, states, live)' /\ LeaderAtItsEnd' /\ LeaderTx'
    BY <1>1 DEF RInv, LeaderAtItsEnd, LeaderTx
  <1> QED
    BY <1>6, <1>7, <1>8 DEF RInv

(* The operation the follower runs is one the leader ran: it is not        *)
(* refused.                                                                *)
LEMMA FollowerGoesOn ==
    ASSUME RInv, F!Run
    PROVE  /\ ~Refuses(Outline(ftx)) /\ Continues(ftx, ftx')
           /\ \E f : Reaches(Outline(ftx'), f) /\ Ended(f, states[fdb.applied_index + 1], live)
  <1>1. ftx.open /\ ftx.todo # <<>> /\ Ran(ftx, ftx')
    BY FollowerRuns
  <1>2. Good(ftx) /\ \E f : Reaches(Outline(ftx), f) /\ Ended(f, states[fdb.applied_index + 1], live)
    BY <1>1 DEF RInv, FollowerTx
  <1>3. PICK f : Reaches(Outline(ftx), f) /\ Ended(f, states[fdb.applied_index + 1], live)
    BY <1>2
  <1>4. Outline(ftx).todo # <<>>
    BY <1>1, OutlineFields
  <1>5. f.todo = <<>>
    BY <1>3 DEF Ended
  <1>6. ~Refuses(Outline(ftx)) /\ Reaches(Goes(Outline(ftx)), f)
    BY ONLY <1>3, <1>4, <1>5, ReachesNext
  <1>7. ActsOnOutline(ftx, ftx')
    BY ONLY <1>1, <1>2, RanActs
  <1>8. Continues(ftx, ftx') /\ Outline(ftx') = Goes(Outline(ftx))
    BY ONLY <1>6, <1>7 DEF ActsOnOutline
  <1> QED
    BY ONLY <1>3, <1>6, <1>8

LEMMA FollowRuns ==
    ASSUME RInv, F!Run, UNCHANGED <<vars, cmds, states>>, IInv'
    PROVE  RInv'
  <1>1. ftx.open /\ UNCHANGED <<fdb, flive, fpast, db, tx, live, past, cmds, states>>
    BY FollowerRuns DEF vars
  <1>2. /\ Good(ftx') /\ ftx'.db.applied_index = ftx.db.applied_index
        /\ \E f : Reaches(Outline(ftx'), f) /\ Ended(f, states[fdb.applied_index + 1], live)
    BY FollowerGoesOn DEF Continues
  <1>3. ftx.db.applied_index = fdb.applied_index /\ fdb.applied_index < Len(cmds)
    BY <1>1 DEF RInv, FollowerTx
  <1>4. FollowerTx'
    <2>1. Good(ftx)' <=> Good(ftx')
      BY DEF Good
    <2>2. Outline(ftx)' = Outline(ftx')
      BY DEF Outline
    <2> QED
      BY <1>1, <1>2, <1>3, <2>1, <2>2 DEF FollowerTx
  <1>5. FollowerDb'
    BY <1>1 DEF RInv, FollowerDb, GoodDb, Observable, range, range_in, Newest
  <1>6. LogOK(cmds, states, live)' /\ LeaderAtItsEnd' /\ LeaderTx'
    BY <1>1 DEF RInv, LeaderAtItsEnd, LeaderTx
  <1> QED
    BY <1>4, <1>5, <1>6 DEF RInv

LEMMA FollowCommits ==
    ASSUME RInv, F!Commit, UNCHANGED <<vars, cmds, states>>, IInv'
    PROVE  RInv'
  <1>1. /\ ftx.open /\ ftx.todo = <<>>
        /\ fdb' = [ftx.db EXCEPT !.revision = IF ftx.used THEN ftx.next ELSE @, !.applied_index = @ + 1]
        /\ flive' = flive \cup ftx.events /\ ftx' = NoTx
        /\ UNCHANGED <<db, tx, live, past, cmds, states>>
    BY DEF F!Commit, F!NoTx, NoTx, vars
  <1>2. /\ Good(ftx) /\ ftx.db.applied_index = fdb.applied_index /\ fdb.applied_index < Len(cmds)
        /\ \E f : Reaches(Outline(ftx), f) /\ Ended(f, states[fdb.applied_index + 1], live)
    BY <1>1 DEF RInv, FollowerTx
  <1>3. fdb.applied_index \in 0 .. Len(cmds) /\ flive \subseteq live /\ Len(cmds) \in Nat
    BY DEF RInv, FollowerDb, LogOK
  <1>4. PICK f : Reaches(Outline(ftx), f) /\ Ended(f, states[fdb.applied_index + 1], live)
    BY <1>2
  <1>5. Outline(ftx).todo = <<>> /\ Outline(ftx).events = ftx.events
    BY <1>1, OutlineFields
  <1>6. Outline(ftx) = f
    BY ONLY <1>4, <1>5, ReachesNext DEF Ended
  <1>7. Result(Outline(ftx)) = states[fdb.applied_index + 1] /\ ftx.events \subseteq live
    BY ONLY <1>4, <1>5, <1>6 DEF Ended
  <1>8. /\ GoodDb(fdb') /\ Observable(fdb') = Result(Outline(ftx))
        /\ fdb'.applied_index = ftx.db.applied_index + 1
    BY ONLY <1>1, <1>2, Commits
  <1>9. /\ fdb'.applied_index \in 0 .. Len(cmds)
        /\ Observable(fdb') = StateIn(states, fdb'.applied_index)
    BY <1>2, <1>3, <1>7, <1>8 DEF StateIn
  <1>10. FollowerDb'
    <2>1. GoodDb(fdb)' <=> GoodDb(fdb')
      BY DEF GoodDb
    <2>2. Observable(fdb)' = Observable(fdb')
      BY DEF Observable, range, range_in, Newest
    <2> QED
      BY <1>1, <1>3, <1>7, <1>8, <1>9, <2>1, <2>2 DEF FollowerDb
  <1>11. FollowerTx'
    BY <1>1 DEF FollowerTx, NoTx
  <1>12. LogOK(cmds, states, live)' /\ LeaderAtItsEnd' /\ LeaderTx'
    BY <1>1 DEF RInv, LeaderAtItsEnd, LeaderTx
  <1> QED
    BY <1>10, <1>11, <1>12 DEF RInv

LEMMA FollowCrashes ==
    ASSUME RInv, F!Crash, UNCHANGED <<vars, cmds, states>>, IInv'
    PROVE  RInv'
  <1>1. ~ftx'.open /\ UNCHANGED <<fdb, flive, fpast, db, tx, live, past, cmds, states>>
    BY DEF F!Crash, F!Rollback, F!NoTx, vars
  <1>2. FollowerDb' /\ FollowerTx'
    BY <1>1 DEF RInv, FollowerDb, FollowerTx, GoodDb, Observable, range, range_in, Newest
  <1>3. LogOK(cmds, states, live)' /\ LeaderAtItsEnd' /\ LeaderTx'
    BY <1>1 DEF RInv, LeaderAtItsEnd, LeaderTx
  <1> QED
    BY <1>2, <1>3 DEF RInv

LEMMA FollowerRestored ==
    ASSUME RInv, RestoreSnapshot, IInv'
    PROVE  RInv'
  <1> DEFINE d == Restored(export_snapshot(db))
  <1>1. /\ ~ftx.open /\ PrimaryKeyHolds(d.kv) /\ fdb' = d
        /\ UNCHANGED <<db, tx, live, past, cmds, states, ftx, flive>>
    BY DEF RestoreSnapshot, vars
  <1>2. GoodDb(db)
    BY LeaderIsGood DEF RInv
  <1>3. GoodDb(d) /\ Observable(d) = Observable(db) /\ d.applied_index = db.applied_index
    BY <1>1, <1>2, RestoredIsGood
  <1> HIDE DEF d
  <1>4. /\ db.applied_index = Len(cmds) /\ Observable(db) = StateIn(states, Len(cmds))
        /\ Len(cmds) \in Nat /\ flive \subseteq live
    BY DEF RInv, LeaderAtItsEnd, LogOK, FollowerDb
  <1>5. FollowerDb'
    <2>1. GoodDb(fdb)' <=> GoodDb(fdb')
      BY DEF GoodDb
    <2>2. Observable(fdb)' = Observable(fdb')
      BY DEF Observable, range, range_in, Newest
    <2> QED
      BY <1>1, <1>3, <1>4, <2>1, <2>2 DEF FollowerDb
  <1>6. FollowerTx'
    BY <1>1 DEF FollowerTx
  <1>7. LogOK(cmds, states, live)' /\ LeaderAtItsEnd' /\ LeaderTx'
    BY <1>1 DEF RInv, LeaderAtItsEnd, LeaderTx
  <1> QED
    BY <1>5, <1>6, <1>7 DEF RInv

-----------------------------------------------------------------------------
(* The theorems.                                                           *)

LEMMA RInvNext ==
    ASSUME RInv, [ReplicaNext]_replicaVars PROVE RInv'
  <1>1. CASE UNCHANGED replicaVars
    <2>1. UNCHANGED <<db, tx, live, past, cmds, states, fdb, ftx, flive>>
      BY <1>1 DEF replicaVars, vars, followerVars
    <2>2. IInv'
      BY <2>1, NextInv DEF RInv, vars
    <2>3. FollowerDb' /\ FollowerTx'
      BY <1>1, FollowerUndisturbed DEF RInv, replicaVars, vars
    <2>4. LogOK(cmds, states, live)' /\ LeaderAtItsEnd' /\ LeaderTx'
      BY <2>1 DEF RInv, LeaderAtItsEnd, LeaderTx
    <2> QED
      BY <2>2, <2>3, <2>4 DEF RInv
  <1>2. CASE Lead
    <2>1. UNCHANGED followerVars
      BY <1>2 DEF Lead
    <2>2. IInv'
      <3>1. Next
        BY <1>2 DEF Lead, Next
      <3> QED
        BY <3>1, NextInv DEF RInv
    <2>3. ASSUME NEW cmd \in Commands, Begin(cmd), UNCHANGED <<cmds, states>> PROVE RInv'
      BY <2>1, <2>2, <2>3, LeadBegins
    <2>4. ASSUME Run, UNCHANGED <<cmds, states>> PROVE RInv'
      BY <2>1, <2>2, <2>4, LeadRuns
    <2>5. ASSUME Commit, cmds' = Append(cmds, tx.cmd), states' = Append(states, Observable(db'))
          PROVE  RInv'
      BY <2>1, <2>2, <2>5, LeadCommits
    <2> QED
      BY <1>2, <2>3, <2>4, <2>5 DEF Lead
  <1>3. CASE Follow
    <2>1. UNCHANGED <<vars, cmds, states>>
      BY <1>3 DEF Follow
    <2>2. IInv'
      BY <2>1, NextInv DEF RInv
    <2>3. CASE fdb.applied_index < Len(cmds) /\ F!Begin(cmds[fdb.applied_index + 1])
      BY <2>1, <2>2, <2>3, FollowBegins
    <2>4. CASE F!Run
      BY <2>1, <2>2, <2>4, FollowRuns
    <2>5. CASE F!Commit
      BY <2>1, <2>2, <2>5, FollowCommits
    <2>6. CASE F!Crash
      BY <2>1, <2>2, <2>6, FollowCrashes
    <2> QED
      BY <1>3, <2>3, <2>4, <2>5, <2>6 DEF Follow
  <1>4. CASE RestoreSnapshot
    <2>1. UNCHANGED vars
      BY <1>4 DEF RestoreSnapshot
    <2>2. IInv'
      BY <2>1, NextInv DEF RInv
    <2> QED
      BY <1>4, <2>2, FollowerRestored
  <1> QED
    BY <1>1, <1>2, <1>3, <1>4 DEF ReplicaNext

(* Both members stand on executions of the log's commands, whatever        *)
(* mixture of entries and snapshots brought the follower where it is       *)
(* (store.rs, apply_at and restore_snapshot).                              *)
THEOREM MembersStandOnOneLog == ReplicaSpec => []RInv
  <1>1. ReplicaInit => RInv
    BY RInvInit
  <1>2. RInv /\ [ReplicaNext]_replicaVars => RInv'
    BY RInvNext
  <1> QED
    BY <1>1, <1>2, PTL DEF ReplicaSpec

(* A follower that has applied or restored up to an index answers as the    *)
(* leader did there: apply_at depends on nothing that a snapshot loses.     *)
THEOREM MembersAnswerAlike == ReplicaSpec => []StateMachineSafety
  <1>1. RInv => StateMachineSafety
    <2> SUFFICES ASSUME RInv, fdb.applied_index > 0
                 PROVE  Observable(fdb) = states[fdb.applied_index]
      BY DEF StateMachineSafety
    <2>1. Observable(fdb) = StateIn(states, fdb.applied_index)
      BY DEF RInv, FollowerDb
    <2> QED
      BY <2>1 DEF StateIn
  <1> QED
    BY <1>1, MembersStandOnOneLog, PTL

(* Node::apply_committed publishes on the follower only events that the     *)
(* leader's watchers were told, prev_kv and numbering included.             *)
THEOREM MembersTellAlike == ReplicaSpec => []ReplicasPublishAlike
  <1>1. RInv => ReplicasPublishAlike
    BY DEF RInv, FollowerDb, ReplicasPublishAlike
  <1> QED
    BY <1>1, MembersStandOnOneLog, PTL

(* No operation of a committed entry fails on the follower: apply_put and   *)
(* apply_compact refuse on outlines, and the leader got past the same one.  *)
THEOREM RefusalsAreTheLeadersOnly == ReplicaSpec => FollowerNeverRefuses
  <1>1. RInv /\ [ReplicaNext]_replicaVars => [F!Run => ftx'.open]_replicaVars
    <2> SUFFICES ASSUME RInv, F!Run PROVE ftx'.open
      OBVIOUS
    <2>1. Good(ftx')
      BY FollowerGoesOn DEF Continues
    <2> QED
      BY <2>1, Zenon DEF Good
  <1> QED
    BY <1>1, MembersStandOnOneLog, PTL DEF ReplicaSpec, FollowerNeverRefuses
=============================================================================
