----------------------------- MODULE StoreProofs -----------------------------
(***************************************************************************)
(* The store under any commands, keys and number of operations in a        *)
(* transaction.  The invariant is stated of a view of the database: what   *)
(* is committed is one, what the open transaction sees is another, and     *)
(* every operation turns a view into a view.                               *)
(***************************************************************************)
EXTENDS RbacCache, FiniteSetTheorems, SequenceTheorems, TLAPS

-----------------------------------------------------------------------------
(* Some element of a finite set has nothing before it in a strict order,    *)
(* given as the set R of its pairs.                                         *)
LEMMA MinimalExists ==
    ASSUME NEW S, IsFiniteSet(S), S # {}, NEW R,
           \A x \in S : <<x, x>> \notin R,
           \A x, y, z \in S : <<x, y>> \in R /\ <<y, z>> \in R => <<x, z>> \in R
    PROVE  \E m \in S : \A x \in S : <<x, m>> \notin R
  <1> DEFINE Before(y) == {x \in S : <<x, y>> \in R}
             Befores == {Before(y) : y \in S}
  <1>1. Befores \subseteq FiniteSubsetsOf(S)
    <2>1. ASSUME NEW y \in S PROVE Before(y) \in FiniteSubsetsOf(S)
      <3>1. Before(y) \subseteq S
        OBVIOUS
      <3> HIDE DEF Before
      <3>2. IsFiniteSet(Before(y))
        BY <3>1, FS_Subset
      <3> QED
        BY <3>1, <3>2 DEF FiniteSubsetsOf
    <2> HIDE DEF Before
    <2> QED
      BY <2>1
  <1>2. Befores # {}
    <2>1. PICK y \in S : TRUE
      OBVIOUS
    <2>2. Before(y) \in Befores
      OBVIOUS
    <2> QED
      BY <2>2
  <1>3. PICK U \in Befores : \A V \in Befores : ~(<<V, U>> \in StrictSubsetOrdering(S))
    <2> HIDE DEF Befores
    <2> QED
      BY ONLY <1>1, <1>2, WFMin, FS_StrictSubsetOrderingWellFounded
  <1>4. PICK m \in S : U = Before(m)
    BY <1>3
  <1>5. ASSUME NEW x \in S, <<x, m>> \in R PROVE FALSE
    <2>1. Before(x) \in Befores /\ Before(x) \subseteq U /\ x \in U /\ x \notin Before(x) /\ U \subseteq S
      BY <1>4, <1>5
    <2>2. <<Before(x), U>> \in StrictSubsetOrdering(S)
      BY <2>1 DEF StrictSubsetOrdering
    <2> QED
      BY <2>1, <2>2, <1>3
  <1> QED
    BY <1>5

-----------------------------------------------------------------------------
(* What the parts of a view are.                                           *)

DbFields == {"kv", "lease", "member", "revision", "compact_revision", "applied_index"}
TxFields == {"open", "cmd", "todo", "db", "next", "sub", "used", "events"}

LeasesOK(d) ==
    /\ DOMAIN d.lease \subseteq Int
    /\ \A i \in DOMAIN d.lease : d.lease[i] \in [ttl : Int, expires : Int]

(* d's fields, with rows numbered up to revision n.                        *)
ShapeOf(d, n) ==
    /\ DbFields \subseteq DOMAIN d
    /\ LeasesOK(d)
    /\ d.member \subseteq [id : Int, is_learner : BOOLEAN]
    /\ d.revision \in Nat \ {0}
    /\ n = d.revision + 1
    /\ d.compact_revision \in 0 .. d.revision
    /\ d.applied_index \in 0 .. MaxIndex

(* The next row of K is row s of revision n: rows are written in order,    *)
(* and no two share a revision and a sub-revision.                         *)
Numbered(K, n, s) ==
    /\ K \subseteq Row
    /\ IsFiniteSet(K)
    /\ n \in Nat
    /\ s \in Nat
    /\ \A a, b \in K : a.rev = b.rev /\ a.sub = b.sub => a = b
    /\ \A a \in K : 0 < a.rev /\ (a.rev < n \/ (a.rev = n /\ a.sub < s))

(* The rows of the open revision have every number below s.                *)
Dense(K, n, s) == \A j \in Nat : j < s => \E r \in K : r.rev = n /\ r.sub = j

(* What a compaction leaves below its revision: one live row of a key.     *)
Compacted(d) ==
    \A a \in d.kv : a.rev <= d.compact_revision =>
        /\ ~a.deleted
        /\ \A b \in d.kv : b.key = a.key /\ b.rev <= d.compact_revision => b = a

(* Reads at a revision that is not compacted answer h.                     *)
ReadsAt(d, r) == {Kv(x) : x \in range_in(d.kv, Keys, r)}

History(d, h) ==
    /\ \A r \in Nat : d.compact_revision < r /\ r <= d.revision => ReadsAt(d, r) = h[r]
    /\ ReadsAt(d, d.revision) = h[d.revision]

(* P is the prev_kv of row x: the row x superseded, which compactions      *)
(* below x keep, because nothing of its key lies between the two.          *)
Superseded(K, x, p) ==
    /\ p.key = x.key /\ p.rev = x.prev /\ ~p.deleted
    /\ Newer(x, p)
    /\ \A q \in K : q.key = x.key => ~(Newer(x, q) /\ Newer(q, p))

PrevOK(K, x, P) ==
    \/ P = {} /\ x.prev = 0
    \/ \E p \in K : P = {Kv(p)} /\ Superseded(K, x, p)

(* E holds the event of every row above the compaction point, with the     *)
(* prev_kv it was written with, and of no other revision above it.         *)
Announced(d, E) ==
    /\ \A e \in E : e.rev \in Nat
    /\ \A x \in d.kv : d.compact_revision < x.rev => \E e \in E : e = EventOf(x, e.prev)
    /\ \A e \in E : d.compact_revision < e.rev =>
        \E x \in d.kv : e = EventOf(x, e.prev) /\ PrevOK(d.kv, x, e.prev)

View(d, n, s, E, h) ==
    /\ ShapeOf(d, n)
    /\ Numbered(d.kv, n, s)
    /\ Dense(d.kv, n, s)
    /\ Compacted(d)
    /\ History(d, h)
    /\ Announced(d, E)

-----------------------------------------------------------------------------
(* The order of rows.                                                      *)

LEMMA NewerIsAnOrder ==
    \A a, b, c \in Row : /\ ~Newer(a, a)
                         /\ Newer(a, b) /\ Newer(b, c) => Newer(a, c)
                         /\ (a.rev = b.rev /\ a.sub = b.sub) \/ Newer(a, b) \/ Newer(b, a)
  BY DEF Row, Newer

(* Of any rows of a view some row is the newest.                           *)
LEMMA SomeRowIsNewest ==
    ASSUME NEW K, NEW n, NEW s, Numbered(K, n, s), NEW S \in SUBSET K, S # {}
    PROVE  \E m \in S : \A x \in S : ~Newer(x, m)
  <1> DEFINE R == {p \in S \X S : Newer(p[1], p[2])}
  <1>1. IsFiniteSet(S) /\ S \subseteq Row
    BY FS_Subset DEF Numbered
  <1>2. \A x, y \in S : <<x, y>> \in R <=> Newer(x, y)
    OBVIOUS
  <1>3. /\ \A x \in S : <<x, x>> \notin R
        /\ \A x, y, z \in S : <<x, y>> \in R /\ <<y, z>> \in R => <<x, z>> \in R
    <2> HIDE DEF R
    <2> QED
      BY <1>1, <1>2, NewerIsAnOrder
  <1> HIDE DEF R
  <1>4. \E m \in S : \A x \in S : <<x, m>> \notin R
    BY <1>1, <1>3, MinimalExists
  <1> QED
    BY <1>2, <1>4

(* Of any rows of a view some row has the lowest key: the one deleted next. *)
LEMMA SomeRowIsLowest ==
    ASSUME NEW K, NEW n, NEW s, Numbered(K, n, s), NEW S \in SUBSET K, S # {}
    PROVE  Lowest(S) \in S /\ \A x \in S : Lowest(S).key <= x.key
  <1> DEFINE R == {p \in S \X S : p[1].key < p[2].key}
  <1>1. IsFiniteSet(S) /\ \A x \in S : x.key \in Int
    BY FS_Subset, KeysAreOrdered DEF Numbered, Row
  <1>2. \A x, y \in S : <<x, y>> \in R <=> x.key < y.key
    OBVIOUS
  <1>3. /\ \A x \in S : <<x, x>> \notin R
        /\ \A x, y, z \in S : <<x, y>> \in R /\ <<y, z>> \in R => <<x, z>> \in R
    <2> HIDE DEF R
    <2> QED
      BY <1>1, <1>2
  <1> HIDE DEF R
  <1>4. PICK m \in S : \A x \in S : <<x, m>> \notin R
    BY <1>1, <1>3, MinimalExists
  <1>5. ASSUME NEW x \in S PROVE m.key <= x.key
    <2>1. ~(x.key < m.key)
      BY <1>2, <1>4
    <2> QED
      BY <2>1, <1>1
  <1> QED
    BY <1>5 DEF Lowest

(* A key has at most one current row.                                      *)
LEMMA OneCurrentRow ==
    ASSUME NEW K, NEW n, NEW s, Numbered(K, n, s), NEW k
    PROVE  /\ \A a, b \in current_in(K, {k}) : a = b
           /\ \A a \in current_in(K, {k}) : a \in K /\ a.key = k /\ ~a.deleted
  BY NewerIsAnOrder DEF Numbered, current_in, Newest

-----------------------------------------------------------------------------
(* A row is written.                                                       *)

(* x is the next row of the view.                                          *)
NextRow(x, n, s) == x \in Row /\ x.rev = n /\ x.sub = s

LEMMA InsertNumbered ==
    ASSUME NEW K, NEW n, NEW s, Numbered(K, n, s), Dense(K, n, s), n > 0, NEW x, NextRow(x, n, s)
    PROVE  Numbered(K \cup {x}, n, s + 1) /\ Dense(K \cup {x}, n, s + 1)
  <1>1. IsFiniteSet(K \cup {x})
    BY FS_AddElement DEF Numbered
  <1>2. \A j \in Nat : j < s + 1 => j < s \/ j = s
    BY DEF Numbered
  <1>3. Dense(K \cup {x}, n, s + 1)
    BY <1>2 DEF Dense, NextRow
  <1>4. \A a \in K : a # x => ~(a.rev = x.rev /\ a.sub = x.sub)
    BY DEF Numbered, NextRow, Row
  <1>5. \A a \in K : a.rev < n \/ (a.rev = n /\ a.sub < s + 1)
    BY DEF Numbered, Row
  <1> QED
    BY <1>1, <1>3, <1>4, <1>5 DEF Numbered, NextRow

LEMMA NextIsNewer ==
    ASSUME NEW K, NEW n, NEW s, Numbered(K, n, s), NEW x, NextRow(x, n, s)
    PROVE  \A a \in K : Newer(x, a) /\ ~Newer(a, x)
  BY DEF Numbered, NextRow, Newer, Row

(* Reads at an earlier revision do not see it.                             *)
LEMMA InsertReads ==
    ASSUME NEW d, NEW c, NEW x, c.kv = d.kv \cup {x}, NEW r, ~(x.rev <= r)
    PROVE  ReadsAt(c, r) = ReadsAt(d, r)
  <1>1. {s \in c.kv : s.key \in Keys /\ s.rev <= r} = {s \in d.kv : s.key \in Keys /\ s.rev <= r}
    OBVIOUS
  <1> QED
    BY <1>1 DEF ReadsAt, range_in

LEMMA InsertAnnounced ==
    ASSUME NEW d, NEW n, NEW s, NEW E, NEW c, NEW x, NEW P,
           ShapeOf(d, n), Numbered(d.kv, n, s), Announced(d, E), NextRow(x, n, s),
           c.kv = d.kv \cup {x}, c.compact_revision = d.compact_revision,
           PrevOK(c.kv, x, P)
    PROVE  Announced(c, E \cup {EventOf(x, P)})
  <1> DEFINE ev == EventOf(x, P)
  <1>1. ev = EventOf(x, ev.prev) /\ ev.prev = P
    BY DEF EventOf
  <1>2. ASSUME NEW y \in d.kv, NEW Q, PrevOK(d.kv, y, Q) PROVE PrevOK(c.kv, y, Q)
    <2>1. ~Newer(y, x)
      BY NextIsNewer
    <2> QED
      BY <1>2, <2>1 DEF PrevOK, Superseded
  <1>0. ev.rev \in Nat
    BY DEF EventOf, NextRow, Row
  <1> HIDE DEF ev
  <1>3. \A y \in c.kv : c.compact_revision < y.rev =>
            \E e \in E \cup {ev} : e = EventOf(y, e.prev)
    BY <1>1 DEF Announced
  <1>4. \A e \in E \cup {ev} : c.compact_revision < e.rev =>
            \E y \in c.kv : e = EventOf(y, e.prev) /\ PrevOK(c.kv, y, e.prev)
    BY <1>1, <1>2 DEF Announced
  <1> QED
    BY <1>0, <1>3, <1>4 DEF Announced, ev

LEMMA InsertView ==
    ASSUME NEW d, NEW n, NEW s, NEW E, NEW h, View(d, n, s, E, h),
           NEW c, NEW x, NEW P, NextRow(x, n, s), PrevOK(c.kv, x, P),
           DbFields \subseteq DOMAIN c, c.kv = d.kv \cup {x}, c.lease = d.lease,
           c.member = d.member, c.revision = d.revision,
           c.compact_revision = d.compact_revision, c.applied_index = d.applied_index
    PROVE  View(c, n, s + 1, E \cup {EventOf(x, P)}, h)
  <1>1. ShapeOf(c, n)
    BY DEF View, ShapeOf, LeasesOK
  <1>2. Numbered(c.kv, n, s + 1) /\ Dense(c.kv, n, s + 1)
    BY InsertNumbered DEF View, ShapeOf
  <1>3. d.revision \in Nat /\ d.compact_revision \in Nat /\ d.compact_revision <= d.revision /\ n = d.revision + 1
    BY DEF View, ShapeOf
  <1>4. Compacted(c)
    BY <1>3 DEF View, Compacted, NextRow
  <1>5. \A r \in Nat : r <= d.revision => ReadsAt(c, r) = ReadsAt(d, r)
    <2> SUFFICES ASSUME NEW r \in Nat, r <= d.revision PROVE ~(x.rev <= r)
      BY InsertReads
    <2> QED
      BY <1>3 DEF NextRow
  <1>6. History(c, h)
    BY <1>3, <1>5 DEF View, History
  <1>7. Announced(c, E \cup {EventOf(x, P)})
    BY InsertAnnounced DEF View
  <1> QED
    BY <1>1, <1>2, <1>4, <1>6, <1>7 DEF View

-----------------------------------------------------------------------------
(* A compaction at r, any revision up to the current one.                  *)

Kept(K, r) == (K \ {x \in K : x.rev <= r}) \cup {x \in Newest({y \in K : y.rev <= r}) : ~x.deleted}

LEMMA CompactRows ==
    ASSUME NEW K, NEW n, NEW s, Numbered(K, n, s), NEW r
    PROVE  /\ Kept(K, r) \subseteq K
           /\ \A x \in K : ~(x.rev <= r) => x \in Kept(K, r)
           /\ \A x \in Kept(K, r) : x.rev <= r =>
                ~x.deleted /\ \A y \in K : y.key = x.key /\ y.rev <= r => ~Newer(y, x)
           /\ \A x \in K : x.rev <= r /\ ~x.deleted
                /\ (\A y \in K : y.key = x.key /\ y.rev <= r => ~Newer(y, x)) => x \in Kept(K, r)
  BY DEF Kept, Newest

(* A read at r or above answers what it did: deletions are forgotten with   *)
(* what they deleted.                                                      *)
LEMMA CompactReads ==
    ASSUME NEW d, NEW c, NEW n, NEW s, Numbered(d.kv, n, s), NEW r \in Nat,
           c.kv = Kept(d.kv, r), NEW at \in Nat, r <= at
    PROVE  ReadsAt(c, at) = ReadsAt(d, at)
  <1> DEFINE K == d.kv
             L == Kept(K, r)
  <1>0. K \subseteq Row /\ \A x \in K : x.rev \in Nat /\ x.key \in Keys
    BY DEF Numbered, Row
  <1>1. \A x : x \in range_in(K, Keys, at) <=>
            x \in K /\ x.rev <= at /\ ~x.deleted /\ \A y \in K : y.key = x.key /\ y.rev <= at => ~Newer(y, x)
    BY <1>0 DEF range_in, Newest
  <1>2. \A x : x \in range_in(L, Keys, at) <=>
            x \in L /\ x.rev <= at /\ ~x.deleted /\ \A y \in L : y.key = x.key /\ y.rev <= at => ~Newer(y, x)
    BY <1>0, CompactRows DEF range_in, Newest
  <1> HIDE DEF K, L
  <1>3. ASSUME NEW x \in range_in(K, Keys, at) PROVE x \in range_in(L, Keys, at)
    <2>1. x \in K /\ x.rev <= at /\ ~x.deleted /\ \A y \in K : y.key = x.key /\ y.rev <= at => ~Newer(y, x)
      BY <1>1
    <2>2. \A y \in K : y.rev <= r => y.rev <= at
      BY <1>0
    <2>3. x \in L
      BY <2>1, <2>2, CompactRows DEF K, L
    <2> QED
      BY <1>2, <2>1, <2>3, CompactRows DEF K, L
  <1>4. ASSUME NEW x \in range_in(L, Keys, at) PROVE x \in range_in(K, Keys, at)
    <2>1. x \in L /\ x.rev <= at /\ ~x.deleted /\ \A y \in L : y.key = x.key /\ y.rev <= at => ~Newer(y, x)
      BY <1>2
    <2>2. x \in K
      BY <2>1, CompactRows DEF K, L
    <2>3. ASSUME NEW y \in K, y.key = x.key, y.rev <= at, Newer(y, x) PROVE FALSE
      <3>1. y.rev <= r
        BY <2>1, <2>3, CompactRows DEF K, L
      <3>2. x.rev <= r
        BY <3>1, <2>2, <2>3, <1>0 DEF Newer
      <3> QED
        BY <3>1, <3>2, <2>1, <2>3, CompactRows DEF K, L
    <2> QED
      BY <1>1, <2>1, <2>2, <2>3
  <1>5. range_in(L, Keys, at) = range_in(K, Keys, at)
    BY <1>3, <1>4
  <1> QED
    BY <1>5 DEF ReadsAt, K, L

LEMMA CompactAnnounced ==
    ASSUME NEW d, NEW n, NEW s, NEW E, Numbered(d.kv, n, s), Announced(d, E),
           NEW r \in Nat, d.compact_revision <= r, d.compact_revision \in Nat, NEW c,
           c.kv = Kept(d.kv, r), c.compact_revision = r
    PROVE  Announced(c, E)
  <1>0. \A x \in d.kv : x \in Row /\ x.rev \in Nat
    BY DEF Numbered, Row
  <1>1. /\ c.kv \subseteq d.kv
        /\ \A x \in d.kv : r < x.rev => x \in c.kv
        /\ \A x \in d.kv : x.rev <= r /\ ~x.deleted
            /\ (\A y \in d.kv : y.key = x.key /\ y.rev <= r => ~Newer(y, x)) => x \in c.kv
    BY <1>0, CompactRows
  <1>2. \A x \in c.kv : r < x.rev => \E e \in E : e = EventOf(x, e.prev)
    BY <1>0, <1>1 DEF Announced
  <1>3. ASSUME NEW e \in E, r < e.rev
        PROVE  \E x \in c.kv : e = EventOf(x, e.prev) /\ PrevOK(c.kv, x, e.prev)
    <2>1. e.rev \in Nat /\ d.compact_revision < e.rev
      BY <1>3 DEF Announced
    <2>2. PICK x \in d.kv : e = EventOf(x, e.prev) /\ PrevOK(d.kv, x, e.prev)
      BY <2>1 DEF Announced
    <2>3. x.rev = e.rev /\ x \in c.kv
      BY <2>2, <1>0, <1>1, <1>3 DEF EventOf
    <2>4. ASSUME NEW p \in d.kv, Superseded(d.kv, x, p)
          PROVE  p \in c.kv /\ Superseded(c.kv, x, p)
      <3>1. ASSUME NEW y \in d.kv, y.key = p.key, y.rev <= r PROVE ~Newer(y, p)
        BY <3>1, <2>3, <2>4, <1>0, <1>3 DEF Superseded, Newer
      <3>2. p \in c.kv
        BY <3>1, <2>4, <1>0, <1>1 DEF Superseded
      <3> QED
        BY <3>2, <2>4, <1>1 DEF Superseded
    <2> QED
      BY <2>2, <2>3, <2>4 DEF PrevOK
  <1> QED
    BY <1>2, <1>3 DEF Announced

LEMMA CompactView ==
    ASSUME NEW d, NEW n, NEW s, NEW E, NEW h, View(d, n, s, E, h), NEW c, NEW r \in Int,
           d.compact_revision < r, r <= d.revision,
           DbFields \subseteq DOMAIN c, c.kv = Kept(d.kv, r), c.lease = d.lease,
           c.member = d.member, c.revision = d.revision,
           c.compact_revision = r, c.applied_index = d.applied_index
    PROVE  View(c, n, s, E, h)
  <1>1. /\ d.revision \in Nat /\ d.compact_revision \in Nat /\ r \in Nat
        /\ d.compact_revision <= r /\ n = d.revision + 1
    BY DEF View, ShapeOf
  <1>2. ShapeOf(c, n)
    BY <1>1 DEF View, ShapeOf, LeasesOK
  <1>3. Numbered(d.kv, n, s)
    BY DEF View
  <1>4. \A x \in d.kv : x \in Row /\ x.rev \in Nat /\ x.sub \in Nat
    BY <1>3 DEF Numbered, Row
  <1>5. Kept(d.kv, r) \subseteq d.kv /\ \A x \in d.kv : r < x.rev => x \in Kept(d.kv, r)
    BY <1>1, <1>3, <1>4, CompactRows
  <1>6. Numbered(c.kv, n, s)
    BY <1>3, <1>5, FS_Subset DEF Numbered
  <1>7. Dense(c.kv, n, s)
    BY <1>1, <1>5 DEF View, Dense
  <1>8. Compacted(c)
    <2>1. \A a \in c.kv : a.rev <= r =>
            ~a.deleted /\ \A b \in d.kv : b.key = a.key /\ b.rev <= r => ~Newer(b, a)
      BY <1>3, CompactRows
    <2>2. \A a, b \in c.kv : a.rev <= r /\ b.rev <= r /\ b.key = a.key => b = a
      BY <2>1, <1>3, <1>4, <1>5, NewerIsAnOrder DEF Numbered
    <2> QED
      BY <2>1, <2>2 DEF Compacted
  <1>9. History(c, h)
    <2>1. \A at \in Nat : r <= at => ReadsAt(c, at) = ReadsAt(d, at)
      BY <1>1, <1>3, CompactReads
    <2>2. History(d, h)
      BY DEF View
    <2>3. ASSUME NEW at \in Nat, r < at, at <= d.revision PROVE ReadsAt(c, at) = h[at]
      BY <2>1, <2>2, <2>3, <1>1 DEF History
    <2> QED
      BY <2>1, <2>2, <2>3, <1>1 DEF History
  <1>10. Announced(c, E)
    BY <1>1, <1>3, CompactAnnounced DEF View
  <1> QED
    BY <1>2, <1>6, <1>7, <1>8, <1>9, <1>10 DEF View

-----------------------------------------------------------------------------
(* Steps that write no row.                                                *)

LEMMA SameRowsView ==
    ASSUME NEW d, NEW n, NEW s, NEW E, NEW h, View(d, n, s, E, h), NEW c,
           DbFields \subseteq DOMAIN c, LeasesOK(c),
           c.member \subseteq [id : Int, is_learner : BOOLEAN],
           c.kv = d.kv, c.revision = d.revision,
           c.compact_revision = d.compact_revision, c.applied_index \in 0 .. MaxIndex
    PROVE  View(c, n, s, E, h)
  <1>1. \A at : ReadsAt(c, at) = ReadsAt(d, at)
    BY DEF ReadsAt
  <1> QED
    BY <1>1 DEF View, ShapeOf, Compacted, History, Announced

(* The commit: the open revision, if it has rows, becomes the current one, *)
(* and what a reader then sees is appended to the history.                 *)
LEMMA CommitView ==
    ASSUME NEW d, NEW n, NEW s, NEW E, NEW h, View(d, n, s, E, h), NEW c, NEW g, NEW m,
           DbFields \subseteq DOMAIN c, c.kv = d.kv, c.lease = d.lease,
           c.member = d.member, c.compact_revision = d.compact_revision,
           c.applied_index \in 0 .. MaxIndex,
           m \in Nat, c.revision = m,
           \/ s = 0 /\ m = d.revision /\ g = h
           \/ m = n /\ (\A r \in Nat : 0 < r /\ r < n => g[r] = h[r]) /\ g[n] = Contents(d.kv)
    PROVE  View(c, m + 1, 0, E, g)
  <1>1. /\ d.revision \in Nat /\ d.compact_revision \in Nat /\ d.revision > 0
        /\ d.compact_revision <= d.revision /\ n = d.revision + 1
    BY DEF View, ShapeOf
  <1>2. ShapeOf(c, m + 1)
    BY <1>1 DEF View, ShapeOf, LeasesOK
  <1>3. Numbered(d.kv, n, s)
    BY DEF View
  <1>4. \A x \in d.kv : x \in Row /\ x.rev \in Nat /\ x.sub \in Nat
    BY <1>3 DEF Numbered, Row
  <1>5. \A a \in d.kv : a.rev < m + 1
    BY <1>1, <1>3, <1>4 DEF Numbered
  <1>6. Numbered(c.kv, m + 1, 0)
    BY <1>3, <1>5 DEF Numbered
  <1>7. Dense(c.kv, m + 1, 0)
    BY DEF Dense
  <1>8. Compacted(c)
    BY DEF View, Compacted
  <1>9. History(c, g)
    <2>1. \A at : ReadsAt(c, at) = ReadsAt(d, at)
      BY DEF ReadsAt
    <2>2. History(d, h)
      BY DEF View
    <2>3. CASE s = 0 /\ m = d.revision /\ g = h
      BY <2>1, <2>2, <2>3 DEF History
    <2>4. CASE m = n /\ (\A r \in Nat : 0 < r /\ r < n => g[r] = h[r]) /\ g[n] = Contents(d.kv)
      <3>1. {x \in d.kv : x.key \in Keys} = {x \in d.kv : x.key \in Keys /\ x.rev <= n}
        BY <2>4, <1>4, <1>5
      <3>2. ReadsAt(d, n) = g[n]
        BY <3>1, <2>4 DEF ReadsAt, range_in, Contents, current_in
      <3>3. ASSUME NEW at \in Nat, d.compact_revision < at, at <= n PROVE ReadsAt(c, at) = g[at]
        BY <3>2, <3>3, <2>1, <2>2, <2>4, <1>1 DEF History
      <3> QED
        BY <3>2, <3>3, <2>1, <2>4 DEF History
    <2> QED
      BY <2>3, <2>4
  <1>10. Announced(c, E)
    BY DEF View, Announced
  <1> QED
    BY <1>2, <1>6, <1>7, <1>8, <1>9, <1>10 DEF View

-----------------------------------------------------------------------------
(* The inductive invariant.                                                *)

Operation ==
    RequestOp
    \cup [op : {"compact"}, revision : Int]
    \cup [op : {"lease_grant"}, id : Int, ttl : Int, now : Int]
    \cup [op : {"lease_keep_alive"}, id : Int, now : Int]
    \cup [op : {"revoke"}, ids : SUBSET Int]
    \cup [op : {"set_member"}, member : [id : Int, is_learner : BOOLEAN]]
    \cup [op : {"remove_member"}, id : Int]

KeyValue == {Kv(r) : r \in Row}

DbInv ==
    /\ View(db, db.revision + 1, 0, live, past)
    /\ past \in Seq(SUBSET KeyValue)
    /\ Len(past) = db.revision

TxShape ==
    /\ TxFields \subseteq DOMAIN tx
    /\ tx.todo \in Seq(Operation)
    /\ tx.used \in BOOLEAN
    /\ tx.used <=> tx.sub > 0
    /\ tx.next = db.revision + 1
    /\ tx.db.revision = db.revision
    /\ tx.db.applied_index = db.applied_index
    /\ db.applied_index < MaxIndex

(* The rows a transaction sees are the committed ones, but for what it      *)
(* compacted, and those it wrote.                                          *)
TxRows ==
    /\ \A r \in tx.db.kv : r.rev < tx.next => r \in db.kv
    /\ \A r \in db.kv : tx.db.compact_revision < r.rev => r \in tx.db.kv
    /\ tx.db.compact_revision = db.compact_revision => db.kv \subseteq tx.db.kv

(* A compaction is a command of its own: nothing is written beside it.     *)
TxCompacts ==
    /\ db.compact_revision <= tx.db.compact_revision
    /\ db.compact_revision < tx.db.compact_revision => ~tx.used /\ Len(tx.todo) = 0
    /\ \A i \in DOMAIN tx.todo : tx.todo[i].op = "compact" => ~tx.used /\ Len(tx.todo) = 1

(* A lease that is gone has no key, and nothing but revocations is left to  *)
(* run that could give it one.                                             *)
TxRevokes ==
    /\ \A id \in DOMAIN db.lease \ DOMAIN tx.db.lease : lease_keys(tx.db.kv, id) = {}
    /\ \/ DOMAIN db.lease \subseteq DOMAIN tx.db.lease
       \/ \A i \in DOMAIN tx.todo : tx.todo[i].op = "revoke"
    /\ \A i, j \in DOMAIN tx.todo : tx.todo[i].op = "revoke" => tx.todo[j].op = "revoke"

TxInv ==
    /\ TxShape
    /\ View(tx.db, tx.next, tx.sub, live \cup tx.events, past)
    /\ TxRows
    /\ TxCompacts
    /\ TxRevokes

IInv == DbInv /\ tx.open \in BOOLEAN /\ (tx.open => TxInv)

-----------------------------------------------------------------------------
(* What the operators on transactions return.                              *)

LEMMA OpTypes ==
    ASSUME NEW o \in Operation
    PROVE  /\ o.op = "put" => o \in PutOp
           /\ o.op = "delete" => o \in DeleteOp
           /\ o.op = "compact" => o.revision \in Int
           /\ o.op = "lease_grant" => o.id \in Int /\ o.ttl \in Int /\ o.now \in Int
           /\ o.op = "lease_keep_alive" => o.id \in Int /\ o.now \in Int
           /\ o.op = "revoke" => o \in [op : {"revoke"}, ids : SUBSET Int]
           /\ o.op = "set_member" => o.member \in [id : Int, is_learner : BOOLEAN]
  BY DEF Operation, RequestOp, PutOp, DeleteOp, RangeOp

LEMMA TodoHead ==
    ASSUME NEW q \in Seq(Operation), q # <<>>
    PROVE  /\ Len(q) \in Nat /\ Len(q) > 0 /\ 1 \in DOMAIN q
           /\ Head(q) = q[1] /\ Head(q) \in Operation
           /\ Tail(q) \in Seq(Operation)
           /\ Len(Tail(q)) = Len(q) - 1
           /\ \A i \in DOMAIN Tail(q) : i + 1 \in DOMAIN q /\ Tail(q)[i] = q[i + 1]
  BY EmptySeq, HeadTailProperties

LEMMA PopFields ==
    ASSUME NEW t, TxFields \subseteq DOMAIN t
    PROVE  /\ TxFields \subseteq DOMAIN Pop(t)
           /\ Pop(t).open = t.open /\ Pop(t).db = t.db /\ Pop(t).next = t.next
           /\ Pop(t).sub = t.sub /\ Pop(t).used = t.used /\ Pop(t).events = t.events
           /\ Pop(t).todo = Tail(t.todo)
  BY DEF Pop, TxFields


-----------------------------------------------------------------------------
(* The steps of an open transaction.                                       *)

(* The view has one more row.                                              *)
Wrote(x, P) ==
    /\ UNCHANGED <<db, live, past>>
    /\ TxFields \subseteq DOMAIN tx' /\ DbFields \subseteq DOMAIN tx'.db
    /\ tx'.db.kv = tx.db.kv \cup {x}
    /\ tx'.db.lease = tx.db.lease /\ tx'.db.member = tx.db.member
    /\ tx'.db.revision = tx.db.revision
    /\ tx'.db.compact_revision = tx.db.compact_revision
    /\ tx'.db.applied_index = tx.db.applied_index
    /\ tx'.open = tx.open /\ tx'.next = tx.next /\ tx'.sub = tx.sub + 1 /\ tx'.used = TRUE
    /\ tx'.events = tx.events \cup {EventOf(x, P)}

(* Insert, alone or as the last of its operation.                          *)
LEMMA InsertWrites ==
    ASSUME TxFields \subseteq DOMAIN tx, DbFields \subseteq DOMAIN tx.db,
           NEW row, NEW prev, NEW x, x = [row EXCEPT !.rev = tx.next, !.sub = tx.sub],
           NEW P, P = {Kv(p) : p \in prev}, UNCHANGED <<db, live, past>>,
           NEW i, i = Insert(tx, row, prev), tx' = i \/ tx' = Pop(i)
    PROVE  Wrote(x, P) /\ (tx' = i => tx'.todo = tx.todo) /\ (tx' = Pop(i) => tx'.todo = Tail(tx.todo))
  <1>1. /\ TxFields \subseteq DOMAIN i
        /\ DbFields \subseteq DOMAIN i.db
        /\ i.db.kv = tx.db.kv \cup {x}
        /\ i.db.lease = tx.db.lease /\ i.db.member = tx.db.member
        /\ i.db.revision = tx.db.revision
        /\ i.db.compact_revision = tx.db.compact_revision
        /\ i.db.applied_index = tx.db.applied_index
        /\ i.open = tx.open /\ i.next = tx.next /\ i.sub = tx.sub + 1 /\ i.used = TRUE
        /\ i.events = tx.events \cup {EventOf(x, P)}
        /\ i.todo = tx.todo
    BY DEF Insert, TxFields, DbFields
  <1>2. CASE tx' = i
    BY <1>1, <1>2 DEF Wrote, Pop, TxFields
  <1>3. CASE tx' = Pop(i)
    BY ZenonT(60), <1>1, <1>3, PopFields DEF Wrote
  <1> QED
    BY <1>2, <1>3

LEMMA RollbackInv ==
    ASSUME IInv, Rollback
    PROVE  IInv'
  <1>1. tx'.open = FALSE
    BY DEF Rollback, NoTx
  <1>2. DbInv'
    BY DEF IInv, DbInv, Rollback
  <1> QED
    BY <1>1, <1>2 DEF IInv

LEMMA NoCompactAhead ==
    ASSUME TxShape, TxCompacts, tx.todo # <<>>, Head(tx.todo).op # "compact"
    PROVE  /\ \A i \in DOMAIN tx.todo : tx.todo[i].op # "compact"
           /\ tx.db.compact_revision = db.compact_revision \/ ~(db.compact_revision < tx.db.compact_revision)
  <1>1. Len(tx.todo) \in Nat /\ Len(tx.todo) > 0 /\ Head(tx.todo) = tx.todo[1]
    BY TodoHead DEF TxShape
  <1>2. ASSUME NEW i \in DOMAIN tx.todo, tx.todo[i].op = "compact" PROVE FALSE
    <2>1. Len(tx.todo) = 1 /\ i \in 1 .. Len(tx.todo)
      BY <1>2 DEF TxCompacts, TxShape
    <2> QED
      BY <2>1, <1>1, <1>2
  <1> QED
    BY <1>1, <1>2 DEF TxCompacts

LEMMA WroteInv ==
    ASSUME IInv, tx.open, tx.todo # <<>>, Head(tx.todo).op # "compact",
           NEW x, NEW P, Wrote(x, P), NextRow(x, tx.next, tx.sub), PrevOK(tx'.db.kv, x, P),
           tx'.todo \in Seq(Operation),
           \A i \in DOMAIN tx'.todo : tx'.todo[i].op # "compact",
           TxRevokes'
    PROVE  IInv'
  <1>1. TxInv /\ DbInv
    BY DEF IInv
  <1>2. View(tx'.db, tx'.next, tx'.sub, live' \cup tx'.events, past')
    <2>1. View(tx'.db, tx.next, tx.sub + 1, (live \cup tx.events) \cup {EventOf(x, P)}, past)
      BY <1>1, InsertView DEF Wrote, TxInv
    <2>2. (live \cup tx.events) \cup {EventOf(x, P)} = live' \cup tx'.events
      BY DEF Wrote
    <2> QED
      BY <2>1, <2>2 DEF Wrote
  <1>3. tx.sub \in Nat
    BY <1>1 DEF TxInv, View, Numbered
  <1>4. TxShape'
    <2>1. tx'.used = TRUE /\ tx'.sub > 0
      BY <1>3 DEF Wrote
    <2>2. TxShape
      BY <1>1 DEF TxInv
    <2> QED
      BY <2>1, <2>2 DEF TxShape, Wrote
  <1>5. TxRows'
    BY <1>1 DEF TxInv, TxRows, Wrote, NextRow, Row, TxShape
  <1>6. TxCompacts'
    BY <1>1, NoCompactAhead DEF TxInv, TxCompacts, Wrote
  <1>7. DbInv'
    BY <1>1 DEF DbInv, Wrote
  <1> QED
    BY <1>2, <1>4, <1>5, <1>6, <1>7 DEF IInv, TxInv, Wrote

(* The current rows of a view are rows of it that nothing of their key is   *)
(* newer than.                                                             *)
LEMMA CurrentRows ==
    ASSUME NEW K, NEW n, NEW s, Numbered(K, n, s), NEW R, NEW p \in current_in(K, R)
    PROVE  /\ p \in K /\ p \in Row /\ p.key \in R /\ ~p.deleted
           /\ \A q \in K : q.key = p.key => ~Newer(q, p)
  BY DEF current_in, Newest, Numbered

(* Writing over a current row, whose number is then the row's prev.        *)
LEMMA OverCurrent ==
    ASSUME NEW K, NEW n, NEW s, Numbered(K, n, s), NEW R, NEW p \in current_in(K, R),
           NEW x, NextRow(x, n, s), x.key = p.key, x.prev = p.rev
    PROVE  PrevOK(K \cup {x}, x, {Kv(p)})
  <1>1. /\ p \in K /\ p \in Row /\ ~p.deleted /\ Newer(x, p)
        /\ \A q \in K : q.key = p.key => ~Newer(q, p)
    BY CurrentRows, NextIsNewer
  <1>2. ~Newer(x, x)
    BY NewerIsAnOrder DEF NextRow
  <1> QED
    BY <1>1, <1>2 DEF PrevOK, Superseded

(* The row a put writes: the next version of the current row, or the first. *)
PutOver(x) ==
    LET prev == current_in(tx.db.kv, {x.key})
    IN  /\ x.key = Head(tx.todo).key /\ ~x.deleted
        /\ prev = {} => x.create = tx.next /\ x.prev = 0
        /\ prev # {} => \E p \in prev : x.create = p.create /\ x.version = p.version + 1 /\ x.prev = p.rev
        /\ Head(tx.todo).ignore_value \/ x.value = Head(tx.todo).value

LEMMA apply_putInv ==
    ASSUME IInv, apply_put
    PROVE  /\ IInv'
           /\ \/ Rollback
              \/ \E x, P : /\ Wrote(x, P) /\ NextRow(x, tx.next, tx.sub) /\ PutOver(x)
                           /\ tx'.todo = Tail(tx.todo)
  <1> DEFINE op == Head(tx.todo)
             prev == current_in(tx.db.kv, {op.key})
             row == PutRow(tx, op, prev)
             x == [row EXCEPT !.rev = tx.next, !.sub = tx.sub]
             P == {Kv(p) : p \in prev}
  <1>1. tx.open /\ tx.todo # <<>> /\ op.op = "put" /\ UNCHANGED <<db, live, past>>
    BY DEF apply_put, Op, Step, Rollback
  <1>2. TxInv /\ DbInv
    BY <1>1 DEF IInv
  <1>3. CASE (op.ignore_value \/ op.ignore_lease) /\ prev = {}
    BY <1>3, RollbackInv DEF apply_put
  <1>4. CASE ~((op.ignore_value \/ op.ignore_lease) /\ prev = {})
    <2>1. tx' = Pop(Insert(tx, row, prev))
      BY <1>4 DEF apply_put, Step
    <2>2. TxFields \subseteq DOMAIN tx /\ DbFields \subseteq DOMAIN tx.db
      BY <1>2 DEF TxInv, TxShape, View, ShapeOf
    <2>3. Wrote(x, P) /\ tx'.todo = Tail(tx.todo)
      <3> DEFINE i == Insert(tx, row, prev)
      <3>1. /\ x = [row EXCEPT !.rev = tx.next, !.sub = tx.sub] /\ i = Insert(tx, row, prev)
            /\ P = {Kv(p) : p \in prev} /\ tx' = Pop(i)
        BY <2>1
      <3> HIDE DEF P, x, i, row, prev
      <3> QED
        BY <1>1, <2>2, <3>1, InsertWrites
    <2>4. op \in PutOp
      BY <1>1, <1>2, TodoHead, OpTypes DEF TxInv, TxShape
    <2>5. Numbered(tx.db.kv, tx.next, tx.sub) /\ tx.next \in Nat /\ tx.sub \in Nat
      BY <1>2 DEF TxInv, View, Numbered
    <2>6. /\ \A p \in prev : p \in Row /\ p.key = op.key
          /\ prev # {} => (CHOOSE r \in prev : TRUE) \in prev /\ prev = {CHOOSE r \in prev : TRUE}
      <3>1. \A p \in prev : p \in Row /\ p.key \in {op.key}
        BY <2>5, CurrentRows
      <3>2. \A p, q \in prev : p = q
        BY <2>5, OneCurrentRow
      <3> HIDE DEF prev
      <3> QED
        BY <3>1, <3>2
    <2>7. /\ x.rev = tx.next /\ x.sub = tx.sub /\ x.key = op.key /\ x.prev = row.prev
          /\ x \in Row
          /\ x.deleted = row.deleted /\ x.create = row.create /\ x.version = row.version
          /\ x.value = row.value
      <3> DEFINE p == CHOOSE r \in prev : TRUE
      <3>1. prev # {} => p \in Row
        BY <2>6
      <3>2. op.key \in Keys /\ op.value \in Int /\ op.lease \in Int
        BY <2>4 DEF PutOp
      <3> HIDE DEF prev, op
      <3>3. row \in Row /\ row.key = op.key
        <4>1. CASE prev = {}
          <5>1. row = [rev |-> 0, sub |-> 0, key |-> op.key, deleted |-> FALSE,
                       value |-> op.value, lease |-> op.lease, create |-> tx.next,
                       version |-> 1, prev |-> 0]
            BY <1>4, <4>1 DEF PutRow
          <5> QED
            BY <5>1, <3>2, <2>5 DEF Row
        <4>2. CASE prev # {}
          <5>1. row = [rev |-> 0, sub |-> 0, key |-> op.key, deleted |-> FALSE,
                       value |-> IF op.ignore_value THEN p.value ELSE op.value,
                       lease |-> IF op.ignore_lease THEN p.lease ELSE op.lease,
                       create |-> p.create, version |-> p.version + 1, prev |-> p.rev]
            BY <4>2 DEF PutRow
          <5> HIDE DEF p
          <5> QED
            BY <5>1, <3>1, <3>2, <4>2 DEF Row
        <4> QED
          BY <4>1, <4>2
      <3> HIDE DEF row
      <3> QED
        BY <3>3, <2>5 DEF Row
    <2>8. PrevOK(tx'.db.kv, x, P)
      <3>1. tx'.db.kv = tx.db.kv \cup {x}
        BY <2>3 DEF Wrote
      <3>2. CASE prev = {}
        <4>1. row.prev = 0 /\ P = {}
          BY <3>2 DEF PutRow
        <4> QED
          BY <4>1, <2>7 DEF PrevOK
      <3>3. CASE prev # {}
        <4> DEFINE p == CHOOSE r \in prev : TRUE
        <4>1. p \in prev /\ P = {Kv(p)} /\ p.key = op.key
          BY <2>6, <3>3
        <4>2. row.prev = p.rev
          BY <3>3 DEF PutRow
        <4> HIDE DEF p, P, x, row
        <4> QED
          BY <2>5, <2>7, <3>1, <4>1, <4>2, OverCurrent DEF NextRow
      <3> QED
        BY <3>2, <3>3
    <2>9. /\ tx'.todo \in Seq(Operation)
          /\ \A i \in DOMAIN tx'.todo : i + 1 \in DOMAIN tx.todo /\ tx'.todo[i] = tx.todo[i + 1]
      BY <1>1, <1>2, <2>3, TodoHead DEF TxInv, TxShape
    <2>10. \A i \in DOMAIN tx'.todo : tx'.todo[i].op # "compact"
      BY <1>1, <1>2, <2>9, NoCompactAhead DEF TxInv
    <2>11. TxRevokes'
      <3>1. DOMAIN db.lease \subseteq DOMAIN tx.db.lease
        <4>1. 1 \in DOMAIN tx.todo /\ tx.todo[1] = op
          BY <1>1, <1>2, TodoHead DEF TxInv, TxShape
        <4> QED
          BY <1>1, <1>2, <4>1 DEF TxInv, TxRevokes
      <3> QED
        BY <1>2, <2>3, <2>9, <3>1 DEF TxInv, TxRevokes, Wrote
    <2>12. PutOver(x)
      <3>1. /\ ~row.deleted
            /\ prev = {} => row.create = tx.next /\ row.prev = 0
            /\ prev # {} => \E p \in prev : row.create = p.create /\ row.version = p.version + 1
                                             /\ row.prev = p.rev
            /\ op.ignore_value \/ row.value = op.value
        BY <2>6 DEF PutRow
      <3> HIDE DEF row, x
      <3> QED
        BY <2>7, <3>1 DEF PutOver
    <2> HIDE DEF x, P
    <2>13. NextRow(x, tx.next, tx.sub)
      BY <2>7 DEF NextRow
    <2>14. IInv'
      BY <1>1, <2>3, <2>8, <2>9, <2>10, <2>11, <2>13, WroteInv
    <2> QED
      BY <2>3, <2>12, <2>13, <2>14
  <1> QED
    BY <1>3, <1>4

(* A tombstone gives no lease a key.                                       *)
LEMMA TombstoneLeases ==
    ASSUME NEW K, NEW x, x.deleted, NEW id
    PROVE  lease_keys(K \cup {x}, id) \subseteq lease_keys(K, id)
  BY DEF lease_keys, current_in, Newest

(* One victim of a delete, or of a revocation.                             *)
LEMMA DeleteOneInv ==
    ASSUME IInv, tx.open, tx.todo # <<>>, Head(tx.todo).op # "compact", NEW R,
           NEW S \in SUBSET current_in(tx.db.kv, R), S # {},
           tx' = DeleteOne(tx, S), UNCHANGED <<db, live, past>>
    PROVE  IInv' /\ \E x, P : Wrote(x, P) /\ NextRow(x, tx.next, tx.sub) /\ x.deleted
                              /\ tx'.todo = tx.todo /\ \E v \in S : x.key = v.key /\ v.key \in R
  <1> DEFINE v == Lowest(S)
             row == Tombstone(v)
             x == [row EXCEPT !.rev = tx.next, !.sub = tx.sub]
             P == {Kv(v)}
  <1>1. TxInv /\ DbInv
    BY DEF IInv
  <1>2. Numbered(tx.db.kv, tx.next, tx.sub) /\ tx.next \in Nat /\ tx.sub \in Nat
    BY <1>1 DEF TxInv, View, Numbered
  <1>3. v \in S /\ v \in current_in(tx.db.kv, R)
    <2>1. S \in SUBSET tx.db.kv
      BY <1>2, CurrentRows
    <2> QED
      BY <1>2, <2>1, SomeRowIsLowest
  <1>4. v \in Row /\ v.key \in R
    BY <1>2, <1>3, CurrentRows
  <1>5. row \in Row /\ row.key = v.key /\ row.prev = v.rev /\ row.deleted
    BY <1>4 DEF Tombstone, Row
  <1>6. x \in Row /\ x.rev = tx.next /\ x.sub = tx.sub /\ x.key = v.key /\ x.prev = v.rev /\ x.deleted
    <2> HIDE DEF row
    <2> QED
      BY <1>5, <1>2 DEF Row
  <1>7. Wrote(x, P) /\ tx'.todo = tx.todo
    <2> DEFINE i == Insert(tx, row, {v})
    <2>1. /\ x = [row EXCEPT !.rev = tx.next, !.sub = tx.sub] /\ i = Insert(tx, row, {v})
          /\ P = {Kv(p) : p \in {v}} /\ tx' = i
      BY DEF DeleteOne
    <2>2. TxFields \subseteq DOMAIN tx /\ DbFields \subseteq DOMAIN tx.db
      BY <1>1 DEF TxInv, TxShape, View, ShapeOf
    <2> HIDE DEF P, x, i, row, v
    <2> QED
      BY <2>1, <2>2, InsertWrites
  <1> HIDE DEF x, P, v, row
  <1>8. PrevOK(tx'.db.kv, x, P)
    <2>1. tx'.db.kv = tx.db.kv \cup {x} /\ NextRow(x, tx.next, tx.sub)
      BY <1>6, <1>7 DEF Wrote, NextRow
    <2> QED
      BY <1>2, <1>3, <1>6, <2>1, OverCurrent DEF P
  <1>9. tx'.todo \in Seq(Operation) /\ \A i \in DOMAIN tx'.todo : tx'.todo[i].op # "compact"
    BY <1>1, <1>7, NoCompactAhead DEF TxInv, TxShape
  <1>10. TxRevokes'
    <2>1. \A id : lease_keys(tx'.db.kv, id) \subseteq lease_keys(tx.db.kv, id)
      BY <1>6, <1>7, TombstoneLeases DEF Wrote
    <2>2. TxRevokes
      BY <1>1 DEF TxInv
    <2>3. tx'.db.lease = tx.db.lease /\ tx'.todo = tx.todo /\ db' = db
      BY <1>7 DEF Wrote
    <2> QED
      BY <2>1, <2>2, <2>3 DEF TxRevokes
  <1>11. NextRow(x, tx.next, tx.sub)
    BY <1>6 DEF NextRow
  <1>12. IInv'
    BY <1>7, <1>8, <1>9, <1>10, <1>11, WroteInv
  <1> QED
    BY <1>3, <1>4, <1>6, <1>7, <1>11, <1>12

(* Steps that change no row: the operations on leases and members, and the  *)
(* end of any operation.                                                   *)
LEMMA SameRowsInv ==
    ASSUME IInv, tx.open, tx.todo # <<>>, Head(tx.todo).op # "compact",
           UNCHANGED <<db, live, past>>,
           TxFields \subseteq DOMAIN tx', DbFields \subseteq DOMAIN tx'.db, LeasesOK(tx'.db),
           tx'.db.member \subseteq [id : Int, is_learner : BOOLEAN],
           tx'.db.kv = tx.db.kv, tx'.db.revision = tx.db.revision,
           tx'.db.compact_revision = tx.db.compact_revision,
           tx'.db.applied_index = tx.db.applied_index,
           tx'.open = tx.open, tx'.next = tx.next, tx'.sub = tx.sub, tx'.used = tx.used,
           tx'.events = tx.events, tx'.todo \in Seq(Operation),
           \A i \in DOMAIN tx'.todo : tx'.todo[i].op # "compact",
           TxRevokes'
    PROVE  IInv'
  <1>1. TxInv /\ DbInv
    BY DEF IInv
  <1>2. View(tx'.db, tx'.next, tx'.sub, live' \cup tx'.events, past')
    <2>1. tx'.db.applied_index \in 0 .. MaxIndex
      BY <1>1 DEF TxInv, View, ShapeOf
    <2>2. View(tx'.db, tx.next, tx.sub, live \cup tx.events, past)
      BY <1>1, <2>1, SameRowsView DEF TxInv
    <2> QED
      BY <2>2
  <1>3. TxShape'
    BY <1>1 DEF TxInv, TxShape
  <1>4. TxRows'
    BY <1>1 DEF TxInv, TxRows
  <1>5. TxCompacts'
    BY <1>1, NoCompactAhead DEF TxInv, TxCompacts
  <1>6. DbInv'
    BY <1>1 DEF DbInv
  <1> QED
    BY <1>2, <1>3, <1>4, <1>5, <1>6 DEF IInv, TxInv

LEMMA RevokesKept ==
    ASSUME TxRevokes, TxShape, tx.todo # <<>>, UNCHANGED db, tx'.db.kv = tx.db.kv,
           DOMAIN tx.db.lease \subseteq DOMAIN tx'.db.lease, tx'.todo = Tail(tx.todo)
    PROVE  TxRevokes'
  <1>1. \A i \in DOMAIN tx'.todo : i + 1 \in DOMAIN tx.todo /\ tx'.todo[i] = tx.todo[i + 1]
    BY TodoHead DEF TxShape
  <1> QED
    BY <1>1 DEF TxRevokes

(* An operation that pops itself, changing at most leases and members.     *)
LEMMA PopInv ==
    ASSUME IInv, tx.open, tx.todo # <<>>, Head(tx.todo).op # "compact",
           UNCHANGED <<db, live, past>>, NEW t, tx' = Pop(t),
           TxFields \subseteq DOMAIN t, DbFields \subseteq DOMAIN t.db, LeasesOK(t.db),
           DOMAIN tx.db.lease \subseteq DOMAIN t.db.lease,
           t.db.member \subseteq [id : Int, is_learner : BOOLEAN],
           t.db.kv = tx.db.kv, t.db.revision = tx.db.revision,
           t.db.compact_revision = tx.db.compact_revision,
           t.db.applied_index = tx.db.applied_index,
           t.open = tx.open, t.next = tx.next, t.sub = tx.sub, t.used = tx.used,
           t.events = tx.events, t.todo = tx.todo
    PROVE  IInv'
  <1>1. TxInv
    BY DEF IInv
  <1>2. /\ TxFields \subseteq DOMAIN tx'
        /\ tx'.open = tx.open /\ tx'.db = t.db /\ tx'.next = tx.next /\ tx'.sub = tx.sub
        /\ tx'.used = tx.used /\ tx'.events = tx.events /\ tx'.todo = Tail(tx.todo)
    BY PopFields
  <1>3. /\ tx'.todo \in Seq(Operation)
        /\ \A i \in DOMAIN tx'.todo : i + 1 \in DOMAIN tx.todo /\ tx'.todo[i] = tx.todo[i + 1]
    BY <1>1, <1>2, TodoHead DEF TxInv, TxShape
  <1>4. \A i \in DOMAIN tx'.todo : tx'.todo[i].op # "compact"
    BY <1>1, <1>3, NoCompactAhead DEF TxInv
  <1>5. TxRevokes'
    BY <1>1, <1>2, RevokesKept DEF TxInv
  <1>6. LeasesOK(tx'.db)
    BY <1>2 DEF LeasesOK
  <1> QED
    BY <1>2, <1>3, <1>4, <1>5, <1>6, SameRowsInv

(* What holds of tx while an operation is at its head.                     *)
LEMMA AtHead ==
    ASSUME IInv, NEW k, Op(k)
    PROVE  /\ tx.open /\ tx.todo # <<>> /\ Head(tx.todo) \in Operation /\ Head(tx.todo).op = k
           /\ TxFields \subseteq DOMAIN tx /\ DbFields \subseteq DOMAIN tx.db
           /\ LeasesOK(tx.db) /\ tx.db.member \subseteq [id : Int, is_learner : BOOLEAN]
  BY TodoHead DEF Op, IInv, TxInv, TxShape, View, ShapeOf

LEMMA apply_rangeInv ==
    ASSUME IInv, apply_range PROVE IInv'
  <1>1. Op("range") /\ tx' = Pop(tx) /\ UNCHANGED <<db, live, past>>
    BY DEF apply_range, Step
  <1> QED
    BY <1>1, AtHead, PopInv

LEMMA apply_deleteInv ==
    ASSUME IInv, apply_delete PROVE IInv'
  <1> DEFINE victims == current_in(tx.db.kv, Head(tx.todo).range)
  <1>1. Op("delete") /\ UNCHANGED <<db, live, past>>
    BY DEF apply_delete, Step
  <1>2. CASE victims = {}
    <2>1. tx' = Pop(tx)
      BY <1>2 DEF apply_delete, Step
    <2> QED
      BY <1>1, <2>1, AtHead, PopInv
  <1>3. CASE victims # {}
    <2>1. tx' = DeleteOne(tx, victims)
      BY <1>3 DEF apply_delete, Step
    <2>2. victims \in SUBSET current_in(tx.db.kv, Head(tx.todo).range)
      OBVIOUS
    <2> HIDE DEF victims
    <2> QED
      BY <1>1, <1>3, <2>1, <2>2, AtHead, DeleteOneInv
  <1> QED
    BY <1>2, <1>3

LEMMA set_memberInv ==
    ASSUME IInv, set_member PROVE IInv'
  <1> DEFINE m == Head(tx.todo).member
             t == [tx EXCEPT !.db.member = {x \in @ : x.id # m.id} \cup {m}]
  <1>1. Op("set_member") /\ tx' = Pop(t) /\ UNCHANGED <<db, live, past>>
    BY DEF set_member, Step
  <1>2. m \in [id : Int, is_learner : BOOLEAN]
    BY <1>1, AtHead, OpTypes
  <1>3. /\ TxFields \subseteq DOMAIN t /\ DbFields \subseteq DOMAIN t.db
        /\ t.db.lease = tx.db.lease
        /\ t.db.member = {x \in tx.db.member : x.id # m.id} \cup {m}
        /\ t.db.kv = tx.db.kv /\ t.db.revision = tx.db.revision
        /\ t.db.compact_revision = tx.db.compact_revision
        /\ t.db.applied_index = tx.db.applied_index
        /\ t.open = tx.open /\ t.next = tx.next /\ t.sub = tx.sub /\ t.used = tx.used
        /\ t.events = tx.events /\ t.todo = tx.todo
    BY <1>1, AtHead DEF TxFields, DbFields
  <1> HIDE DEF t
  <1>4. LeasesOK(t.db) /\ t.db.member \subseteq [id : Int, is_learner : BOOLEAN]
    BY <1>1, <1>2, <1>3, AtHead DEF LeasesOK
  <1> QED
    BY <1>1, <1>3, <1>4, AtHead, PopInv

LEMMA remove_memberInv ==
    ASSUME IInv, remove_member PROVE IInv'
  <1> DEFINE t == [tx EXCEPT !.db.member = {x \in @ : x.id # Head(tx.todo).id}]
  <1>1. Op("remove_member") /\ tx' = Pop(t) /\ UNCHANGED <<db, live, past>>
    BY DEF remove_member, Step
  <1>3. /\ TxFields \subseteq DOMAIN t /\ DbFields \subseteq DOMAIN t.db
        /\ t.db.lease = tx.db.lease
        /\ t.db.member \subseteq tx.db.member
        /\ t.db.kv = tx.db.kv /\ t.db.revision = tx.db.revision
        /\ t.db.compact_revision = tx.db.compact_revision
        /\ t.db.applied_index = tx.db.applied_index
        /\ t.open = tx.open /\ t.next = tx.next /\ t.sub = tx.sub /\ t.used = tx.used
        /\ t.events = tx.events /\ t.todo = tx.todo
    BY <1>1, AtHead DEF TxFields, DbFields
  <1> HIDE DEF t
  <1>4. LeasesOK(t.db) /\ t.db.member \subseteq [id : Int, is_learner : BOOLEAN]
    BY <1>1, <1>3, AtHead DEF LeasesOK
  <1> QED
    BY <1>1, <1>3, <1>4, AtHead, PopInv

(* Granting and renewing.                                                  *)
LEMMA GrantInv ==
    ASSUME IInv, tx.open, tx.todo # <<>>, Head(tx.todo).op # "compact",
           TxFields \subseteq DOMAIN tx, DbFields \subseteq DOMAIN tx.db, LeasesOK(tx.db),
           tx.db.member \subseteq [id : Int, is_learner : BOOLEAN],
           NEW id \in Int, NEW ttl \in Int, NEW now \in Int,
           tx' = Pop([tx EXCEPT !.db.lease = Grant(id, ttl, now)]), UNCHANGED <<db, live, past>>
    PROVE  IInv'
  <1> DEFINE g == Grant(id, ttl, now)
             t == [tx EXCEPT !.db.lease = g]
  <1>1. /\ DOMAIN g = DOMAIN tx.db.lease \cup {id}
        /\ \A i \in DOMAIN g : g[i] \in [ttl : Int, expires : Int]
    BY DEF Grant, LeasesOK
  <1> HIDE DEF g
  <1>3. /\ TxFields \subseteq DOMAIN t /\ DbFields \subseteq DOMAIN t.db
        /\ t.db.lease = g /\ t.db.member = tx.db.member
        /\ t.db.kv = tx.db.kv /\ t.db.revision = tx.db.revision
        /\ t.db.compact_revision = tx.db.compact_revision
        /\ t.db.applied_index = tx.db.applied_index
        /\ t.open = tx.open /\ t.next = tx.next /\ t.sub = tx.sub /\ t.used = tx.used
        /\ t.events = tx.events /\ t.todo = tx.todo
    BY DEF TxFields, DbFields
  <1>4. tx' = Pop(t)
    BY DEF g
  <1> HIDE DEF t
  <1>5. LeasesOK(t.db)
    BY <1>1, <1>3 DEF LeasesOK
  <1> QED
    BY <1>1, <1>3, <1>4, <1>5, PopInv

LEMMA lease_grantInv ==
    ASSUME IInv, lease_grant PROVE IInv'
  <1> DEFINE op == Head(tx.todo)
             ttl == IF op.ttl < 1 THEN 1 ELSE op.ttl
  <1>1. /\ Op("lease_grant") /\ UNCHANGED <<db, live, past>>
        /\ tx' = Pop([tx EXCEPT !.db.lease = Grant(op.id, ttl, op.now)])
    BY DEF lease_grant, Step
  <1>2. op.id \in Int /\ ttl \in Int /\ op.now \in Int
    BY <1>1, AtHead, OpTypes
  <1> HIDE DEF ttl
  <1> QED
    BY <1>1, <1>2, AtHead, GrantInv

LEMMA lease_keep_aliveInv ==
    ASSUME IInv, lease_keep_alive PROVE IInv'
  <1> DEFINE op == Head(tx.todo)
             ttl == tx.db.lease[op.id].ttl
  <1>1. Op("lease_keep_alive") /\ UNCHANGED <<db, live, past>>
    BY DEF lease_keep_alive, Step
  <1>2. CASE op.id \in DOMAIN tx.db.lease
    <2>1. tx' = Pop([tx EXCEPT !.db.lease = Grant(op.id, ttl, op.now)])
      BY <1>2 DEF lease_keep_alive, Step
    <2>2. op.id \in Int /\ ttl \in Int /\ op.now \in Int
      BY <1>1, <1>2, AtHead, OpTypes DEF LeasesOK
    <2> HIDE DEF ttl
    <2> QED
      BY <1>1, <2>1, <2>2, AtHead, GrantInv
  <1>3. CASE op.id \notin DOMAIN tx.db.lease
    <2>1. tx' = Pop(tx)
      BY <1>3 DEF lease_keep_alive, Step
    <2> QED
      BY <1>1, <2>1, AtHead, PopInv
  <1> QED
    BY <1>2, <1>3

LEMMA apply_compactInv ==
    ASSUME IInv, apply_compact PROVE IInv'
  <1> DEFINE r == Head(tx.todo).revision
             d == tx.db
             t == [tx EXCEPT !.db.kv = Kept(d.kv, r), !.db.compact_revision = r]
  <1>1. Op("compact") /\ UNCHANGED <<db, live, past>> /\ TxInv /\ DbInv
    BY DEF apply_compact, Step, Rollback, IInv, Op
  <1>2. CASE r <= d.compact_revision \/ r > d.revision
    BY <1>2, RollbackInv DEF apply_compact
  <1>3. CASE ~(r <= d.compact_revision \/ r > d.revision)
    <2>1. tx' = Pop(t)
      BY <1>3 DEF apply_compact, Step, Kept
    <2>2. /\ TxFields \subseteq DOMAIN t /\ DbFields \subseteq DOMAIN t.db
          /\ t.db.lease = d.lease /\ t.db.member = d.member
          /\ t.db.kv = Kept(d.kv, r) /\ t.db.revision = d.revision
          /\ t.db.compact_revision = r
          /\ t.db.applied_index = d.applied_index
          /\ t.open = tx.open /\ t.next = tx.next /\ t.sub = tx.sub /\ t.used = tx.used
          /\ t.events = tx.events /\ t.todo = tx.todo
      BY <1>1, AtHead DEF TxFields, DbFields
    <2> HIDE DEF t
    <2>3. /\ TxFields \subseteq DOMAIN tx'
          /\ tx'.open = tx.open /\ tx'.db = t.db /\ tx'.next = tx.next /\ tx'.sub = tx.sub
          /\ tx'.used = tx.used /\ tx'.events = tx.events /\ tx'.todo = Tail(tx.todo)
      BY <2>1, <2>2, PopFields
    <2>4. /\ Len(tx.todo) = 1 /\ ~tx.used /\ r \in Int
          /\ tx'.todo \in Seq(Operation) /\ Len(tx'.todo) = 0 /\ DOMAIN tx'.todo = {}
      <3>1. 1 \in DOMAIN tx.todo /\ tx.todo[1].op = "compact"
        BY <1>1, AtHead, TodoHead DEF TxInv, TxShape
      <3>2. Len(tx.todo) = 1 /\ ~tx.used
        BY <1>1, <3>1 DEF TxInv, TxCompacts
      <3>3. tx'.todo \in Seq(Operation) /\ Len(tx'.todo) = 0
        BY <1>1, <2>3, <3>2, AtHead, TodoHead DEF TxInv, TxShape
      <3> QED
        BY <1>1, <3>2, <3>3, AtHead, OpTypes
    <2>5. /\ d.compact_revision \in Nat /\ d.revision \in Nat /\ db.compact_revision \in Nat
          /\ d.compact_revision < r /\ r <= d.revision
          /\ d.compact_revision = db.compact_revision
      <3>1. /\ d.compact_revision \in Nat /\ d.revision \in Nat /\ db.compact_revision \in Nat
            /\ db.compact_revision <= d.compact_revision
        BY <1>1 DEF TxInv, DbInv, View, ShapeOf, TxCompacts
      <3>2. ~(db.compact_revision < d.compact_revision)
        BY <1>1, <2>4 DEF TxInv, TxCompacts
      <3> QED
        BY <1>3, <2>4, <3>1, <3>2
    <2>6. View(tx'.db, tx'.next, tx'.sub, live' \cup tx'.events, past')
      <3>1. View(tx'.db, tx.next, tx.sub, live \cup tx.events, past)
        BY <1>1, <2>2, <2>3, <2>4, <2>5, CompactView DEF TxInv
      <3> QED
        BY <1>1, <2>3, <3>1
    <2>7. TxShape'
      BY <1>1, <2>2, <2>3, <2>4 DEF TxInv, TxShape
    <2>8. Kept(d.kv, r) \subseteq d.kv /\ \A x \in d.kv : ~(x.rev <= r) => x \in Kept(d.kv, r)
      BY <1>1, CompactRows DEF TxInv, View
    <2>9. TxRows'
      <3>1. \A x \in d.kv : x.rev \in Nat
        BY <1>1 DEF TxInv, View, Numbered, Row
      <3>2. \A x \in db.kv : x.rev \in Nat
        BY <1>1 DEF DbInv, View, Numbered, Row
      <3> QED
        BY <1>1, <2>2, <2>3, <2>4, <2>5, <2>8, <3>1, <3>2 DEF TxInv, TxRows
    <2>10. TxCompacts'
      BY <1>1, <2>2, <2>3, <2>4, <2>5 DEF TxInv, TxCompacts
    <2>11. TxRevokes'
      <3>1. DOMAIN db.lease \subseteq DOMAIN tx.db.lease
        <4>1. 1 \in DOMAIN tx.todo /\ tx.todo[1].op = "compact"
          BY <1>1, AtHead, TodoHead DEF TxInv, TxShape
        <4> QED
          BY <1>1, <4>1 DEF TxInv, TxRevokes
      <3> QED
        BY <1>1, <2>2, <2>3, <2>4, <3>1 DEF TxRevokes
    <2>12. DbInv'
      BY <1>1 DEF DbInv
    <2> QED
      BY <1>1, <2>3, <2>6, <2>7, <2>9, <2>10, <2>11, <2>12 DEF IInv, TxInv
  <1> QED
    BY <1>2, <1>3

LEMMA revoke_leaseInv ==
    ASSUME IInv, revoke_lease PROVE IInv'
  <1> DEFINE ids == Head(tx.todo).ids
             id == FirstToExpire(tx.db.lease, ids)
             victims == lease_keys(tx.db.kv, id)
             g == [i \in DOMAIN tx.db.lease \ {id} |-> tx.db.lease[i]]
             o == [Head(tx.todo) EXCEPT !.ids = @ \ {id}]
             q == [tx.todo EXCEPT ![1] = o]
             dropped == [tx EXCEPT !.todo[1].ids = @ \ {id},
                                   !.db.lease = [i \in DOMAIN @ \ {id} |-> @[i]]]
  <1>1. Op("revoke") /\ UNCHANGED <<db, live, past>> /\ TxInv /\ DbInv
    BY DEF revoke_lease, Step, Op, IInv
  <1>2. CASE ids = {}
    <2>1. tx' = Pop(tx)
      BY <1>2 DEF revoke_lease, Step
    <2> QED
      BY <1>1, <2>1, AtHead, PopInv
  <1>3. CASE ids # {} /\ victims # {}
    <2>1. tx' = DeleteOne(tx, victims)
      BY <1>3 DEF revoke_lease, Step
    <2>2. victims \in SUBSET current_in(tx.db.kv, Keys)
      BY DEF lease_keys
    <2> HIDE DEF victims
    <2> QED
      BY <1>1, <1>3, <2>1, <2>2, AtHead, DeleteOneInv
  <1>4. CASE ids # {} /\ victims = {}
    <2>1. tx' = dropped
      BY <1>4 DEF revoke_lease, Step
    <2>2. /\ tx.todo \in Seq(Operation) /\ 1 \in DOMAIN tx.todo /\ Head(tx.todo) = tx.todo[1]
          /\ tx.todo[1] \in [op : {"revoke"}, ids : SUBSET Int]
      BY <1>1, AtHead, TodoHead, OpTypes DEF TxInv, TxShape
    <2>3. /\ TxFields \subseteq DOMAIN tx' /\ DbFields \subseteq DOMAIN tx'.db
          /\ tx'.db.lease = g /\ tx'.db.member = tx.db.member
          /\ tx'.db.kv = tx.db.kv /\ tx'.db.revision = tx.db.revision
          /\ tx'.db.compact_revision = tx.db.compact_revision
          /\ tx'.db.applied_index = tx.db.applied_index
          /\ tx'.open = tx.open /\ tx'.next = tx.next /\ tx'.sub = tx.sub /\ tx'.used = tx.used
          /\ tx'.events = tx.events
      <3> HIDE DEF id
      <3> QED
        BY <1>1, <2>1, AtHead DEF TxFields, DbFields
    <2>4. tx'.todo = q
      <3> HIDE DEF id
      <3> QED
        BY <1>1, <2>1, <2>2, AtHead DEF TxFields
    <2> HIDE DEF dropped, id
    <2>5. o \in Operation /\ o.op = "revoke"
      BY <2>2 DEF Operation
    <2>6. /\ q \in Seq(Operation) /\ DOMAIN q = DOMAIN tx.todo
          /\ \A i \in DOMAIN q : q[i].op = tx.todo[i].op
      <3> HIDE DEF o
      <3> QED
        BY <2>2, <2>5, ExceptSeq
    <2> HIDE DEF q
    <2>7. \A i \in DOMAIN q : q[i].op = "revoke"
      BY <1>1, <2>2, <2>6 DEF TxInv, TxRevokes
    <2>8. LeasesOK(tx'.db)
      BY <1>1, <2>3, AtHead DEF LeasesOK
    <2>9. TxRevokes'
      <3>1. DOMAIN g = DOMAIN tx.db.lease \ {id}
        OBVIOUS
      <3> HIDE DEF g
      <3> QED
        BY <1>1, <1>4, <2>3, <2>4, <2>7, <3>1 DEF TxInv, TxRevokes
    <2> QED
      BY <1>1, <2>3, <2>4, <2>6, <2>7, <2>8, <2>9, AtHead, SameRowsInv
  <1> QED
    BY <1>2, <1>3, <1>4

-----------------------------------------------------------------------------
(* The steps that open and close a transaction.                            *)

LEMMA PlanIsTyped ==
    ASSUME NEW cmd \in Commands, LeasesOK(db)
    PROVE  LET q == Plan(db, cmd)
           IN  /\ q \in Seq(Operation)
               /\ \A i \in DOMAIN q : q[i].op = "compact" => Len(q) = 1
               /\ \A i, j \in DOMAIN q : q[i].op = "revoke" => q[j].op = "revoke"
  <1> DEFINE q == Plan(db, cmd)
  <1>1. cmd \in Command
    BY CommandsAreTyped
  <1>2. CASE cmd.op = "txn"
    <2>1. q \in Seq(RequestOp)
      BY <1>1, <1>2 DEF Plan, Command, PutOp, DeleteOp, TxnOp
    <2>2. \A o \in RequestOp : o \in Operation /\ o.op # "compact" /\ o.op # "revoke"
      BY DEF Operation, RequestOp, PutOp, DeleteOp, RangeOp
    <2> HIDE DEF q
    <2>3. q \in Seq(Operation) /\ \A i \in DOMAIN q : q[i] \in RequestOp
      BY <2>1, <2>2
    <2> QED
      BY <2>2, <2>3 DEF q
  <1>3. ASSUME NEW o \in Operation, q = <<o>>
        PROVE  /\ q \in Seq(Operation)
               /\ \A i \in DOMAIN q : q[i].op = "compact" => Len(q) = 1
               /\ \A i, j \in DOMAIN q : q[i].op = "revoke" => q[j].op = "revoke"
    <2> HIDE DEF q
    <2> QED
      BY <1>3
  <1>4. CASE cmd.op # "txn"
    <2>1. CASE cmd.op = "lease_revoke"
      <3> DEFINE o == [op |-> "revoke", ids |-> {cmd.id}]
      <3>1. q = <<o>>
        BY <2>1 DEF Plan
      <3>2. cmd.id \in Int
        BY <1>1, <2>1 DEF Command, PutOp, DeleteOp, TxnOp
      <3>3. o \in Operation
        BY <3>2 DEF Operation
      <3> HIDE DEF o, q
      <3> QED
        BY <3>1, <3>3, <1>3 DEF q
    <2>2. CASE cmd.op = "expire_leases"
      <3> DEFINE ids == Expired(db, cmd.now)
                 o == [op |-> "revoke", ids |-> ids]
      <3>1. q = <<o>>
        BY <2>2 DEF Plan
      <3>2. ids \subseteq Int
        BY DEF Expired, LeasesOK
      <3> HIDE DEF ids
      <3>3. o \in Operation
        BY <3>2 DEF Operation
      <3> HIDE DEF o, q
      <3> QED
        BY <3>1, <3>3, <1>3 DEF q
    <2>3. CASE cmd.op # "lease_revoke" /\ cmd.op # "expire_leases"
      <3>1. q = <<cmd>>
        BY <1>4, <2>3 DEF Plan
      <3>2. cmd \in Operation
        BY <1>1, <1>4, <2>3 DEF Command, Operation, RequestOp, TxnOp
      <3> HIDE DEF q
      <3> QED
        BY <3>1, <3>2, <1>3 DEF q
    <2> QED
      BY <2>1, <2>2, <2>3
  <1> QED
    BY <1>2, <1>4

LEMMA BeginInv ==
    ASSUME IInv, NEW cmd \in Commands, Begin(cmd) PROVE IInv'
  <1>1. DbInv /\ UNCHANGED <<db, live, past>> /\ LeasesOK(db)
    BY DEF IInv, DbInv, View, ShapeOf, Begin
  <1>2. /\ TxFields \subseteq DOMAIN tx'
        /\ tx'.open = TRUE /\ tx'.todo = Plan(db, cmd) /\ tx'.db = db
        /\ tx'.next = db.revision + 1 /\ tx'.sub = 0 /\ tx'.used = FALSE /\ tx'.events = {}
        /\ db.applied_index < MaxIndex
    BY DEF Begin, TxFields
  <1>3. DbInv'
    BY <1>1 DEF DbInv
  <1>4. View(tx'.db, tx'.next, tx'.sub, live' \cup tx'.events, past')
    <2>1. live' \cup tx'.events = live
      BY <1>1, <1>2
    <2> QED
      BY <1>1, <1>2, <2>1 DEF DbInv
  <1>5. TxShape'
    <2>1. tx'.todo \in Seq(Operation)
      BY <1>1, <1>2, PlanIsTyped
    <2>2. tx'.used = FALSE /\ ~(tx'.sub > 0)
      BY <1>2
    <2>3. tx'.used \in BOOLEAN /\ ~tx'.used
      BY ONLY <2>2
    <2> QED
      BY <1>1, <1>2, <2>1, <2>2, <2>3 DEF TxShape
  <1>6. TxRows'
    BY <1>1, <1>2 DEF TxRows
  <1>7. TxCompacts'
    <2>1. db.compact_revision \in Nat
      BY <1>1 DEF DbInv, View, ShapeOf
    <2> QED
      BY <1>1, <1>2, <2>1, PlanIsTyped DEF TxCompacts
  <1>8. TxRevokes'
    BY <1>1, <1>2, PlanIsTyped DEF TxRevokes
  <1> QED
    BY <1>2, <1>3, <1>4, <1>5, <1>6, <1>7, <1>8 DEF IInv, TxInv

(* What a commit installs.                                                 *)
LEMMA CommitFields ==
    ASSUME IInv, Commit
    PROVE  /\ tx.open /\ TxInv /\ DbInv
           /\ DbFields \subseteq DOMAIN db'
           /\ db'.kv = tx.db.kv /\ db'.lease = tx.db.lease /\ db'.member = tx.db.member
           /\ db'.compact_revision = tx.db.compact_revision
           /\ db'.applied_index = db.applied_index + 1
           /\ tx.used => db'.revision = tx.next
           /\ ~tx.used => db'.revision = db.revision
           /\ live' = live \cup tx.events
           /\ tx.used => past' = Append(past, Contents(tx.db.kv))
           /\ ~tx.used => past' = past
           /\ tx'.open = FALSE
  <1>1. tx.open /\ TxInv /\ DbInv
    BY DEF Commit, IInv
  <1>2. DbFields \subseteq DOMAIN tx.db /\ tx.db.revision = db.revision
        /\ tx.db.applied_index = db.applied_index
    BY <1>1 DEF TxInv, View, ShapeOf, TxShape
  <1>3. db' = [tx.db EXCEPT !.revision = IF tx.used THEN tx.next ELSE @, !.applied_index = @ + 1]
    BY DEF Commit
  <1>4. /\ DbFields \subseteq DOMAIN db'
        /\ db'.kv = tx.db.kv /\ db'.lease = tx.db.lease /\ db'.member = tx.db.member
        /\ db'.compact_revision = tx.db.compact_revision
        /\ db'.applied_index = db.applied_index + 1
        /\ db'.revision = IF tx.used THEN tx.next ELSE db.revision
    BY <1>2, <1>3 DEF DbFields
  <1> QED
    BY <1>1, <1>4 DEF Commit, NoTx

LEMMA CommitInv ==
    ASSUME IInv, Commit PROVE IInv'
  <1> DEFINE m == db'.revision
  <1>1. TxInv /\ DbInv
    BY CommitFields
  <1>2. /\ db.revision \in Nat /\ tx.next = db.revision + 1 /\ tx.db.revision = db.revision
        /\ tx.used \in BOOLEAN /\ (tx.used <=> tx.sub > 0) /\ tx.sub \in Nat
        /\ db.applied_index < MaxIndex /\ db.applied_index \in 0 .. MaxIndex
    BY <1>1 DEF TxInv, DbInv, TxShape, View, ShapeOf, Numbered
  <1>3. Contents(tx.db.kv) \in SUBSET KeyValue
    BY <1>1 DEF TxInv, View, Numbered, Contents, KeyValue, current_in, Newest
  <1>4. db'.applied_index \in 0 .. MaxIndex
    BY <1>2, MaxIndexIsNat, CommitFields
  <1>5. past \in Seq(SUBSET KeyValue) /\ Len(past) = db.revision
    BY <1>1 DEF DbInv
  <1>6. /\ m \in Nat /\ past' \in Seq(SUBSET KeyValue) /\ Len(past') = m
        /\ \/ tx.sub = 0 /\ m = tx.db.revision /\ past' = past
           \/ m = tx.next /\ (\A r \in Nat : 0 < r /\ r < tx.next => past'[r] = past[r])
              /\ past'[tx.next] = Contents(tx.db.kv)
    <2>1. CASE tx.used
      <3>1. m = tx.next /\ past' = Append(past, Contents(tx.db.kv))
        BY <2>1, CommitFields
      <3> QED
        BY <3>1, <1>2, <1>3, <1>5, AppendProperties
    <2>2. CASE ~tx.used
      <3>1. m = db.revision /\ past' = past
        BY <2>2, CommitFields
      <3> QED
        BY <2>2, <3>1, <1>2, <1>5
    <2> QED
      BY <2>1, <2>2
  <1>7. View(db', m + 1, 0, live', past')
    <2>1. View(tx.db, tx.next, tx.sub, live', past)
      BY <1>1, CommitFields DEF TxInv
    <2> HIDE DEF m
    <2>2. db'.revision = m
      BY DEF m
    <2> QED
      BY <1>4, <1>6, <2>1, <2>2, CommitFields, CommitView
  <1> QED
    BY <1>6, <1>7, CommitFields DEF IInv, DbInv

LEMMA InitInv ==
    ASSUME Init PROVE IInv
  <1>1. /\ DbFields \subseteq DOMAIN db
        /\ db.kv = {} /\ db.lease = <<>> /\ db.member = {} /\ db.revision = 1
        /\ db.compact_revision = 0 /\ db.applied_index = 0
        /\ live = {} /\ past = <<{}>> /\ tx.open = FALSE
    BY DEF Init, DbFields, NoTx
  <1>2. ShapeOf(db, 2)
    <2>1. LeasesOK(db)
      BY <1>1 DEF LeasesOK
    <2> QED
      BY <1>1, <2>1, MaxIndexIsNat DEF ShapeOf
  <1>3. Numbered(db.kv, 2, 0) /\ Dense(db.kv, 2, 0)
    BY <1>1, FS_EmptySet DEF Numbered, Dense
  <1>4. Compacted(db) /\ Announced(db, live)
    BY <1>1 DEF Compacted, Announced
  <1>5. \A r : ReadsAt(db, r) = {}
    BY <1>1 DEF ReadsAt, range_in, Newest
  <1>6. past \in Seq(SUBSET KeyValue) /\ Len(past) = 1 /\ past[1] = {}
    BY <1>1
  <1>7. History(db, past)
    <2>1. \A r \in Nat : 0 < r /\ r <= 1 => r = 1
      OBVIOUS
    <2> QED
      BY <1>1, <1>5, <1>6, <2>1 DEF History
  <1>8. View(db, db.revision + 1, 0, live, past)
    BY <1>1, <1>2, <1>3, <1>4, <1>7 DEF View
  <1> QED
    BY <1>1, <1>6, <1>8 DEF IInv, DbInv

LEMMA NextInv ==
    ASSUME IInv, [Next]_vars PROVE IInv'
  <1>1. CASE UNCHANGED vars
    BY <1>1 DEF vars, IInv, DbInv, TxInv, TxShape, TxRows, TxCompacts, TxRevokes
  <1>2. CASE Next
    <2>1. ASSUME NEW cmd \in Commands, Begin(cmd) PROVE IInv'
      BY <2>1, BeginInv
    <2>2. CASE Run
      BY <2>2, apply_putInv, apply_deleteInv, apply_rangeInv, apply_compactInv, lease_grantInv,
         lease_keep_aliveInv, revoke_leaseInv, set_memberInv, remove_memberInv DEF Run
    <2>3. CASE Commit
      BY <2>3, CommitInv
    <2>4. CASE Crash
      BY <2>4, RollbackInv DEF Crash
    <2> QED
      BY <1>2, <2>1, <2>2, <2>3, <2>4 DEF Next
  <1> QED
    BY <1>1, <1>2

-----------------------------------------------------------------------------
(* The theorems.                                                           *)

(* What is committed and what the open transaction sees are views of the   *)
(* same history, one the continuation of the other (Store::apply_at).      *)
THEOREM TransactionsExtendTheHistory == Spec => []IInv
  <1>1. Init => IInv
    BY InitInv
  <1>2. IInv /\ [Next]_vars => IInv'
    BY NextInv
  <1> QED
    BY <1>1, <1>2, PTL DEF Spec

(* The database and the Writer keep their shape, and every row a           *)
(* transaction adds is numbered at the revision it will commit.            *)
THEOREM TypeCorrect == Spec => []TypeOK
  <1>1. IInv => TypeOK
    <2> SUFFICES ASSUME IInv PROVE TypeOK
      OBVIOUS
    <2>1. DbOK(db)
      <3>1. Numbered(db.kv, db.revision + 1, 0) /\ ShapeOf(db, db.revision + 1)
        BY DEF IInv, DbInv, View
      <3>2. \A r \in db.kv : r.rev <= db.revision
        BY <3>1 DEF Numbered, ShapeOf, Row
      <3> QED
        BY <3>1, <3>2 DEF DbOK, Numbered, ShapeOf, LeasesOK
    <2>2. Len(past) = db.revision
      BY DEF IInv, DbInv
    <2>3. ASSUME tx.open
          PROVE  /\ tx.db.kv \subseteq Row
                 /\ tx.next = db.revision + 1
                 /\ tx.db.revision = db.revision
                 /\ tx.used <=> tx.sub > 0
                 /\ \A r \in tx.db.kv \ db.kv : r.rev = tx.next /\ r.sub < tx.sub
      <3>1. Numbered(tx.db.kv, tx.next, tx.sub) /\ TxShape /\ TxRows
        BY <2>3 DEF IInv, TxInv, View
      <3>2. \A r \in tx.db.kv \ db.kv : r.rev = tx.next /\ r.sub < tx.sub
        BY <3>1 DEF Numbered, TxRows
      <3> QED
        BY <3>1, <3>2 DEF Numbered, TxShape
    <2> QED
      BY <2>1, <2>2, <2>3 DEF TypeOK
  <1> QED
    BY <1>1, TransactionsExtendTheHistory, PTL

(* A read at any revision that is not compacted answers what was current    *)
(* then, whatever was written or compacted since (Store::range).           *)
THEOREM ReadsAreRepeatable == Spec => []HistoryStable
  <1>1. IInv => HistoryStable
    <2> SUFFICES ASSUME IInv PROVE HistoryStable
      OBVIOUS
    <2>1. History(db, past) /\ db.revision \in Nat /\ db.revision > 0
          /\ db.compact_revision \in Nat /\ db.compact_revision <= db.revision
      BY DEF IInv, DbInv, View, ShapeOf
    <2>2. \A r \in Nat : r > 0 => range(db, Keys, r) = ReadsAt(db, r)
      BY DEF range, ReadsAt
    <2>3. range(db, Keys, 0) = ReadsAt(db, db.revision)
      BY DEF range, ReadsAt
    <2>4. ASSUME NEW r \in db.compact_revision + 1 .. db.revision
          PROVE  range(db, Keys, r) = past[r]
      <3>1. r \in Nat /\ r > 0 /\ db.compact_revision < r /\ r <= db.revision
        BY <2>1
      <3> QED
        BY <2>1, <2>2, <3>1 DEF History
    <2> QED
      BY <2>1, <2>3, <2>4 DEF History, HistoryStable
  <1> QED
    BY <1>1, TransactionsExtendTheHistory, PTL

(* A replay from any revision events_since accepts tells what the hub was   *)
(* told, event for event.                                                  *)
THEOREM ReplayTellsWhatWasPublished == Spec => []ReplayMatchesLive
  <1>1. IInv => ReplayMatchesLive
    <2> SUFFICES ASSUME IInv PROVE ReplayMatchesLive
      OBVIOUS
    <2> DEFINE told(e) == [rev |-> e.rev, sub |-> e.sub, delete |-> e.delete, kv |-> e.kv]
               c == db.compact_revision
    <2>1. Announced(db, live) /\ \A x \in db.kv : x.rev \in Nat
      BY DEF IInv, DbInv, View, Numbered, Row
    <2>2. \A x, P, Q : told(EventOf(x, P)) = told(EventOf(x, Q)) /\ EventOf(x, P).rev = x.rev
      BY DEF EventOf
    <2>3. \A x \in db.kv : x.rev > c <=> c < x.rev
      BY <2>1 DEF IInv, DbInv, View, ShapeOf
    <2>4. \A e \in live : e.rev > c <=> c < e.rev
      BY <2>1 DEF IInv, DbInv, View, ShapeOf, Announced
    <2>5. ASSUME NEW f \in events_since(db, c)
          PROVE  \E e \in {x \in live : x.rev > c} : told(e) = told(f)
      <3>1. PICK x \in db.kv : x.rev > c /\ f = EventOf(x, row_at(db.kv, x.key, x.prev))
        BY DEF events_since
      <3>2. PICK e \in live : e = EventOf(x, e.prev)
        BY <3>1, <2>1, <2>3 DEF Announced
      <3>3. told(e) = told(f) /\ e.rev = x.rev
        <4> HIDE DEF told
        <4> QED
          BY <2>2, <3>1, <3>2
      <3> QED
        BY <3>1, <3>3
    <2>6. ASSUME NEW e \in live, e.rev > c
          PROVE  \E f \in events_since(db, c) : told(f) = told(e)
      <3>1. PICK x \in db.kv : e = EventOf(x, e.prev)
        BY <2>1, <2>4, <2>6 DEF Announced
      <3> DEFINE f == EventOf(x, row_at(db.kv, x.key, x.prev))
      <3>2. x.rev = e.rev /\ told(f) = told(e)
        <4> HIDE DEF told
        <4> QED
          BY <2>2, <3>1
      <3>3. f \in events_since(db, c)
        BY <2>6, <3>2 DEF events_since
      <3> QED
        BY <3>2, <3>3
    <2> HIDE DEF told
    <2>7. {told(e) : e \in events_since(db, c)} = {told(e) : e \in {x \in live : x.rev > c}}
      BY <2>5, <2>6
    <2> QED
      BY <2>7 DEF ReplayMatchesLive, told
  <1> QED
    BY <1>1, TransactionsExtendTheHistory, PTL

LEMMA EventFields ==
    ASSUME NEW r, NEW P, NEW e, e = EventOf(r, P)
    PROVE  e.rev = r.rev /\ e.sub = r.sub /\ e.kv.key = r.key
  <1>1. e.rev = r.rev /\ e.sub = r.sub
    BY DEF EventOf
  <1>2. CASE r.deleted
    <2>1. e.kv = [ZeroKv EXCEPT !.key = r.key, !.mod = r.rev]
      BY <1>2 DEF EventOf
    <2> QED
      BY <1>1, <2>1 DEF ZeroKv
  <1>3. CASE ~r.deleted
    <2>1. e.kv = Kv(r)
      BY <1>3 DEF EventOf
    <2> QED
      BY <1>1, <2>1 DEF Kv
  <1> QED
    BY <1>2, <1>3

(* And with the same prev_kv, but where the superseded key was written      *)
(* twice in one transaction (Store::row_at).                               *)
THEOREM ReplayKeepsPrevKv == Spec => []ReplayServesPrev
  <1>1. IInv => ReplayServesPrev
    <2> SUFFICES ASSUME IInv, NEW e \in live, e.rev > db.compact_revision,
                        \A p \in e.prev : WrittenOnce(p.key, p.mod)
                 PROVE  e \in events_since(db, db.compact_revision)
      BY DEF ReplayServesPrev
    <2> DEFINE c == db.compact_revision
               K == db.kv
    <2>1. /\ Announced(db, live) /\ Compacted(db) /\ Numbered(K, db.revision + 1, 0)
          /\ c \in Nat /\ e.rev \in Nat
          /\ \A x \in K : x \in Row /\ x.rev \in Nat /\ x.sub \in Nat /\ x.rev > 0
      <3>1. ShapeOf(db, db.revision + 1) /\ Announced(db, live) /\ Compacted(db)
            /\ Numbered(K, db.revision + 1, 0)
        BY DEF IInv, DbInv, View
      <3>2. c \in Nat /\ e.rev \in Nat
        BY <3>1 DEF ShapeOf, Announced
      <3>3. \A x \in K : x \in Row /\ x.rev \in Nat /\ x.sub \in Nat /\ x.rev > 0
        BY <3>1 DEF Numbered, Row
      <3> QED
        BY <3>1, <3>2, <3>3
    <2>2. PICK x \in K : e = EventOf(x, e.prev) /\ PrevOK(K, x, e.prev)
      BY <2>1 DEF Announced
    <2>3. x.rev = e.rev
      BY <2>2 DEF EventOf
    <2>4. row_at(K, x.key, x.prev) = e.prev
      <3>1. CASE e.prev = {} /\ x.prev = 0
        BY <3>1, <2>1 DEF row_at
      <3>2. ASSUME NEW p \in K, e.prev = {Kv(p)}, Superseded(K, x, p)
            PROVE  row_at(K, x.key, x.prev) = e.prev
        <4>1. WrittenOnce(p.key, p.rev)
          BY <3>2 DEF Kv
        <4>2. ASSUME NEW q \in K, q.key = p.key, q.rev = p.rev PROVE q = p
          <5>1. CASE p.rev <= c
            BY <5>1, <4>2, <2>1 DEF Compacted
          <5>2. CASE ~(p.rev <= c)
            <6>1. c < p.rev /\ c < q.rev
              BY <5>2, <4>2, <2>1
            <6>2. PICK f \in live : f = EventOf(p, f.prev)
              BY <6>1, <2>1 DEF Announced
            <6>3. PICK g \in live : g = EventOf(q, g.prev)
              BY <6>1, <2>1 DEF Announced
            <6>4. f.rev = p.rev /\ f.sub = p.sub /\ f.kv.key = p.key
              BY <6>2, EventFields
            <6>5. g.rev = q.rev /\ g.sub = q.sub /\ g.kv.key = q.key
              BY <6>3, EventFields
            <6>6. f = g
              BY <4>1, <4>2, <6>4, <6>5 DEF WrittenOnce
            <6> QED
              BY <2>1, <4>2, <6>4, <6>5, <6>6 DEF Numbered
          <5> QED
            BY <5>1, <5>2
        <4>3. {r \in K : r.key = x.key /\ r.rev = x.prev} = {p}
          BY <3>2, <4>2 DEF Superseded
        <4>4. p.sub <= p.sub /\ ~p.deleted
          BY <2>1, <3>2 DEF Superseded
        <4>5. row_at(K, x.key, x.prev) = {Kv(p)}
          BY <4>3, <4>4 DEF row_at
        <4> QED
          BY <4>5, <3>2
      <3> QED
        BY <2>2, <3>1, <3>2 DEF PrevOK
    <2> QED
      BY <2>2, <2>3, <2>4 DEF events_since
  <1> QED
    BY <1>1, TransactionsExtendTheHistory, PTL

(* Whatever removes a lease removes every key that it holds (revoke_lease). *)
THEOREM LeasesTakeTheirKeys == Spec => LeaseRevocationComplete
  <1>1. IInv /\ [Next]_vars =>
            [\A id \in DOMAIN db.lease \ DOMAIN db'.lease : lease_keys(db'.kv, id) = {}]_vars
    <2> SUFFICES ASSUME IInv, Next, NEW id \in DOMAIN db.lease \ DOMAIN db'.lease
                 PROVE  lease_keys(db'.kv, id) = {}
      BY DEF vars
    <2>1. CASE Commit
      BY <2>1, CommitFields DEF TxInv, TxRevokes
    <2>2. CASE ~Commit
      <3>1. db' = db
        BY <2>2 DEF Next, Begin, Run, Crash, Rollback, Step, apply_put, apply_delete, apply_range,
           apply_compact, lease_grant, lease_keep_alive, revoke_lease, set_member, remove_member
      <3> QED
        BY <3>1
    <2> QED
      BY <2>1, <2>2
  <1> QED
    BY <1>1, TransactionsExtendTheHistory, PTL DEF Spec, LeaseRevocationComplete

-----------------------------------------------------------------------------
(* The refinement of EventLog: what its variables are in this state.       *)

LogOf(d) == {EventOfRow(r) : r \in {x \in d.kv : x.rev > d.compact_revision}}

LEMMA EventOfRowFields ==
    ASSUME NEW r, NEW e, e = EventOfRow(r)
    PROVE  /\ e.rev = r.rev /\ e.sub = r.sub
           /\ r \in Row => e \in Log!Event
  BY DEF EventOfRow, Row, Log!Event

LEMMA LogOfMembers ==
    ASSUME NEW d, NEW n, NEW s, Numbered(d.kv, n, s), d.compact_revision \in Nat
    PROVE  /\ \A r \in d.kv : d.compact_revision < r.rev => EventOfRow(r) \in LogOf(d)
           /\ \A e \in LogOf(d) : \E r \in d.kv :
                d.compact_revision < r.rev /\ e = EventOfRow(r) /\ e.rev = r.rev /\ e.sub = r.sub
  <1>1. \A r \in d.kv : r.rev \in Nat
    BY DEF Numbered, Row
  <1> QED
    BY <1>1, EventOfRowFields DEF LogOf

(* The transaction wrote rows: one revision's batch.                       *)
LEMMA CommitOfWrites ==
    ASSUME IInv, Commit, tx.used
    PROVE  /\ LogOf(db)' = LogOf(db) \cup (LogOf(db)' \ LogOf(db))
           /\ Log!IsBatch(LogOf(db)' \ LogOf(db), db.revision + 1)
           /\ db'.revision = db.revision + 1
           /\ db'.compact_revision = db.compact_revision
  <1> DEFINE n == db.revision + 1
             c == db.compact_revision
             L == LogOf(db)
             M == LogOf(db')
             N == {EventOfRow(r) : r \in {x \in tx.db.kv : x.rev = n}}
  <1>1. /\ TxRows /\ Numbered(db.kv, n, 0) /\ Numbered(tx.db.kv, n, tx.sub) /\ Dense(tx.db.kv, n, tx.sub)
        /\ tx.next = n /\ tx.sub > 0 /\ db.revision \in Nat /\ c \in Nat /\ c <= db.revision
        /\ tx.db.compact_revision \in Nat
    BY CommitFields DEF TxInv, DbInv, View, TxShape, ShapeOf
  <1>2. tx.db.compact_revision = c
    <2>1. c <= tx.db.compact_revision /\ ~(c < tx.db.compact_revision)
      BY CommitFields DEF TxInv, TxCompacts
    <2> QED
      BY <2>1, <1>1
  <1>3. db'.kv = tx.db.kv /\ db'.compact_revision = c /\ db'.revision = n
    BY <1>1, <1>2, CommitFields
  <1>4. /\ \A r \in db.kv : r.rev \in Nat /\ r.rev < n
        /\ \A r \in tx.db.kv : r.rev \in Nat /\ r \in Row /\ r.sub \in Nat
        /\ \A r \in tx.db.kv : r.rev < n \/ (r.rev = n /\ r.sub < tx.sub)
    <2> HIDE DEF n
    <2>1. \A r \in Row : r.rev \in Nat /\ r.sub \in Nat /\ ~(r.sub < 0)
      BY DEF Row
    <2> QED
      BY <1>1, <2>1 DEF Numbered
  <1>5. /\ \A r \in db.kv : c < r.rev => EventOfRow(r) \in L
        /\ \A e \in L : \E r \in db.kv : c < r.rev /\ e = EventOfRow(r) /\ e.rev = r.rev
    BY <1>1, LogOfMembers
  <1>6. /\ \A r \in tx.db.kv : c < r.rev => EventOfRow(r) \in M
        /\ \A e \in M : \E r \in tx.db.kv : c < r.rev /\ e = EventOfRow(r) /\ e.rev = r.rev
    <2>1. Numbered(db'.kv, n, tx.sub) /\ db'.compact_revision \in Nat
      BY <1>1, <1>3
    <2>2. /\ \A r \in db'.kv : db'.compact_revision < r.rev => EventOfRow(r) \in LogOf(db')
          /\ \A e \in LogOf(db') : \E r \in db'.kv :
                db'.compact_revision < r.rev /\ e = EventOfRow(r) /\ e.rev = r.rev
      BY <2>1, LogOfMembers
    <2> QED
      BY <1>3, <2>2
  <1>7. /\ \A r \in tx.db.kv : r.rev = n => EventOfRow(r) \in N
        /\ \A e \in N : \E r \in tx.db.kv : r.rev = n /\ e = EventOfRow(r) /\ e.rev = n /\ e.sub = r.sub
    BY EventOfRowFields
  <1> HIDE DEF L, M, N
  <1>8. L \subseteq M
    BY <1>1, <1>2, <1>4, <1>5, <1>6 DEF TxRows
  <1>9. M \subseteq L \cup N
    <2> SUFFICES ASSUME NEW e \in M PROVE e \in L \cup N
      OBVIOUS
    <2>1. PICK r \in tx.db.kv : c < r.rev /\ e = EventOfRow(r)
      BY <1>6
    <2>2. r.rev < n => r \in db.kv
      BY <1>1, <2>1 DEF TxRows
    <2> QED
      BY <1>4, <1>5, <1>7, <2>1, <2>2
  <1>10. N \subseteq M
    <2>1. c < n
      BY <1>1
    <2> QED
      BY <2>1, <1>6, <1>7
  <1>11. \A e \in N : e \notin L
    BY <1>4, <1>5, <1>7
  <1>12. M \ L = N
    BY <1>9, <1>10, <1>11
  <1>13. Log!IsBatch(N, n)
    <2>1. N # {}
      <3>1. \E r \in tx.db.kv : r.rev = n /\ r.sub = 0
        BY <1>1 DEF Dense
      <3> QED
        BY <3>1, <1>7
    <2>2. N \subseteq Log!Event
      BY <1>4, <1>7, EventOfRowFields
    <2>3. ASSUME NEW e \in N, NEW f \in N, e.sub = f.sub PROVE e = f
      <3>1. PICK r \in tx.db.kv : r.rev = n /\ e = EventOfRow(r) /\ e.sub = r.sub
        BY <1>7
      <3>2. PICK s \in tx.db.kv : s.rev = n /\ f = EventOfRow(s) /\ f.sub = s.sub
        BY <1>7
      <3>3. r = s
        BY <1>1, <2>3, <3>1, <3>2 DEF Numbered
      <3> QED
        BY <3>1, <3>2, <3>3
    <2>4. ASSUME NEW e \in N, e.sub > 0 PROVE \E f \in N : f.sub = e.sub - 1
      <3>1. PICK r \in tx.db.kv : r.rev = n /\ e.sub = r.sub
        BY <1>7
      <3>2. e.sub - 1 \in Nat /\ e.sub - 1 < tx.sub
        BY <1>1, <1>4, <2>4, <3>1 DEF Numbered
      <3>3. PICK s \in tx.db.kv : s.rev = n /\ s.sub = e.sub - 1
        BY <1>1, <3>2 DEF Dense
      <3>4. EventOfRow(s) \in N /\ EventOfRow(s).sub = s.sub
        BY <1>7, <3>3, EventOfRowFields
      <3> QED
        BY <3>3, <3>4
    <2> QED
      BY <1>7, <2>1, <2>2, <2>3, <2>4 DEF Log!IsBatch
  <1> QED
    BY <1>3, <1>8, <1>12, <1>13 DEF L, M

(* It wrote none: what it did to the log is a compaction, or nothing.      *)
LEMMA CommitOfNoWrites ==
    ASSUME IInv, Commit, ~tx.used
    PROVE  LET c == db.compact_revision
           IN  /\ db'.revision = db.revision
               /\ \/ db'.compact_revision = c /\ LogOf(db)' = LogOf(db)
                  \/ /\ db'.compact_revision \in c + 1 .. db.revision
                     /\ LogOf(db)' = {e \in LogOf(db) : e.rev > db'.compact_revision}
  <1> DEFINE n == db.revision + 1
             c == db.compact_revision
             k == tx.db.compact_revision
             L == LogOf(db)
             M == LogOf(db')
  <1>1. /\ TxRows /\ TxCompacts /\ Numbered(db.kv, n, 0) /\ Numbered(tx.db.kv, n, tx.sub)
        /\ tx.next = n /\ ~(tx.sub > 0) /\ tx.sub \in Nat /\ db.revision \in Nat /\ c \in Nat
        /\ k \in Nat /\ k <= db.revision /\ c <= k
    BY CommitFields DEF TxInv, DbInv, View, TxShape, ShapeOf, Numbered, TxCompacts
  <1>2. db'.kv = tx.db.kv /\ db'.compact_revision = k /\ db'.revision = db.revision
    BY CommitFields
  <1>3. /\ \A r \in db.kv : r.rev \in Nat
        /\ \A r \in tx.db.kv : r.rev \in Nat /\ r.rev < n /\ r \in db.kv
    BY <1>1 DEF Numbered, Row, TxRows
  <1>4. CASE k = c
    <2>1. tx.db.kv = db.kv
      BY <1>1, <1>3, <1>4 DEF TxRows
    <2> QED
      BY <1>2, <1>4, <2>1 DEF LogOf
  <1>5. CASE k # c
    <2>1. /\ \A r \in db.kv : c < r.rev => EventOfRow(r) \in L
          /\ \A e \in L : \E r \in db.kv : c < r.rev /\ e = EventOfRow(r) /\ e.rev = r.rev
      BY <1>1, LogOfMembers
    <2>2. /\ \A r \in tx.db.kv : k < r.rev => EventOfRow(r) \in M
          /\ \A e \in M : \E r \in tx.db.kv : k < r.rev /\ e = EventOfRow(r) /\ e.rev = r.rev
      <3>1. Numbered(db'.kv, n, tx.sub) /\ db'.compact_revision \in Nat
        BY <1>1, <1>2
      <3>2. /\ \A r \in db'.kv : db'.compact_revision < r.rev => EventOfRow(r) \in LogOf(db')
            /\ \A e \in LogOf(db') : \E r \in db'.kv :
                  db'.compact_revision < r.rev /\ e = EventOfRow(r) /\ e.rev = r.rev
        BY <3>1, LogOfMembers
      <3> QED
        BY <1>2, <3>2
    <2> HIDE DEF L, M
    <2>3. ASSUME NEW e \in M PROVE e \in L /\ e.rev > k
      <3>1. PICK r \in tx.db.kv : k < r.rev /\ e = EventOfRow(r) /\ e.rev = r.rev
        BY <2>2
      <3>2. c < r.rev /\ e.rev > k /\ r \in db.kv
        BY <1>1, <1>3, <3>1
      <3> QED
        BY <2>1, <3>1, <3>2
    <2>4. ASSUME NEW e \in L, e.rev > k PROVE e \in M
      <3>1. PICK r \in db.kv : e = EventOfRow(r) /\ e.rev = r.rev
        BY <2>1
      <3>2. k < r.rev
        BY <1>1, <1>3, <2>4, <3>1
      <3>3. r \in tx.db.kv
        BY <1>1, <3>2 DEF TxRows
      <3> QED
        BY <2>2, <3>1, <3>2, <3>3
    <2>5. M = {e \in L : e.rev > k}
      BY <2>3, <2>4
    <2>6. k \in c + 1 .. db.revision
      BY <1>1, <1>5
    <2> QED
      BY <1>2, <2>5, <2>6 DEF L, M
  <1> QED
    BY <1>4, <1>5

(* Every committed transaction is one batch at the next revision, one      *)
(* compaction, or no step of the log (Store::apply_at).                    *)
THEOREM StoreIsAnEventLog == Spec => ImplementsEventLog
  <1>1. Init => Log!LogInit
    <2> SUFFICES ASSUME Init PROVE Log!LogInit
      OBVIOUS
    <2>1. db.kv = {} /\ db.revision = 1 /\ db.compact_revision = 0
      BY DEF Init
    <2> QED
      BY <2>1 DEF Log!LogInit
  <1>2. IInv /\ [Next]_vars => [Log!LogNext]_(Log!logVars)
    <2> SUFFICES ASSUME IInv, [Next]_vars PROVE [Log!LogNext]_(Log!logVars)
      OBVIOUS
    <2>1. CASE Commit /\ tx.used
      BY <2>1, CommitOfWrites DEF LogOf, Log!LogNext, Log!WriteBatch
    <2>2. CASE Commit /\ ~tx.used
      BY <2>2, CommitOfNoWrites DEF LogOf, Log!LogNext, Log!Compact, Log!logVars
    <2>3. CASE ~Commit
      <3>1. db' = db
        BY <2>3 DEF vars, Next, Begin, Run, Crash, Rollback, Step, apply_put, apply_delete, apply_range,
           apply_compact, lease_grant, lease_keep_alive, revoke_lease, set_member, remove_member
      <3> QED
        BY <3>1 DEF Log!logVars
    <2> QED
      BY <2>1, <2>2, <2>3
  <1> QED
    BY <1>1, <1>2, TransactionsExtendTheHistory, PTL DEF Spec, ImplementsEventLog, Log!LogSpec

-----------------------------------------------------------------------------
(* The lives of a key.  A transaction that puts a key, deletes it and puts  *)
(* it again writes two lives at one revision, which is then the            *)
(* create_revision of both: what follows is of commands that do not.       *)

OneLifeIn(q) ==
    \A i, j, k \in DOMAIN q :
        /\ i < j /\ j < k
        /\ q[i].op = "put" /\ q[j].op = "delete" /\ q[k].op = "put"
        /\ q[k].key = q[i].key
        => q[i].key \notin q[j].range

OneLifePerTxn == \A c \in Commands : c.op = "txn" => OneLifeIn(c.success) /\ OneLifeIn(c.failure)

LivesOf(K) ==
    \A a, b \in K : ~a.deleted /\ ~b.deleted /\ a.key = b.key /\ Newer(b, a) =>
        \/ a.create = b.create /\ a.version < b.version
        \/ a.rev < b.create

(* What is left to run, q, after the rows of revision n that K has.        *)
PutIsNotRepeated(K, n, q) ==
    \A a \in K : a.rev = n /\ ~a.deleted =>
        \A i, j \in DOMAIN q :
            i < j /\ q[i].op = "delete" /\ q[j].op = "put" /\ q[j].key = a.key => a.key \notin q[i].range

DeadStaysDead(K, n, q) ==
    \A a, b \in K :
        a.key = b.key /\ a.rev = n /\ b.rev = n /\ ~a.deleted /\ b.deleted /\ Newer(b, a) =>
            \A i \in DOMAIN q : q[i].op = "put" => q[i].key # a.key

LifeInv ==
    /\ LivesOf(db.kv)
    /\ tx.open => /\ LivesOf(tx.db.kv)
                  /\ OneLifeIn(tx.todo)
                  /\ PutIsNotRepeated(tx.db.kv, tx.next, tx.todo)
                  /\ DeadStaysDead(tx.db.kv, tx.next, tx.todo)

LEMMA TailIsLater ==
    ASSUME NEW q \in Seq(Operation), q # <<>>
    PROVE  \A i \in DOMAIN Tail(q) : i \in Int /\ i + 1 \in DOMAIN q /\ 1 < i + 1 /\ Tail(q)[i] = q[i + 1]
  BY TodoHead

(* The rows shrink, or what is left to run does.                           *)
LEMMA LessToRun ==
    ASSUME IInv, LifeInv, tx.open, UNCHANGED <<db, live, past>>, tx'.next = tx.next,
           tx'.db.kv \subseteq tx.db.kv,
           \/ tx.todo # <<>> /\ tx'.todo = Tail(tx.todo)
           \/ DOMAIN tx'.todo = DOMAIN tx.todo /\ \A i \in DOMAIN tx.todo : tx.todo[i].op = "revoke" /\ tx'.todo[i].op = "revoke"
    PROVE  LifeInv'
  <1>1. tx.todo \in Seq(Operation)
    BY DEF IInv, TxInv, TxShape
  <1>2. LivesOf(db.kv)' /\ LivesOf(tx.db.kv)'
    BY DEF LifeInv, LivesOf
  <1>3. CASE tx.todo # <<>> /\ tx'.todo = Tail(tx.todo)
    <2>1. \A i \in DOMAIN tx'.todo : i \in Int /\ i + 1 \in DOMAIN tx.todo /\ tx'.todo[i] = tx.todo[i + 1]
      BY <1>1, <1>3, TailIsLater
    <2>2. OneLifeIn(tx.todo)'
      BY <2>1 DEF LifeInv, OneLifeIn
    <2>3. PutIsNotRepeated(tx.db.kv, tx.next, tx.todo)'
      BY <2>1 DEF LifeInv, PutIsNotRepeated
    <2>4. DeadStaysDead(tx.db.kv, tx.next, tx.todo)'
      BY <2>1 DEF LifeInv, DeadStaysDead
    <2> QED
      BY <1>2, <2>2, <2>3, <2>4 DEF LifeInv
  <1>4. CASE /\ DOMAIN tx'.todo = DOMAIN tx.todo
             /\ \A i \in DOMAIN tx.todo : tx.todo[i].op = "revoke" /\ tx'.todo[i].op = "revoke"
    BY <1>2, <1>4 DEF LifeInv, OneLifeIn, PutIsNotRepeated, DeadStaysDead
  <1> QED
    BY <1>3, <1>4

(* A put goes on with the life of its key, or starts one at a revision that *)
(* nothing of the key has.                                                 *)
LEMMA PutLife ==
    ASSUME IInv, LifeInv, tx.open, tx.todo # <<>>, Head(tx.todo).op = "put",
           NEW x, NextRow(x, tx.next, tx.sub), PutOver(x)
    PROVE  LivesOf(tx.db.kv \cup {x})
  <1> DEFINE K == tx.db.kv
             prev == current_in(K, {x.key})
  <1>1. /\ Numbered(K, tx.next, tx.sub) /\ tx.todo \in Seq(Operation) /\ LivesOf(K)
        /\ K \subseteq Row /\ \A r \in K : r.rev \in Nat /\ r.create \in Nat /\ r.version \in Nat
    BY DEF IInv, TxInv, View, TxShape, LifeInv, Numbered, Row
  <1>2. x \in Row /\ x.rev = tx.next /\ ~Newer(x, x) /\ \A a \in K : Newer(x, a) /\ ~Newer(a, x)
    BY <1>1, NextIsNewer, NewerIsAnOrder DEF NextRow
  <1>3. ASSUME NEW a \in K, ~a.deleted, a.key = x.key
        PROVE  (a.create = x.create /\ a.version < x.version) \/ a.rev < x.create
    <2>1. CASE prev = {}
      <3>1. x.create = tx.next
        BY <2>1 DEF PutOver
      <3>2. PICK b \in {r \in K : r.key = x.key} : \A r \in {s \in K : s.key = x.key} : ~Newer(r, b)
        <4>1. {r \in K : r.key = x.key} \in SUBSET K /\ {r \in K : r.key = x.key} # {}
          BY <1>3
        <4> QED
          BY <1>1, <4>1, SomeRowIsNewest
      <3>3. b.deleted
        BY <2>1, <3>2 DEF current_in, Newest
      <3>4. Newer(b, a)
        <4>1. ~Newer(a, b) /\ a # b
          BY <1>3, <3>2, <3>3
        <4> QED
          BY <1>1, <1>3, <3>2, <4>1, NewerIsAnOrder DEF Numbered
      <3>5. ASSUME a.rev = tx.next PROVE FALSE
        <4>1. b.rev = tx.next
          BY <1>1, <3>2, <3>4, <3>5 DEF Newer, Numbered
        <4>2. 1 \in DOMAIN tx.todo /\ tx.todo[1].op = "put" /\ tx.todo[1].key = x.key
          BY <1>1, TodoHead DEF PutOver
        <4> QED
          BY <1>3, <3>2, <3>3, <3>4, <3>5, <4>1, <4>2 DEF LifeInv, DeadStaysDead
      <3> QED
        BY <1>1, <1>3, <3>1, <3>5 DEF Numbered
    <2>2. CASE prev # {}
      <3>1. PICK p \in prev : x.create = p.create /\ x.version = p.version + 1
        BY <2>2 DEF PutOver
      <3>2. p \in K /\ p.key = x.key /\ ~p.deleted /\ ~Newer(a, p)
        BY <1>1, <1>3, <3>1, CurrentRows
      <3>3. CASE a = p
        BY <1>1, <3>1, <3>2, <3>3
      <3>4. CASE a # p
        <4>1. Newer(p, a)
          BY <1>1, <1>3, <3>2, <3>4, NewerIsAnOrder DEF Numbered
        <4>2. (a.create = p.create /\ a.version < p.version) \/ a.rev < p.create
          BY <1>1, <1>3, <3>2, <4>1 DEF LivesOf
        <4> QED
          BY <1>1, <1>3, <3>1, <3>2, <4>2
      <3> QED
        BY <3>3, <3>4
    <2> QED
      BY <2>1, <2>2
  <1> QED
    BY <1>1, <1>2, <1>3 DEF LivesOf

LEMMA PutLifeInv ==
    ASSUME IInv, LifeInv, apply_put PROVE LifeInv'
  <1>1. tx.open /\ tx.todo # <<>> /\ Head(tx.todo).op = "put"
    BY DEF apply_put, Op
  <1>2. CASE Rollback
    BY <1>2 DEF Rollback, NoTx, LifeInv
  <1>3. ASSUME NEW x, NEW P, Wrote(x, P), NextRow(x, tx.next, tx.sub), PutOver(x),
               tx'.todo = Tail(tx.todo)
        PROVE  LifeInv'
    <2>1. /\ tx'.db.kv = tx.db.kv \cup {x} /\ tx'.next = tx.next /\ db' = db
          /\ x.rev = tx.next /\ ~x.deleted /\ x.key = Head(tx.todo).key
      BY <1>3 DEF Wrote, NextRow, PutOver
    <2>2. /\ tx.todo \in Seq(Operation) /\ Head(tx.todo) = tx.todo[1] /\ 1 \in DOMAIN tx.todo
          /\ Numbered(tx.db.kv, tx.next, tx.sub)
      BY <1>1, TodoHead DEF IInv, TxInv, TxShape, View
    <2>3. \A i \in DOMAIN tx'.todo : i \in Int /\ i + 1 \in DOMAIN tx.todo /\ 1 < i + 1 /\ tx'.todo[i] = tx.todo[i + 1]
      BY <1>1, <1>3, <2>2, TailIsLater
    <2>4. LivesOf(db.kv)' /\ LivesOf(tx.db.kv)'
      BY <1>1, <1>3, <2>1, PutLife DEF LifeInv
    <2>5. OneLifeIn(tx.todo)'
      BY <1>1, <2>3 DEF LifeInv, OneLifeIn
    <2>6. PutIsNotRepeated(tx.db.kv, tx.next, tx.todo)'
      <3> SUFFICES ASSUME NEW a \in tx'.db.kv, a.rev = tx.next, ~a.deleted,
                          NEW i \in DOMAIN tx'.todo, NEW j \in DOMAIN tx'.todo, i < j,
                          tx'.todo[i].op = "delete", tx'.todo[j].op = "put", tx'.todo[j].key = a.key
                   PROVE  a.key \notin tx'.todo[i].range
        BY <2>1 DEF PutIsNotRepeated
      <3>1. /\ i + 1 \in DOMAIN tx.todo /\ j + 1 \in DOMAIN tx.todo /\ 1 < i + 1 /\ i + 1 < j + 1
            /\ tx'.todo[i] = tx.todo[i + 1] /\ tx'.todo[j] = tx.todo[j + 1]
        BY <2>3
      <3>2. CASE a \in tx.db.kv
        BY <1>1, <3>1, <3>2 DEF LifeInv, PutIsNotRepeated
      <3>3. CASE a = x
        BY <1>1, <2>1, <2>2, <3>1, <3>3 DEF LifeInv, OneLifeIn
      <3> QED
        BY <2>1, <3>2, <3>3
    <2>7. DeadStaysDead(tx.db.kv, tx.next, tx.todo)'
      <3> SUFFICES ASSUME NEW a \in tx'.db.kv, NEW b \in tx'.db.kv, a.key = b.key, a.rev = tx.next,
                          b.rev = tx.next, ~a.deleted, b.deleted, Newer(b, a),
                          NEW i \in DOMAIN tx'.todo, tx'.todo[i].op = "put"
                   PROVE  tx'.todo[i].key # a.key
        BY <2>1 DEF DeadStaysDead
      <3>1. b \in tx.db.kv
        BY <2>1
      <3>2. a \in tx.db.kv
        BY <1>3, <2>1, <2>2, <3>1, NextIsNewer
      <3> QED
        BY <1>1, <2>3, <3>1, <3>2 DEF LifeInv, DeadStaysDead
    <2> QED
      BY <2>4, <2>5, <2>6, <2>7 DEF LifeInv
  <1> QED
    BY <1>2, <1>3, apply_putInv

(* A deletion ends lives, and nothing that is left to run starts them again. *)
LEMMA DeleteLifeInv ==
    ASSUME IInv, LifeInv, tx.open, tx.todo # <<>>, NEW x, NEW P, Wrote(x, P),
           NextRow(x, tx.next, tx.sub), x.deleted, tx'.todo = tx.todo,
           \/ Head(tx.todo).op = "delete" /\ x.key \in Head(tx.todo).range
           \/ Head(tx.todo).op = "revoke"
    PROVE  LifeInv'
  <1>1. tx'.db.kv = tx.db.kv \cup {x} /\ tx'.next = tx.next /\ db' = db /\ tx'.open = tx.open /\ x.rev = tx.next
    BY DEF Wrote, NextRow
  <1>2. /\ tx.todo \in Seq(Operation) /\ Head(tx.todo) = tx.todo[1] /\ 1 \in DOMAIN tx.todo
        /\ Numbered(tx.db.kv, tx.next, tx.sub)
        /\ \A i \in DOMAIN tx.todo : i \in Int /\ (i # 1 => 1 < i)
    BY TodoHead DEF IInv, TxInv, TxShape, View
  <1>3. LivesOf(db.kv)' /\ LivesOf(tx.db.kv)' /\ OneLifeIn(tx.todo)'
    BY <1>1 DEF LifeInv, LivesOf, OneLifeIn
  <1>4. PutIsNotRepeated(tx.db.kv, tx.next, tx.todo)'
    BY <1>1 DEF LifeInv, PutIsNotRepeated
  <1>5. DeadStaysDead(tx.db.kv, tx.next, tx.todo)'
    <2> SUFFICES ASSUME NEW a \in tx'.db.kv, NEW b \in tx'.db.kv, a.key = b.key, a.rev = tx.next,
                        b.rev = tx.next, ~a.deleted, b.deleted, Newer(b, a),
                        NEW i \in DOMAIN tx.todo, tx.todo[i].op = "put", tx.todo[i].key = a.key
                 PROVE  FALSE
      BY <1>1 DEF DeadStaysDead
    <2>1. a \in tx.db.kv
      BY <1>1
    <2>2. CASE b \in tx.db.kv
      BY <2>1, <2>2 DEF LifeInv, DeadStaysDead
    <2>3. CASE b = x
      <3>1. CASE Head(tx.todo).op = "delete" /\ x.key \in Head(tx.todo).range
        <4>1. i # 1
          BY <1>2, <3>1
        <4> QED
          BY <1>2, <2>1, <2>3, <3>1, <4>1 DEF LifeInv, PutIsNotRepeated
      <3>2. CASE Head(tx.todo).op = "revoke"
        <4>1. tx.todo[i].op = "revoke"
          BY <1>2, <3>2 DEF IInv, TxInv, TxRevokes
        <4> QED
          BY <4>1
      <3> QED
        BY <3>1, <3>2
    <2> QED
      BY <1>1, <2>2, <2>3
  <1> QED
    BY <1>1, <1>3, <1>4, <1>5 DEF LifeInv

(* Popping, with the rows unchanged.                                       *)
LEMMA PopLifeInv ==
    ASSUME IInv, LifeInv, NEW k, Op(k), UNCHANGED <<db, live, past>>, NEW t, tx' = Pop(t),
           TxFields \subseteq DOMAIN t, t.db.kv \subseteq tx.db.kv, t.next = tx.next, t.todo = tx.todo
    PROVE  LifeInv'
  <1>1. tx'.db = t.db /\ tx'.next = t.next /\ tx'.todo = Tail(t.todo)
    BY PopFields
  <1> QED
    BY <1>1, AtHead, LessToRun

LEMMA apply_deleteLife ==
    ASSUME IInv, LifeInv, apply_delete PROVE LifeInv'
  <1> DEFINE victims == current_in(tx.db.kv, Head(tx.todo).range)
  <1>1. Op("delete") /\ UNCHANGED <<db, live, past>>
    BY DEF apply_delete, Step
  <1>2. CASE victims = {}
    <2>1. tx' = Pop(tx)
      BY <1>2 DEF apply_delete, Step
    <2> QED
      BY <1>1, <2>1, AtHead, PopLifeInv
  <1>3. CASE victims # {}
    <2>1. tx' = DeleteOne(tx, victims)
      BY <1>3 DEF apply_delete, Step
    <2>2. victims \in SUBSET current_in(tx.db.kv, Head(tx.todo).range)
      OBVIOUS
    <2>3. \E x, P : Wrote(x, P) /\ NextRow(x, tx.next, tx.sub) /\ x.deleted
                    /\ tx'.todo = tx.todo /\ x.key \in Head(tx.todo).range
      <3> HIDE DEF victims
      <3> QED
        BY <1>1, <1>3, <2>1, <2>2, AtHead, DeleteOneInv
    <2> QED
      BY <1>1, <2>3, AtHead, DeleteLifeInv
  <1> QED
    BY <1>2, <1>3

LEMMA revoke_leaseLife ==
    ASSUME IInv, LifeInv, revoke_lease PROVE LifeInv'
  <1> DEFINE ids == Head(tx.todo).ids
             id == FirstToExpire(tx.db.lease, ids)
             victims == lease_keys(tx.db.kv, id)
             dropped == [tx EXCEPT !.todo[1].ids = @ \ {id},
                                   !.db.lease = [i \in DOMAIN @ \ {id} |-> @[i]]]
  <1>1. Op("revoke") /\ UNCHANGED <<db, live, past>>
    BY DEF revoke_lease, Step
  <1>2. CASE ids = {}
    <2>1. tx' = Pop(tx)
      BY <1>2 DEF revoke_lease, Step
    <2> QED
      BY <1>1, <2>1, AtHead, PopLifeInv
  <1>3. CASE ids # {} /\ victims # {}
    <2>1. tx' = DeleteOne(tx, victims)
      BY <1>3 DEF revoke_lease, Step
    <2>2. victims \in SUBSET current_in(tx.db.kv, Keys)
      BY DEF lease_keys
    <2>3. \E x, P : Wrote(x, P) /\ NextRow(x, tx.next, tx.sub) /\ x.deleted /\ tx'.todo = tx.todo
      <3> HIDE DEF victims
      <3> QED
        BY <1>1, <1>3, <2>1, <2>2, AtHead, DeleteOneInv
    <2> QED
      BY <1>1, <2>3, AtHead, DeleteLifeInv
  <1>4. CASE ids # {} /\ victims = {}
    <2>1. tx' = dropped
      BY <1>4 DEF revoke_lease, Step
    <2>2. /\ tx.todo \in Seq(Operation) /\ 1 \in DOMAIN tx.todo /\ Head(tx.todo) = tx.todo[1]
          /\ tx.todo[1] \in [op : {"revoke"}, ids : SUBSET Int]
      BY <1>1, AtHead, TodoHead, OpTypes DEF IInv, TxInv, TxShape
    <2>3. \A i \in DOMAIN tx.todo : tx.todo[i].op = "revoke"
      BY <1>1, <2>2, AtHead DEF IInv, TxInv, TxRevokes
    <2>4. tx'.db.kv = tx.db.kv /\ tx'.next = tx.next
      <3> HIDE DEF id
      <3> QED
        BY <1>1, <2>1, AtHead DEF TxFields, DbFields
    <2>5. DOMAIN tx'.todo = DOMAIN tx.todo /\ \A i \in DOMAIN tx.todo : tx'.todo[i].op = tx.todo[i].op
      <3> HIDE DEF id
      <3> QED
        BY <1>1, <2>1, <2>2, AtHead DEF TxFields
    <2> QED
      BY <1>1, <2>3, <2>4, <2>5, AtHead, LessToRun
  <1> QED
    BY <1>2, <1>3, <1>4

(* The operations that write no row.                                       *)
LEMMA OtherLife ==
    ASSUME IInv, LifeInv,
           apply_range \/ apply_compact \/ lease_grant \/ lease_keep_alive \/ set_member \/ remove_member
    PROVE  LifeInv'
  <1>1. CASE apply_range
    <2>1. Op("range") /\ tx' = Pop(tx) /\ UNCHANGED <<db, live, past>>
      BY <1>1 DEF apply_range, Step
    <2> QED
      BY <2>1, AtHead, PopLifeInv
  <1>2. CASE apply_compact
    <2> DEFINE r == Head(tx.todo).revision
               t == [tx EXCEPT !.db.kv = Kept(tx.db.kv, r), !.db.compact_revision = r]
    <2>1. CASE Rollback
      BY <2>1 DEF Rollback, NoTx, LifeInv
    <2>2. CASE ~Rollback
      <3>1. Op("compact") /\ tx' = Pop(t) /\ UNCHANGED <<db, live, past>>
        BY <1>2, <2>2 DEF apply_compact, Step, Kept
      <3>2. Kept(tx.db.kv, r) \subseteq tx.db.kv
        BY DEF Kept, Newest
      <3>3. TxFields \subseteq DOMAIN t /\ t.db.kv = Kept(tx.db.kv, r) /\ t.next = tx.next /\ t.todo = tx.todo
        BY <3>1, AtHead DEF TxFields, DbFields
      <3> HIDE DEF t
      <3> QED
        BY <3>1, <3>2, <3>3, PopLifeInv
    <2> QED
      BY <2>1, <2>2
  <1>3. ASSUME NEW g, NEW k, Op(k), tx' = Pop([tx EXCEPT !.db.lease = g]), UNCHANGED <<db, live, past>>
        PROVE  LifeInv'
    <2> DEFINE t == [tx EXCEPT !.db.lease = g]
    <2>1. TxFields \subseteq DOMAIN t /\ t.db.kv = tx.db.kv /\ t.next = tx.next /\ t.todo = tx.todo
      BY <1>3, AtHead DEF TxFields, DbFields
    <2> HIDE DEF t
    <2> QED
      BY <1>3, <2>1, PopLifeInv DEF t
  <1>4. ASSUME NEW g, NEW k, Op(k), tx' = Pop([tx EXCEPT !.db.member = g]), UNCHANGED <<db, live, past>>
        PROVE  LifeInv'
    <2> DEFINE t == [tx EXCEPT !.db.member = g]
    <2>1. TxFields \subseteq DOMAIN t /\ t.db.kv = tx.db.kv /\ t.next = tx.next /\ t.todo = tx.todo
      BY <1>4, AtHead DEF TxFields, DbFields
    <2> HIDE DEF t
    <2> QED
      BY <1>4, <2>1, PopLifeInv DEF t
  <1>5. CASE lease_grant
    BY <1>3, <1>5 DEF lease_grant, Step
  <1>6. CASE lease_keep_alive
    <2>1. CASE tx' = Pop(tx)
      <3>1. Op("lease_keep_alive") /\ UNCHANGED <<db, live, past>>
        BY <1>6 DEF lease_keep_alive, Step
      <3> QED
        BY <2>1, <3>1, AtHead, PopLifeInv
    <2>2. CASE tx' # Pop(tx)
      BY <1>3, <1>6, <2>2 DEF lease_keep_alive, Step
    <2> QED
      BY <2>1, <2>2
  <1>7. CASE set_member
    BY <1>4, <1>7 DEF set_member, Step
  <1>8. CASE remove_member
    BY <1>4, <1>8 DEF remove_member, Step
  <1> QED
    BY <1>1, <1>2, <1>5, <1>6, <1>7, <1>8

LEMMA BeginLife ==
    ASSUME OneLifePerTxn, IInv, LifeInv, NEW cmd \in Commands, Begin(cmd) PROVE LifeInv'
  <1>1. tx'.todo = Plan(db, cmd) /\ tx'.db = db /\ tx'.next = db.revision + 1 /\ db' = db
    BY DEF Begin
  <1>2. LivesOf(db.kv) /\ Numbered(db.kv, db.revision + 1, 0)
    BY DEF LifeInv, IInv, DbInv, View
  <1>3. \A r \in db.kv : r.rev # db.revision + 1
    BY <1>2 DEF Numbered, Row
  <1>4. OneLifeIn(Plan(db, cmd))
    <2> DEFINE q == Plan(db, cmd)
    <2>1. CASE cmd.op = "txn"
      BY <2>1 DEF Plan, OneLifePerTxn
    <2>2. CASE cmd.op # "txn"
      <3>1. \E o : q = <<o>>
        BY <2>2 DEF Plan
      <3>2. DOMAIN q = {1}
        BY <3>1
      <3> HIDE DEF q
      <3>3. OneLifeIn(q)
        BY <3>2 DEF OneLifeIn
      <3> QED
        BY <3>3 DEF q
    <2> QED
      BY <2>1, <2>2
  <1> QED
    BY <1>1, <1>2, <1>3, <1>4 DEF LifeInv, PutIsNotRepeated, DeadStaysDead

(* The versions of a key order the writes of one life of it, and a later    *)
(* life has a create_revision above everything before it (apply_put).      *)
THEOREM VersionsNumberALife == OneLifePerTxn => (Spec => []VersionsOrderALife)
  <1> SUFFICES ASSUME OneLifePerTxn PROVE Spec => []VersionsOrderALife
    OBVIOUS
  <1>1. Init => LifeInv
    BY DEF Init, NoTx, LifeInv, LivesOf
  <1>2. IInv /\ LifeInv /\ [Next]_vars => LifeInv'
    <2> SUFFICES ASSUME IInv, LifeInv, [Next]_vars PROVE LifeInv'
      OBVIOUS
    <2>1. CASE UNCHANGED vars
      BY <2>1 DEF vars, LifeInv
    <2>2. ASSUME NEW cmd \in Commands, Begin(cmd) PROVE LifeInv'
      BY <2>2, BeginLife
    <2>3. CASE Run
      BY <2>3, PutLifeInv, apply_deleteLife, revoke_leaseLife, OtherLife DEF Run
    <2>4. CASE Commit
      BY <2>4, CommitFields DEF LifeInv
    <2>5. CASE Crash
      BY <2>5 DEF Crash, Rollback, NoTx, LifeInv
    <2> QED
      BY <2>1, <2>2, <2>3, <2>4, <2>5 DEF Next
  <1>3. LifeInv => VersionsOrderALife
    BY DEF LifeInv, LivesOf, VersionsOrderALife
  <1> QED
    BY <1>1, <1>2, <1>3, TransactionsExtendTheHistory, PTL DEF Spec

-----------------------------------------------------------------------------
(* Optimistic updates.                                                     *)

OptimisticKeys == {key \in Keys : \A cmd \in Commands : Optimistic(cmd, key)}

Computed(K, k) == \A r \in K : r.key = k /\ ~r.deleted => r.value = r.prev

(* Every put of k left to run carries the mod_revision that k still has     *)
(* when its turn comes.                                                    *)
BasedOn(K, k, q) ==
    \A i \in DOMAIN q :
        q[i].op = "put" /\ q[i].key = k =>
            /\ ~q[i].ignore_value
            /\ \A j \in 1 .. i - 1 : ~Changes(q[j], k)
            /\ \A p \in current_in(K, {k}) : q[i].value = p.rev
            /\ current_in(K, {k}) = {} => q[i].value = 0

UpdateInv ==
    \A k \in OptimisticKeys :
        /\ Computed(db.kv, k)
        /\ tx.open => Computed(tx.db.kv, k) /\ BasedOn(tx.db.kv, k, tx.todo)

(* A row of another key changes nothing about k.                           *)
LEMMA OtherKeysCurrent ==
    ASSUME NEW K, NEW L, NEW x, NEW R, L = K \cup {x}, x.key \notin R
    PROVE  current_in(L, R) = current_in(K, R)
  <1>1. {s \in L : s.key \in R} = {s \in K : s.key \in R}
    OBVIOUS
  <1> QED
    BY <1>1 DEF current_in

(* Popping an operation, the rows of k being what they were.               *)
LEMMA LessBased ==
    ASSUME NEW K, NEW L, NEW k, NEW q \in Seq(Operation), q # <<>>, BasedOn(K, k, q),
           current_in(L, {k}) = current_in(K, {k})
    PROVE  BasedOn(L, k, Tail(q))
  <1> SUFFICES ASSUME NEW i \in DOMAIN Tail(q), Tail(q)[i].op = "put", Tail(q)[i].key = k
               PROVE  /\ ~Tail(q)[i].ignore_value
                      /\ \A j \in 1 .. i - 1 : ~Changes(Tail(q)[j], k)
                      /\ \A p \in current_in(L, {k}) : Tail(q)[i].value = p.rev
                      /\ current_in(L, {k}) = {} => Tail(q)[i].value = 0
    BY DEF BasedOn
  <1>1. /\ i \in Int /\ i + 1 \in DOMAIN q /\ Tail(q)[i] = q[i + 1]
        /\ Len(q) \in Nat /\ DOMAIN q = 1 .. Len(q) /\ DOMAIN Tail(q) = 1 .. Len(q) - 1
        /\ \A j \in DOMAIN Tail(q) : Tail(q)[j] = q[j + 1]
    BY TodoHead, TailIsLater
  <1>2. ASSUME NEW j \in 1 .. i - 1 PROVE ~Changes(Tail(q)[j], k)
    <2>1. j \in DOMAIN Tail(q) /\ j + 1 \in 1 .. (i + 1) - 1
      BY <1>1
    <2> QED
      BY <1>1, <2>1 DEF BasedOn
  <1> QED
    BY <1>1, <1>2 DEF BasedOn

(* Once the first operation changes k, no put of k is left behind it.       *)
LEMMA OnePutOfAKey ==
    ASSUME NEW K, NEW L, NEW k, NEW q \in Seq(Operation), q # <<>>, BasedOn(K, k, q), Changes(q[1], k)
    PROVE  /\ \A i \in DOMAIN q : i # 1 => ~(q[i].op = "put" /\ q[i].key = k)
           /\ BasedOn(L, k, Tail(q))
  <1>1. \A i \in DOMAIN q : i \in Nat /\ (i # 1 => 1 \in 1 .. i - 1)
    BY TodoHead
  <1>2. \A i \in DOMAIN q : i # 1 => ~(q[i].op = "put" /\ q[i].key = k)
    BY <1>1 DEF BasedOn
  <1>3. \A i \in DOMAIN Tail(q) : ~(Tail(q)[i].op = "put" /\ Tail(q)[i].key = k)
    BY <1>2, TailIsLater
  <1> QED
    BY <1>2, <1>3 DEF BasedOn

(* The rows shrink, and no put is left to run.                             *)
LEMMA NoPutLeft ==
    ASSUME UpdateInv, tx.open, UNCHANGED db, tx'.db.kv \subseteq tx.db.kv,
           \A i \in DOMAIN tx'.todo : tx'.todo[i].op # "put"
    PROVE  UpdateInv'
  BY DEF UpdateInv, Computed, BasedOn

LEMMA PutUpdates ==
    ASSUME IInv, UpdateInv, apply_put PROVE UpdateInv'
  <1>1. tx.open /\ tx.todo # <<>> /\ Head(tx.todo).op = "put"
    BY DEF apply_put, Op
  <1>2. CASE Rollback
    BY <1>2 DEF Rollback, NoTx, UpdateInv
  <1>3. ASSUME NEW x, NEW P, Wrote(x, P), PutOver(x), tx'.todo = Tail(tx.todo)
        PROVE  UpdateInv'
    <2>1. /\ tx'.db.kv = tx.db.kv \cup {x} /\ db' = db /\ ~x.deleted
          /\ x.key = tx.todo[1].key /\ tx.todo \in Seq(Operation)
          /\ Head(tx.todo) = tx.todo[1] /\ 1 \in DOMAIN tx.todo
      BY <1>1, <1>3, TodoHead DEF Wrote, PutOver, IInv, TxInv, TxShape
    <2>2. ASSUME NEW k \in OptimisticKeys, x.key # k
          PROVE  Computed(tx'.db.kv, k) /\ BasedOn(tx'.db.kv, k, tx'.todo)
      <3>1. current_in(tx'.db.kv, {k}) = current_in(tx.db.kv, {k})
        <4>1. x.key \notin {k} /\ tx'.db.kv = tx.db.kv \cup {x}
          BY <2>1, <2>2
        <4> QED
          BY ONLY <4>1, OtherKeysCurrent
      <3>2. Computed(tx.db.kv, k) /\ BasedOn(tx.db.kv, k, tx.todo)
        BY <1>1 DEF UpdateInv
      <3> QED
        BY <1>1, <1>3, <2>1, <2>2, <3>1, <3>2, LessBased DEF Computed
    <2>3. ASSUME NEW k \in OptimisticKeys, x.key = k
          PROVE  Computed(tx'.db.kv, k) /\ BasedOn(tx'.db.kv, k, tx'.todo)
      <3>1. Computed(tx.db.kv, k) /\ BasedOn(tx.db.kv, k, tx.todo)
        BY <1>1 DEF UpdateInv
      <3>2. Changes(tx.todo[1], k)
        BY <1>1, <2>1, <2>3 DEF Changes
      <3>3. /\ x.value = tx.todo[1].value
            /\ \A p \in current_in(tx.db.kv, {k}) : x.value = p.rev
            /\ current_in(tx.db.kv, {k}) = {} => x.value = 0
        <4>1. /\ ~tx.todo[1].ignore_value
              /\ \A p \in current_in(tx.db.kv, {k}) : tx.todo[1].value = p.rev
              /\ current_in(tx.db.kv, {k}) = {} => tx.todo[1].value = 0
          BY <1>1, <2>1, <2>3, <3>1 DEF BasedOn
        <4>2. x.value = tx.todo[1].value
          BY <1>3, <2>1, <4>1 DEF PutOver
        <4> QED
          BY <4>1, <4>2
      <3>4. x.value = x.prev
        <4>1. CASE current_in(tx.db.kv, {k}) = {}
          BY <1>3, <2>3, <3>3, <4>1 DEF PutOver
        <4>2. CASE current_in(tx.db.kv, {k}) # {}
          BY <1>3, <2>3, <3>3, <4>2 DEF PutOver
        <4> QED
          BY <4>1, <4>2
      <3>5. BasedOn(tx'.db.kv, k, tx'.todo)
        BY <1>1, <1>3, <2>1, <3>1, <3>2, OnePutOfAKey
      <3> QED
        BY <2>1, <3>1, <3>4, <3>5 DEF Computed
    <2> QED
      BY <2>1, <2>2, <2>3 DEF UpdateInv
  <1> QED
    BY <1>2, <1>3, apply_putInv

LEMMA DeleteUpdates ==
    ASSUME IInv, UpdateInv, apply_delete PROVE UpdateInv'
  <1> DEFINE victims == current_in(tx.db.kv, Head(tx.todo).range)
  <1>1. /\ Op("delete") /\ UNCHANGED <<db, live, past>>
        /\ tx.todo \in Seq(Operation) /\ TxFields \subseteq DOMAIN tx
        /\ Head(tx.todo) = tx.todo[1] /\ 1 \in DOMAIN tx.todo /\ tx.open /\ tx.todo # <<>>
        /\ tx.todo[1].op = "delete"
    BY TodoHead DEF apply_delete, Step, Op, IInv, TxInv, TxShape
  <1>2. CASE victims = {}
    <2>1. tx' = Pop(tx)
      BY <1>2 DEF apply_delete, Step
    <2>2. tx'.db = tx.db /\ tx'.todo = Tail(tx.todo)
      BY <1>1, <2>1, PopFields
    <2>3. \A k \in OptimisticKeys : BasedOn(tx'.db.kv, k, tx'.todo)
      BY <1>1, <2>2, LessBased DEF UpdateInv
    <2> QED
      BY <1>1, <2>2, <2>3 DEF UpdateInv
  <1>3. CASE victims # {}
    <2>1. tx' = DeleteOne(tx, victims)
      BY <1>3 DEF apply_delete, Step
    <2>2. victims \in SUBSET current_in(tx.db.kv, Head(tx.todo).range)
      OBVIOUS
    <2>3. PICK x, P : Wrote(x, P) /\ NextRow(x, tx.next, tx.sub) /\ x.deleted
                      /\ tx'.todo = tx.todo /\ x.key \in Head(tx.todo).range
      <3> HIDE DEF victims
      <3> QED
        BY <1>1, <1>3, <2>1, <2>2, AtHead, DeleteOneInv
    <2>4. tx'.db.kv = tx.db.kv \cup {x} /\ db' = db
      BY <2>3 DEF Wrote
    <2>5. ASSUME NEW k \in OptimisticKeys
          PROVE  Computed(tx'.db.kv, k) /\ BasedOn(tx'.db.kv, k, tx'.todo)
      <3>1. Computed(tx.db.kv, k) /\ BasedOn(tx.db.kv, k, tx.todo)
        BY <1>1 DEF UpdateInv
      <3>2. Computed(tx'.db.kv, k)
        BY <2>3, <2>4, <3>1 DEF Computed
      <3>3. CASE x.key # k
        <4>1. current_in(tx'.db.kv, {k}) = current_in(tx.db.kv, {k})
          <5>1. x.key \notin {k}
            BY <3>3
          <5> QED
            BY <2>4, <5>1, OtherKeysCurrent
        <4> QED
          BY <2>3, <3>1, <3>2, <4>1 DEF BasedOn
      <3>4. CASE x.key = k
        <4>1. Changes(tx.todo[1], k)
          BY <1>1, <2>3, <3>4 DEF Changes
        <4>2. \A i \in DOMAIN tx.todo : ~(tx.todo[i].op = "put" /\ tx.todo[i].key = k)
          BY <1>1, <3>1, <4>1, OnePutOfAKey
        <4> QED
          BY <2>3, <3>2, <4>2 DEF BasedOn
      <3> QED
        BY <3>3, <3>4
    <2> QED
      BY <2>4, <2>5 DEF UpdateInv
  <1> QED
    BY <1>2, <1>3

LEMMA OtherUpdates ==
    ASSUME IInv, UpdateInv,
           \/ apply_range \/ apply_compact \/ lease_grant \/ lease_keep_alive
           \/ revoke_lease \/ set_member \/ remove_member
    PROVE  UpdateInv'
  <1>1. ASSUME NEW op, Op(op), op # "put"
        PROVE  /\ tx.todo \in Seq(Operation) /\ tx.open /\ tx.todo # <<>>
               /\ TxFields \subseteq DOMAIN tx /\ DbFields \subseteq DOMAIN tx.db
               /\ 1 \in DOMAIN tx.todo /\ tx.todo[1].op = op /\ Head(tx.todo) = tx.todo[1]
    BY <1>1, TodoHead DEF Op, IInv, TxInv, TxShape, View, ShapeOf
  <1>2. CASE tx' = NoTx /\ db' = db
    BY <1>2 DEF NoTx, UpdateInv
  <1>3. ASSUME NEW op, Op(op), op # "put", NEW t, tx' = Pop(t), TxFields \subseteq DOMAIN t,
               t.db.kv = tx.db.kv, t.todo = tx.todo, db' = db
        PROVE  UpdateInv'
    <2>1. tx'.db.kv = tx.db.kv /\ tx'.todo = Tail(tx.todo)
      BY <1>3, PopFields
    <2>2. ASSUME NEW k \in OptimisticKeys PROVE BasedOn(tx'.db.kv, k, tx'.todo)
      <3>1. /\ BasedOn(tx.db.kv, k, tx.todo) /\ tx.todo \in Seq(Operation) /\ tx.todo # <<>>
            /\ current_in(tx'.db.kv, {k}) = current_in(tx.db.kv, {k})
        BY <1>1, <1>3, <2>1 DEF UpdateInv
      <3>2. BasedOn(tx'.db.kv, k, Tail(tx.todo))
        BY ONLY <3>1, LessBased
      <3> QED
        BY <2>1, <3>2
    <2> QED
      BY <1>1, <1>3, <2>1, <2>2 DEF UpdateInv
  <1>4. CASE apply_range
    <2>1. Op("range") /\ tx' = Pop(tx) /\ db' = db
      BY <1>4 DEF apply_range, Step
    <2> QED
      BY <1>1, <1>3, <2>1
  <1>5. CASE apply_compact
    <2> DEFINE r == Head(tx.todo).revision
               t == [tx EXCEPT !.db.kv = Kept(tx.db.kv, r), !.db.compact_revision = r]
    <2>1. CASE Rollback
      BY <1>2, <2>1 DEF Rollback
    <2>2. CASE ~Rollback
      <3>1. Op("compact") /\ tx' = Pop(t) /\ db' = db
        BY <1>5, <2>2 DEF apply_compact, Step, Kept
      <3>2. Kept(tx.db.kv, r) \subseteq tx.db.kv
        BY DEF Kept, Newest
      <3>3. TxFields \subseteq DOMAIN t /\ t.db.kv = Kept(tx.db.kv, r) /\ t.todo = tx.todo
        BY <1>1, <3>1 DEF TxFields, DbFields
      <3> HIDE DEF t
      <3>4. tx'.db.kv \subseteq tx.db.kv /\ tx'.todo = Tail(tx.todo)
        BY <3>1, <3>2, <3>3, PopFields
      <3>5. DOMAIN tx'.todo = {}
        <4>1. Len(tx.todo) = 1
          BY <1>1, <3>1 DEF IInv, TxInv, TxCompacts
        <4> QED
          BY <1>1, <3>1, <3>4, <4>1, TodoHead
      <3> QED
        BY <1>1, <3>1, <3>4, <3>5, NoPutLeft
    <2> QED
      BY <2>1, <2>2
  <1>6. ASSUME NEW g, NEW k, Op(k), k # "put", tx' = Pop([tx EXCEPT !.db.lease = g]), db' = db
        PROVE  UpdateInv'
    <2> DEFINE t == [tx EXCEPT !.db.lease = g]
    <2>1. TxFields \subseteq DOMAIN t /\ t.db.kv = tx.db.kv /\ t.todo = tx.todo
      BY <1>1, <1>6 DEF TxFields, DbFields
    <2> HIDE DEF t
    <2> QED
      BY <1>3, <1>6, <2>1 DEF t
  <1>7. ASSUME NEW g, NEW k, Op(k), k # "put", tx' = Pop([tx EXCEPT !.db.member = g]), db' = db
        PROVE  UpdateInv'
    <2> DEFINE t == [tx EXCEPT !.db.member = g]
    <2>1. TxFields \subseteq DOMAIN t /\ t.db.kv = tx.db.kv /\ t.todo = tx.todo
      BY <1>1, <1>7 DEF TxFields, DbFields
    <2> HIDE DEF t
    <2> QED
      BY <1>3, <1>7, <2>1 DEF t
  <1>8. CASE lease_grant
    BY <1>6, <1>8 DEF lease_grant, Step
  <1>9. CASE lease_keep_alive
    <2>1. CASE tx' = Pop(tx)
      <3>1. Op("lease_keep_alive") /\ db' = db
        BY <1>9 DEF lease_keep_alive, Step
      <3> QED
        BY <1>1, <1>3, <2>1, <3>1
    <2>2. CASE tx' # Pop(tx)
      BY <1>6, <1>9, <2>2 DEF lease_keep_alive, Step
    <2> QED
      BY <2>1, <2>2
  <1>10. CASE set_member
    BY <1>7, <1>10 DEF set_member, Step
  <1>11. CASE remove_member
    BY <1>7, <1>11 DEF remove_member, Step
  <1>12. CASE revoke_lease
    <2> DEFINE ids == Head(tx.todo).ids
               id == FirstToExpire(tx.db.lease, ids)
               victims == lease_keys(tx.db.kv, id)
               dropped == [tx EXCEPT !.todo[1].ids = @ \ {id},
                                     !.db.lease = [i \in DOMAIN @ \ {id} |-> @[i]]]
    <2>1. Op("revoke") /\ UNCHANGED <<db, live, past>>
      BY <1>12 DEF revoke_lease, Step
    <2>2. \A i \in DOMAIN tx.todo : tx.todo[i].op = "revoke"
      BY <1>1, <2>1 DEF IInv, TxInv, TxRevokes
    <2>3. CASE ids = {}
      <3>1. tx' = Pop(tx)
        BY <1>12, <2>3 DEF revoke_lease, Step
      <3> QED
        BY <1>1, <1>3, <2>1, <3>1
    <2>4. CASE ids # {} /\ victims # {}
      <3>1. tx' = DeleteOne(tx, victims)
        BY <1>12, <2>4 DEF revoke_lease, Step
      <3>2. victims \in SUBSET current_in(tx.db.kv, Keys)
        BY DEF lease_keys
      <3>3. PICK x, P : Wrote(x, P) /\ x.deleted /\ tx'.todo = tx.todo
        <4> HIDE DEF victims
        <4> QED
          BY <2>1, <2>4, <3>1, <3>2, AtHead, DeleteOneInv
      <3>4. tx'.db.kv = tx.db.kv \cup {x} /\ db' = db
        BY <3>3 DEF Wrote
      <3> QED
        BY <1>1, <2>1, <2>2, <3>3, <3>4 DEF UpdateInv, Computed, BasedOn
    <2>5. CASE ids # {} /\ victims = {}
      <3>1. tx' = dropped
        BY <1>12, <2>5 DEF revoke_lease, Step
      <3>2. tx.todo[1] \in [op : {"revoke"}, ids : SUBSET Int]
        BY <1>1, <2>1, AtHead, TodoHead, OpTypes
      <3>3. tx'.db.kv = tx.db.kv
        <4> HIDE DEF id
        <4> QED
          BY <1>1, <2>1, <3>1 DEF TxFields, DbFields
      <3>4. DOMAIN tx'.todo = DOMAIN tx.todo /\ \A i \in DOMAIN tx.todo : tx'.todo[i].op = tx.todo[i].op
        <4> HIDE DEF id
        <4> QED
          BY <1>1, <2>1, <3>1, <3>2 DEF TxFields
      <3> QED
        BY <1>1, <2>1, <2>2, <3>3, <3>4, NoPutLeft
    <2> QED
      BY <2>3, <2>4, <2>5
  <1> QED
    BY <1>4, <1>5, <1>8, <1>9, <1>10, <1>11, <1>12

(* A branch is chosen by the rows its puts are based on.                   *)
LEMMA BeginUpdates ==
    ASSUME IInv, UpdateInv, NEW cmd \in Commands, Begin(cmd) PROVE UpdateInv'
  <1> DEFINE q == Plan(db, cmd)
  <1>1. tx'.todo = q /\ tx'.db = db /\ db' = db
    BY DEF Begin
  <1>2. Numbered(db.kv, db.revision + 1, 0) /\ cmd \in Command
    BY CommandsAreTyped DEF IInv, DbInv, View
  <1>3. ASSUME NEW k \in OptimisticKeys PROVE BasedOn(db.kv, k, q)
    <2>1. Optimistic(cmd, k) /\ k \in Keys
      BY DEF OptimisticKeys
    <2>2. CASE cmd.op # "txn"
      <3>1. \A i \in DOMAIN q : ~(q[i].op = "put" /\ q[i].key = k)
        BY <2>1, <2>2 DEF Plan, Optimistic
      <3> QED
        BY <3>1 DEF BasedOn
    <2>3. CASE cmd.op = "txn" /\ ~(\A c \in cmd.compare : evaluate_compare(db.kv, c))
      <3>1. q = cmd.failure
        BY <2>3 DEF Plan
      <3> QED
        BY <2>1, <2>3, <3>1 DEF BasedOn, Optimistic
    <2>4. CASE cmd.op = "txn" /\ \A c \in cmd.compare : evaluate_compare(db.kv, c)
      <3>1. q = cmd.success
        BY <2>4 DEF Plan
      <3> SUFFICES ASSUME NEW i \in DOMAIN q, q[i].op = "put", q[i].key = k
                   PROVE  /\ ~q[i].ignore_value
                          /\ \A j \in 1 .. i - 1 : ~Changes(q[j], k)
                          /\ \A p \in current_in(db.kv, {k}) : q[i].value = p.rev
                          /\ current_in(db.kv, {k}) = {} => q[i].value = 0
        BY DEF BasedOn
      <3>2. /\ ~q[i].ignore_value /\ Basis(q[i]) \in cmd.compare
            /\ \A j \in 1 .. i - 1 : ~Changes(q[j], k)
        BY <2>1, <2>4, <3>1 DEF Optimistic
      <3>3. evaluate_compare(db.kv, Basis(q[i]))
        BY <2>4, <3>2
      <3> DEFINE cur == current_in(db.kv, {k})
                 p == CHOOSE r \in cur : TRUE
      <3>4. CASE cur = {}
        <4>1. ZeroKv["mod"] = q[i].value
          BY <3>3, <3>4 DEF evaluate_compare, Basis
        <4>2. q[i].value = 0
          BY <4>1 DEF ZeroKv
        <4> QED
          BY <3>2, <3>4, <4>2
      <3>5. CASE cur # {}
        <4>1. Kv(p)["mod"] = q[i].value
          BY <3>3, <3>5 DEF evaluate_compare, Basis
        <4>2. p.rev = q[i].value
          BY <4>1 DEF Kv
        <4>3. p \in cur /\ \A r \in cur : r = p
          <5>1. p \in cur
            BY <3>5
          <5>2. \A r, s \in cur : r = s
            <6>1. Numbered(db.kv, db.revision + 1, 0)
              BY <1>2
            <6> QED
              BY ONLY <6>1, OneCurrentRow
          <5> QED
            BY <5>1, <5>2
        <4> QED
          BY <3>2, <3>5, <4>2, <4>3
      <3> QED
        BY <3>4, <3>5
    <2> QED
      BY <2>2, <2>3, <2>4
  <1> QED
    BY <1>1, <1>3 DEF UpdateInv

(* A key that is written by transactions guarded on the mod_revision they   *)
(* read, and by deletions, never loses an update (evaluate_compare).       *)
THEOREM UpdatesAreNotLost == Spec => []NoLostUpdate
  <1>1. Init => UpdateInv
    BY DEF Init, NoTx, UpdateInv, Computed
  <1>2. IInv /\ UpdateInv /\ [Next]_vars => UpdateInv'
    <2> SUFFICES ASSUME IInv, UpdateInv, [Next]_vars PROVE UpdateInv'
      OBVIOUS
    <2>1. CASE UNCHANGED vars
      BY <2>1 DEF vars, UpdateInv
    <2>2. ASSUME NEW cmd \in Commands, Begin(cmd) PROVE UpdateInv'
      BY <2>2, BeginUpdates
    <2>3. CASE Run
      BY <2>3, PutUpdates, DeleteUpdates, OtherUpdates DEF Run
    <2>4. CASE Commit
      BY <2>4, CommitFields DEF UpdateInv
    <2>5. CASE Crash
      BY <2>5 DEF Crash, Rollback, NoTx, UpdateInv
    <2> QED
      BY <2>1, <2>2, <2>3, <2>4, <2>5 DEF Next
  <1>3. UpdateInv => NoLostUpdate
    BY DEF UpdateInv, Computed, OptimisticKeys, NoLostUpdate
  <1> QED
    BY <1>1, <1>2, <1>3, TransactionsExtendTheHistory, PTL DEF Spec

-----------------------------------------------------------------------------
(* The cached RBAC list (module RbacCache).                                *)

(* The list is one of the past, and nothing changed since it was read.     *)
CacheIsCurrent ==
    Cached => /\ cache.revision \in Nat /\ 0 < cache.revision
              /\ cache.filled \in Nat /\ cache.revision <= cache.filled
              /\ cache.filled <= db.revision
              /\ cache.list = RbacOf(past[cache.revision])
              /\ \A r \in Nat : cache.filled <= r /\ r <= db.revision
                                    => RbacOf(past[r]) = RbacOf(past[cache.filled])

(* A list is of some revision `read` at or before `at`, and of `at` too     *)
(* unless there was a change behind its reading.                           *)
Served(list, read, filled, at) ==
    /\ read <= at
    /\ list = RbacOf(past[read])
    /\ ~Changed(read, filled) => list = RbacOf(past[at])

LEMMA KvKey == \A x : Kv(x).key = x.key
  BY DEF Kv

(* A list is the part of a read that has its keys.                         *)
LEMMA ListIsPartOfRead ==
    ASSUME NEW d, NEW n, NEW s, Numbered(d.kv, n, s), NEW at
    PROVE  {Kv(x) : x \in range_in(d.kv, RbacKeys, at)} = RbacOf(ReadsAt(d, at))
  <1> DEFINE A == range_in(d.kv, RbacKeys, at)
             B == range_in(d.kv, Keys, at)
  <1>1. \A x : x \in A <=> x \in B /\ x.key \in RbacKeys
    BY DEF range_in, Newest, Numbered, Row
  <1> HIDE DEF A, B
  <1>2. {Kv(x) : x \in A} = RbacOf({Kv(x) : x \in B})
    BY <1>1, KvKey DEF RbacOf
  <1> QED
    BY <1>2 DEF ReadsAt, A, B

(* A transaction that tells of no RBAC key has the list of the revision     *)
(* before it.                                                              *)
LEMMA UntouchedList ==
    ASSUME IInv, tx.open, ~Invalidates(tx)
    PROVE  RbacOf(Contents(tx.db.kv)) = RbacOf(past[db.revision])
  <1> DEFINE K == tx.db.kv
             n == tx.next
             E == live \cup tx.events
             A == current_in(K, Keys)
             B == range_in(K, Keys, db.revision)
  <1>1. /\ Numbered(K, n, tx.sub) /\ Announced(tx.db, E) /\ History(tx.db, past)
        /\ n = db.revision + 1 /\ tx.db.revision = db.revision /\ db.revision \in Nat
        /\ tx.db.compact_revision \in Nat /\ tx.db.compact_revision < n
    BY DEF IInv, TxInv, View, TxShape, ShapeOf
  <1>2. /\ Numbered(db.kv, n, 0) /\ Announced(db, live)
        /\ db.compact_revision \in Nat /\ db.compact_revision < n
    BY <1>1 DEF IInv, DbInv, View, ShapeOf
  <1>3. \A x \in K : x \in Row /\ x.rev \in Nat /\ x.key \in Keys /\ (x.rev < n \/ x.rev = n)
    BY <1>1 DEF Numbered, Row
  <1>4. ASSUME NEW e \in live PROVE e.rev # n
    <2>1. e.rev = n => \E x \in db.kv : e = EventOf(x, e.prev)
      BY <1>2, <1>4 DEF Announced
    <2>2. \A x \in db.kv : x.rev \in Nat /\ x.rev < n
      BY <1>2 DEF Numbered, Row
    <2> QED
      BY <2>1, <2>2, EventFields, <1>1
  <1>5. ASSUME NEW x \in K, x.rev = n PROVE x.key \notin RbacKeys
    <2>1. PICK e \in E : e = EventOf(x, e.prev)
      BY <1>1, <1>5 DEF Announced
    <2>2. e.rev = n /\ e.kv.key = x.key
      BY <1>5, <2>1, EventFields
    <2>3. e \in tx.events
      BY <1>4, <2>2
    <2> QED
      BY <2>2, <2>3 DEF Invalidates
  <1>6. \A x \in K : x.key \in RbacKeys => x.rev < n /\ x.rev <= db.revision
    BY <1>1, <1>3, <1>5
  <1>7. \A x : x.key \in RbacKeys => (x \in A <=> x \in B)
    BY <1>6 DEF current_in, range_in, Newest
  <1>8. ReadsAt(tx.db, db.revision) = past[db.revision]
    BY <1>1 DEF History
  <1> HIDE DEF A, B
  <1>9. RbacOf({Kv(x) : x \in A}) = RbacOf({Kv(x) : x \in B})
    BY <1>7, KvKey DEF RbacOf
  <1> QED
    BY <1>8, <1>9 DEF ReadsAt, Contents, A, B

(* What a list finds: the cached one, or what it then caches.              *)
LEMMA ListRbacHolds ==
    ASSUME IInv, CacheIsCurrent, NEW revision \in ReadRevisions, ListRbac(revision)
    PROVE  /\ CacheIsCurrent'
           /\ Served(answer'.list, answer'.read, answer'.filled, answer'.at)
           /\ UNCHANGED vars
  <1> DEFINE at == IF revision <= 0 THEN db.revision ELSE revision
             found == range(db, RbacKeys, revision)
             hit == Cached /\ at >= cache.revision
  <1>1. revision \in Int
    BY ReadRevisionsAssumption
  <1>2. /\ hit => /\ cache' = cache
                  /\ answer'.at = at /\ answer'.read = cache.revision
                  /\ answer'.filled = cache.filled /\ answer'.list = cache.list
        /\ ~hit => /\ cache'.revision = at /\ cache'.filled = db.revision /\ cache'.list = found
                   /\ answer'.at = at /\ answer'.read = at
                   /\ answer'.filled = db.revision /\ answer'.list = found
        /\ Readable(db, revision)
        /\ UNCHANGED vars
    BY DEF ListRbac
  <1>3. Numbered(db.kv, db.revision + 1, 0) /\ History(db, past)
        /\ db.revision \in Nat /\ 0 < db.revision /\ db.compact_revision \in Nat
    BY DEF IInv, DbInv, View, ShapeOf
  <1>4. at \in Nat /\ 0 < at /\ at <= db.revision /\ (at = db.revision \/ db.compact_revision < at)
    BY <1>1, <1>2, <1>3 DEF Readable
  <1>5. found = RbacOf(past[at])
    <2>1. found = {Kv(x) : x \in range_in(db.kv, RbacKeys, at)}
      BY DEF range
    <2>2. {Kv(x) : x \in range_in(db.kv, RbacKeys, at)} = RbacOf(ReadsAt(db, at))
      BY <1>3, ListIsPartOfRead
    <2>3. ReadsAt(db, at) = past[at]
      BY <1>3, <1>4 DEF History
    <2> QED
      BY <2>1, <2>2, <2>3
  <1> HIDE DEF found, at
  <1>6. db' = db /\ past' = past
    BY <1>2 DEF vars
  <1>7. CASE hit
    <2>1. CacheIsCurrent'
      BY <1>2, <1>6, <1>7 DEF CacheIsCurrent, Cached, RbacOf
    <2>2. ~Changed(cache.revision, cache.filled) => cache.list = RbacOf(past[at])
      <3>1. CASE at <= cache.filled
        BY <1>4, <1>7, <3>1 DEF CacheIsCurrent, Changed
      <3>2. CASE ~(at <= cache.filled)
        <4>1. RbacOf(past[at]) = RbacOf(past[cache.filled])
          BY <1>4, <1>7, <3>2 DEF CacheIsCurrent
        <4> QED
          BY <4>1, <1>7 DEF CacheIsCurrent, Changed
      <3> QED
        BY <3>1, <3>2
    <2> QED
      BY <1>2, <1>4, <1>7, <2>1, <2>2 DEF CacheIsCurrent, Served
  <1>8. CASE ~hit
    <2>1. \A r \in Nat : db.revision <= r /\ r <= db.revision => r = db.revision
      BY <1>3
    <2>2. CacheIsCurrent'
      BY <1>2, <1>3, <1>4, <1>5, <1>6, <1>8, <2>1 DEF CacheIsCurrent, RbacOf
    <2> QED
      BY <1>2, <1>4, <1>5, <1>8, <2>2 DEF Served
  <1> QED
    BY <1>7, <1>8

LEMMA CommitCacheHolds ==
    ASSUME IInv, CacheIsCurrent, Commit, cache' = IF Invalidates(tx) THEN NoList ELSE cache
    PROVE  CacheIsCurrent'
  <1>1. CASE Invalidates(tx)
    BY <1>1 DEF CacheIsCurrent, Cached
  <1>2. CASE ~Invalidates(tx)
    <2>1. cache' = cache
      BY <1>2
    <2>2. /\ tx.open /\ db.revision \in Nat /\ tx.next = db.revision + 1
          /\ past \in Seq(SUBSET KeyValue) /\ Len(past) = db.revision /\ db.revision > 0
      BY CommitFields DEF DbInv, TxInv, TxShape, View, ShapeOf
    <2>3. CASE ~tx.used
      <3>1. db'.revision = db.revision /\ past' = past
        BY <2>3, CommitFields
      <3> QED
        BY <2>1, <3>1 DEF CacheIsCurrent, Cached, RbacOf
    <2>4. CASE tx.used
      <3>1. db'.revision = db.revision + 1 /\ past' = Append(past, Contents(tx.db.kv))
        BY <2>2, <2>4, CommitFields
      <3>2. Contents(tx.db.kv) \in SUBSET KeyValue
        BY CommitFields DEF TxInv, View, Numbered, Contents, KeyValue, current_in, Newest
      <3>3. /\ \A r \in Nat : 0 < r /\ r <= db.revision => past'[r] = past[r]
            /\ past'[db.revision + 1] = Contents(tx.db.kv)
        BY <2>2, <3>1, <3>2, AppendProperties
      <3>4. RbacOf(past'[db.revision + 1]) = RbacOf(past[db.revision])
        BY <1>2, <2>2, <3>3, UntouchedList
      <3>5. ASSUME Cached, cache.filled \in Nat, 0 < cache.filled, cache.filled <= db.revision,
                   NEW r \in Nat, cache.filled <= r, r <= db.revision + 1,
                   \A q \in Nat : cache.filled <= q /\ q <= db.revision
                                      => RbacOf(past[q]) = RbacOf(past[cache.filled])
            PROVE  RbacOf(past'[r]) = RbacOf(past'[cache.filled])
        <4>1. past'[cache.filled] = past[cache.filled]
          BY <3>3, <3>5
        <4>2. CASE r <= db.revision
          <5>1. past'[r] = past[r]
            BY <3>3, <3>5, <4>2
          <5> QED
            BY <3>5, <4>1, <4>2, <5>1
        <4>3. CASE ~(r <= db.revision)
          <5>1. r = db.revision + 1
            BY <2>2, <3>5, <4>3
          <5> QED
            BY <2>2, <3>4, <3>5, <4>1, <5>1
        <4> QED
          BY <4>2, <4>3
      <3>6. Cached => /\ cache.filled <= db.revision + 1 /\ 0 < cache.filled
                      /\ past'[cache.revision] = past[cache.revision]
        BY <2>2, <3>3 DEF CacheIsCurrent
      <3>7. \A r \in Nat : RbacOf(past[r])' = RbacOf(past'[r])
        BY DEF RbacOf
      <3> HIDE DEF RbacOf
      <3> QED
        BY <2>1, <3>1, <3>5, <3>6, <3>7 DEF CacheIsCurrent, Cached
    <2> QED
      BY <2>3, <2>4
  <1> QED
    BY <1>1, <1>2

(* Whichever list filled the cache, and whatever deleted keys since - a     *)
(* command that names them, or a lease that held them - a list misses no    *)
(* change but those its own reading passed over (Store::range, apply_at).   *)
THEOREM CachedListsAreCurrent == CacheSpec => ListIsTruthful
  <1>1. CacheInit => IInv /\ CacheIsCurrent
    BY InitInv DEF CacheInit, CacheIsCurrent, Cached
  <1>2. IInv /\ CacheIsCurrent /\ [CacheNext]_cacheVars => IInv' /\ CacheIsCurrent'
    <2> SUFFICES ASSUME IInv, CacheIsCurrent, [CacheNext]_cacheVars PROVE IInv' /\ CacheIsCurrent'
      OBVIOUS
    <2>1. CASE UNCHANGED cacheVars
      <3>1. UNCHANGED vars /\ cache' = cache /\ db' = db /\ past' = past
        BY <2>1 DEF cacheVars, vars
      <3> QED
        BY <3>1, NextInv DEF CacheIsCurrent, Cached, RbacOf
    <2>2. CASE ((\E cmd \in Commands : Begin(cmd)) \/ Run \/ Crash) /\ UNCHANGED <<cache, answer>>
      <3>1. Next
        BY <2>2 DEF Next
      <3>2. db' = db /\ past' = past /\ cache' = cache
        BY <2>2 DEF Begin, Run, Crash, Rollback, Step, apply_put, apply_delete, apply_range,
           apply_compact, lease_grant, lease_keep_alive, revoke_lease, set_member, remove_member
      <3>3. CacheIsCurrent'
        BY <3>2 DEF CacheIsCurrent, Cached, RbacOf
      <3> QED
        BY <3>1, <3>3, NextInv
    <2>3. CASE Commit /\ cache' = IF Invalidates(tx) THEN NoList ELSE cache
      BY <2>3, CommitInv, CommitCacheHolds
    <2>4. ASSUME NEW revision \in ReadRevisions, ListRbac(revision) PROVE IInv' /\ CacheIsCurrent'
      BY <2>4, ListRbacHolds, NextInv
    <2> QED
      BY <2>1, <2>2, <2>3, <2>4 DEF CacheNext
  <1>3. IInv /\ CacheIsCurrent /\ [CacheNext]_cacheVars =>
            [answer' # answer =>
                /\ answer'.read <= answer'.at
                /\ answer'.list = RbacOf(past[answer'.read])
                /\ ~Changed(answer'.read, answer'.filled)
                       => answer'.list = RbacOf(past[answer'.at])]_cacheVars
    <2> SUFFICES ASSUME IInv, CacheIsCurrent, CacheNext, answer' # answer
                 PROVE  Served(answer'.list, answer'.read, answer'.filled, answer'.at)
      BY DEF cacheVars, Served
    <2>1. PICK revision \in ReadRevisions : ListRbac(revision)
      BY DEF CacheNext
    <2> QED
      BY <2>1, ListRbacHolds
  <1> QED
    BY <1>1, <1>2, <1>3, PTL DEF CacheSpec, ListIsTruthful
=============================================================================
