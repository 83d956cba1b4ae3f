----------------------------- MODULE CacherProofs -----------------------------
(***************************************************************************)
(* What the watch cache tells its readers is what nodestore held, for any  *)
(* objects, buffer sizes, compactions and faults: every stream of events,  *)
(* retained, replayed or queued, goes through the history without a gap.   *)
(***************************************************************************)
EXTENDS Cacher, FiniteSetTheorems, SequenceTheorems, TLAPS

-----------------------------------------------------------------------------
(* What Min and Max, which are CHOOSEs, return: by the well-foundedness of   *)
(* strict inclusion, here between intervals 0 .. k.                         *)

(* Some element of a set of naturals is below all others.                   *)
LEMMA LeastExists ==
    ASSUME NEW S, S \subseteq Nat, S # {}
    PROVE  \E x \in S : \A y \in S : x <= y
  <1>1. PICK n \in S : TRUE
    OBVIOUS
  <1> DEFINE Below == {0 .. k : k \in {i \in S : i <= n}}
  <1>2. Below \subseteq FiniteSubsetsOf(Nat)
    <2>1. ASSUME NEW k \in Nat PROVE 0 .. k \in FiniteSubsetsOf(Nat)
      BY FS_Interval DEF FiniteSubsetsOf
    <2> QED
      BY <2>1
  <1>3. 0 .. n \in Below
    BY <1>1
  <1>4. PICK U \in Below : \A V \in Below : ~(<<V, U>> \in StrictSubsetOrdering(Nat))
    <2> HIDE DEF Below
    <2> QED
      BY ONLY <1>2, <1>3, WFMin, FS_StrictSubsetOrderingWellFounded
  <1>5. PICK k \in S : k <= n /\ U = 0 .. k
    BY <1>4
  <1>6. ASSUME NEW y \in S, y < k PROVE FALSE
    <2>1. 0 .. y \in Below /\ 0 .. y \subseteq U /\ 0 .. y # U
      BY <1>5, <1>6
    <2>2. <<0 .. y, U>> \in StrictSubsetOrdering(Nat)
      BY <2>1, <1>5 DEF StrictSubsetOrdering
    <2> QED
      BY <2>1, <2>2, <1>4
  <1> QED
    BY <1>5, <1>6

(* Min of a set of naturals is its least element.                           *)
LEMMA MinIsLeast ==
    ASSUME NEW S, S \subseteq Nat, S # {}
    PROVE  Min(S) \in S /\ \A y \in S : Min(S) <= y
  BY LeastExists DEF Min

(* Max of a bounded set of naturals is its greatest element.                *)
LEMMA MaxIsGreatest ==
    ASSUME NEW S, S \subseteq Nat, S # {}, NEW n \in Nat, \A y \in S : y <= n
    PROVE  Max(S) \in S /\ \A y \in S : Max(S) >= y
  <1> DEFINE D == {n - y : y \in S}
  <1>1. D \subseteq Nat /\ D # {}
    OBVIOUS
  <1>2. PICK d \in D : \A e \in D : d <= e
    <2> HIDE DEF D
    <2> QED
      BY <1>1, LeastExists
  <1>3. PICK x \in S : d = n - x
    BY <1>2
  <1>4. \A y \in S : n - y \in D
    OBVIOUS
  <1>5. ASSUME NEW y \in S PROVE x >= y
    BY <1>2, <1>3, <1>4
  <1> QED
    BY <1>5 DEF Max

(* Max of two naturals.                                                    *)
LEMMA MaxOfTwo ==
    ASSUME NEW i \in Nat, NEW j \in Nat
    PROVE  Max({i, j}) = IF i >= j THEN i ELSE j
  BY DEF Max

-----------------------------------------------------------------------------
Change == [key : Keys \cup {None}, deleted : BOOLEAN, matches : BOOLEAN]
WatchEvent == [kind : {"put", "deleted", "bookmark"}, key : Keys \cup {None},
               matches : BOOLEAN, rev : Nat]

Loading == [at : {"idle", "load", "list"}, seen : Nat, asked : Nat, signature : Nat,
            revision : Nat, passed : Nat]

TypeOK ==
    /\ hist \in Seq(Change)
    /\ \A r \in 1 .. Len(hist) : hist[r].key # None /\ ~hist[r].deleted => hist[r].matches \in Labels
    /\ reflector \in [at : {"list", "open", "watch", "backoff"}, pos : Nat]
    /\ cache \in [items : [Keys -> Nat], history : Seq(WatchEvent), floor : Nat,
                  revision : Nat, content : Nat]
    /\ rx \in [queue : Seq(WatchEvent), lagged : BOOLEAN, open : BOOLEAN]
    /\ client \in [at : {"list", "start", "watch"}, view : [Keys -> Nat], rv : Nat,
                   newest : Nat, replay : Seq(WatchEvent)]
    /\ compacted \in Nat /\ listed \in [at : Nat, filled : Nat]
    /\ authorizer \in Loading

-----------------------------------------------------------------------------
(* A stream of events from position p on: each tells a write, or that there *)
(* was none, and no write of this resource falls between two of them.       *)
Silent(i, j) == \A r \in i + 1 .. j : hist[r].key = None

Tells(e) ==
    /\ e.rev \in 1 .. Len(hist)
    /\ e.key = hist[e.rev].key
    /\ (e.kind = "bookmark") <=> (e.key = None)
    /\ e.key # None => ((e.kind = "deleted") <=> hist[e.rev].deleted)
    /\ Labels = {TRUE} => e.matches

End(p, s)       == IF s = <<>> THEN p ELSE s[Len(s)].rev
Before(p, s, i) == IF i = 1 THEN p ELSE s[i - 1].rev

Stream(p, s) ==
    \A i \in 1 .. Len(s) :
        /\ Tells(s[i])
        /\ Silent(Before(p, s, i), s[i].rev - 1)
        /\ i > 1 => s[i - 1].rev < s[i].rev

(* The cache is a snapshot at its revision, its ring a stream up to it, and *)
(* the reflector has passed nothing that the cache has not.                 *)
CacheInv ==
    /\ cache.items = StateAt(cache.revision)
    /\ cache.revision <= Len(hist)
    /\ cache.content <= cache.revision /\ Silent(cache.content, cache.revision)
    /\ Stream(cache.floor, cache.history) /\ End(cache.floor, cache.history) = cache.revision
    /\ reflector.at \in {"open", "watch"} =>
         /\ cache.revision <= reflector.pos /\ reflector.pos <= Len(hist)
         /\ Silent(cache.revision, reflector.pos)
    /\ rx.open /\ rx.queue # <<>> => rx.queue[Len(rx.queue)].rev = cache.revision

(* Nothing was written to this resource since nodestore read the list it has. *)
ListInv ==
    listed # Unlisted => /\ listed.at <= listed.filled /\ listed.filled <= Len(hist)
                         /\ Silent(listed.filled, Len(hist))

(* What the authorizer has is no older than the content it goes by, but for *)
(* what its list passed over.                                              *)
AuthorizerInv ==
    /\ authorizer.seen <= Len(hist)
    /\ authorizer.at = "list" => authorizer.seen <= authorizer.asked /\ authorizer.asked <= Len(hist)
    /\ authorizer.signature <= Len(hist)
    /\ \A i \in 1 .. authorizer.signature :
          hist[i].key # None => i <= authorizer.revision \/ i <= authorizer.passed

(* Only the client moves the client.                                        *)
OneReader == client.at # "list" => reader = "client"

(* The caches that run are those of some revision, and what the receiver    *)
(* has yet to hear leads from there to the cache.                           *)
Follows(p) ==
    /\ registered = Present(StateAt(p))
    /\ Stream(p, rx.queue)
    /\ IF rx.queue = <<>> THEN p <= cache.revision ELSE p < Head(rx.queue).rev
    /\ Silent(End(p, rx.queue), cache.revision)

RegistrationsInv ==
    Reconciling /\ rx.open /\ ~rx.lagged => \E p \in 0 .. Len(hist) : Follows(p)

(* A client's view of an object is that of its position, unless a write it  *)
(* has seen the effect of is still to come to it.                           *)
Told(k) == \/ client.view[k] = StateAt(client.rv)[k]
           \/ \E w \in Writes(k, client.newest) : w > client.rv

Heard == End(client.rv, client.replay)

ClientInv ==
    /\ client.at # "list" =>
         /\ client.rv <= client.newest /\ client.newest <= Len(hist)
         /\ \A k \in Keys : Told(k)
    /\ client.at = "watch" =>
         /\ Stream(client.rv, client.replay)
         /\ ~rx.lagged =>
              /\ Stream(Heard, rx.queue)
              /\ rx.open => Silent(End(Heard, rx.queue), cache.revision)

IInv == TypeOK /\ CacheInv /\ ListInv /\ AuthorizerInv /\ OneReader /\ RegistrationsInv
               /\ (Labels = {TRUE} => ClientInv)

-----------------------------------------------------------------------------
(* The state of the store at its revisions.                                  *)

(* An entry of the state names the last write of its object, which is there. *)
LEMMA StateType ==
    ASSUME TypeOK, NEW r \in 0 .. Len(hist)
    PROVE  /\ StateAt(r) \in [Keys -> Nat]
           /\ \A k \in Keys : StateAt(r)[k] # 0 =>
                /\ StateAt(r)[k] \in 1 .. r
                /\ hist[StateAt(r)[k]].key = k /\ ~hist[StateAt(r)[k]].deleted
  <1>1. ASSUME NEW k \in Keys, Writes(k, r) # {}
        PROVE  Max(Writes(k, r)) \in Writes(k, r)
    <2>1. /\ Writes(k, r) \subseteq Nat /\ r \in Nat
          /\ \A y \in Writes(k, r) : y <= r
      BY DEF Writes, TypeOK
    <2> QED
      BY <1>1, <2>1, MaxIsGreatest
  <1>2. ASSUME NEW k \in Keys
        PROVE  StateAt(r)[k] # 0 =>
                /\ StateAt(r)[k] \in Writes(k, r) /\ ~hist[StateAt(r)[k]].deleted
    BY <1>1 DEF StateAt
  <1>3. \A k \in Keys : StateAt(r)[k] = 0 \/ StateAt(r)[k] \in Writes(k, r)
    BY <1>2
  <1>4. \A k \in Keys : Writes(k, r) \subseteq 1 .. r
    BY DEF Writes
  <1>5. StateAt(r) \in [Keys -> Nat]
    <2>1. StateAt(r) = [k \in Keys |-> StateAt(r)[k]]
      BY DEF StateAt
    <2>2. \A k \in Keys : StateAt(r)[k] \in Nat
      BY <1>3, <1>4
    <2> QED
      BY <2>1, <2>2
  <1> QED
    BY <1>2, <1>4, <1>5 DEF Writes

(* An object that nothing writes stays what it is.                           *)
LEMMA QuietKey ==
    ASSUME TypeOK, NEW k \in Keys, NEW i \in 0 .. Len(hist), NEW j \in 0 .. Len(hist), i <= j,
           \A r \in i + 1 .. j : hist[r].key # k
    PROVE  StateAt(i)[k] = StateAt(j)[k]
  <1>1. Writes(k, i) = Writes(k, j)
    BY SMTT(30) DEF Writes, TypeOK
  <1> QED
    BY <1>1 DEF StateAt

(* So does a store in which nothing of this resource is written.             *)
LEMMA SilentState ==
    ASSUME TypeOK, NEW i \in 0 .. Len(hist), NEW j \in 0 .. Len(hist), i <= j, Silent(i, j)
    PROVE  StateAt(i) = StateAt(j)
  <1>1. \A k \in Keys : StateAt(i)[k] = StateAt(j)[k]
    BY QuietKey, BoundsAssumption DEF Silent
  <1> QED
    BY <1>1 DEF StateAt

(* A write makes its object what it says.                                    *)
LEMMA StateStep ==
    ASSUME TypeOK, NEW r \in 1 .. Len(hist), hist[r].key \in Keys
    PROVE  StateAt(r)[hist[r].key] = IF hist[r].deleted THEN 0 ELSE r
  <1> DEFINE k == hist[r].key
  <1>1. /\ Writes(k, r) \subseteq Nat /\ r \in Nat /\ r \in Writes(k, r)
        /\ \A y \in Writes(k, r) : y <= r
    BY DEF Writes, TypeOK
  <1>2. Max(Writes(k, r)) \in Nat /\ Max(Writes(k, r)) <= r /\ Max(Writes(k, r)) >= r
    <2>1. /\ Max(Writes(k, r)) \in Writes(k, r)
          /\ \A y \in Writes(k, r) : Max(Writes(k, r)) >= y
      BY <1>1, MaxIsGreatest
    <2> QED
      BY <1>1, <2>1
  <1>3. Max(Writes(k, r)) = r /\ Writes(k, r) # {}
    BY <1>1, <1>2
  <1> QED
    BY <1>3 DEF StateAt

-----------------------------------------------------------------------------
(* Streams.                                                                  *)

(* What a stream says stays true: the history only grows.                    *)
LEMMA HistoryKept ==
    ASSUME TypeOK, TypeOK', Len(hist) <= Len(hist'),
           \A r \in 1 .. Len(hist) : hist'[r] = hist[r]
    PROVE  /\ \A i, j \in Nat : j <= Len(hist) => (Silent(i, j)' <=> Silent(i, j))
           /\ \A s \in Seq(WatchEvent), p \in Nat : Stream(p, s) => Stream(p, s)'
           /\ \A r \in Nat : r <= Len(hist) => StateAt(r)' = StateAt(r)
           /\ \A k, r : r \in Nat /\ r <= Len(hist) => Writes(k, r)' = Writes(k, r)
  <1>1. Len(hist) \in Nat /\ Len(hist') \in Nat
    BY LenProperties DEF TypeOK
  <1>2. ASSUME NEW i \in Nat, NEW j \in Nat, j <= Len(hist)
        PROVE  Silent(i, j)' <=> Silent(i, j)
    BY <1>1, <1>2 DEF Silent
  <1>3. ASSUME NEW k, NEW r \in Nat, r <= Len(hist)
        PROVE  Writes(k, r)' = Writes(k, r)
    BY <1>1, <1>3 DEF Writes
  <1>4. ASSUME NEW r \in Nat, r <= Len(hist)
        PROVE  StateAt(r)' = StateAt(r)
    <2>1. ASSUME NEW k \in Keys, Writes(k, r) # {}
          PROVE  hist'[Max(Writes(k, r))] = hist[Max(Writes(k, r))]
      <3>1. /\ Writes(k, r) \subseteq Nat
            /\ \A y \in Writes(k, r) : y <= r
        BY DEF Writes
      <3>2. Max(Writes(k, r)) \in Writes(k, r)
        BY <2>1, <3>1, MaxIsGreatest
      <3> QED
        BY <3>2, <1>1, <1>4 DEF Writes
    <2>2. \A k \in Keys : Writes(k, r)' = Writes(k, r)
      BY <1>3, <1>4
    <2> QED
      BY <2>1, <2>2 DEF StateAt
  <1>5. ASSUME NEW s \in Seq(WatchEvent), NEW p \in Nat, Stream(p, s), NEW i \in 1 .. Len(s)
        PROVE  /\ Tells(s[i])' /\ Silent(Before(p, s, i), s[i].rev - 1)'
               /\ i > 1 => s[i - 1].rev < s[i].rev
    <2>1. /\ s[i] \in WatchEvent /\ Tells(s[i]) /\ Silent(Before(p, s, i), s[i].rev - 1)
          /\ i > 1 => s[i - 1].rev < s[i].rev
      BY <1>5, ElementOfSeq DEF Stream
    <2>2. s[i].rev \in 1 .. Len(hist)
      BY <2>1 DEF Tells
    <2>3. Before(p, s, i) \in Nat
      <3>1. i > 1 => s[i - 1] \in WatchEvent
        BY <1>5, ElementOfSeq
      <3> QED
        BY <3>1 DEF Before, WatchEvent
    <2>4. Silent(Before(p, s, i), s[i].rev - 1)'
      BY <1>1, <1>2, <2>1, <2>2, <2>3
    <2>5. hist'[s[i].rev] = hist[s[i].rev] /\ s[i].rev \in 1 .. Len(hist')
      BY <1>1, <2>2
    <2>6. Tells(s[i])'
      BY <2>1, <2>5 DEF Tells
    <2> QED
      BY <2>1, <2>4, <2>6
  <1> QED
    BY <1>2, <1>3, <1>4, <1>5 DEF Stream

(* One more event, where the stream ends.                                    *)
LEMMA StreamAppend ==
    ASSUME TypeOK, NEW p \in Nat, NEW s \in Seq(WatchEvent), Stream(p, s),
           NEW e \in WatchEvent, Tells(e), Silent(End(p, s), e.rev - 1),
           s # <<>> => s[Len(s)].rev < e.rev
    PROVE  /\ Append(s, e) \in Seq(WatchEvent)
           /\ Stream(p, Append(s, e)) /\ End(p, Append(s, e)) = e.rev
  <1> DEFINE t == Append(s, e)
  <1>1. /\ t \in Seq(WatchEvent) /\ Len(t) = Len(s) + 1 /\ t # <<>>
        /\ \A i \in 1 .. Len(s) : t[i] = s[i]
        /\ t[Len(s) + 1] = e /\ Len(s) \in Nat
    BY AppendProperties
  <1>2. ASSUME NEW i \in 1 .. Len(s)
        PROVE  Before(p, t, i) = Before(p, s, i) /\ (i > 1 => t[i - 1] = s[i - 1])
    BY <1>1 DEF Before
  <1>3. Before(p, t, Len(s) + 1) = End(p, s)
    BY <1>1 DEF Before, End
  <1>4. ASSUME NEW i \in 1 .. Len(t)
        PROVE  /\ Tells(t[i]) /\ Silent(Before(p, t, i), t[i].rev - 1)
               /\ i > 1 => t[i - 1].rev < t[i].rev
    <2>1. CASE i \in 1 .. Len(s)
      BY <1>1, <1>2, <2>1 DEF Stream
    <2>2. CASE i = Len(s) + 1
      BY <1>1, <1>3, <2>2
    <2> QED
      BY <1>1, <2>1, <2>2
  <1> HIDE DEF t
  <1>5. End(p, t) = e.rev
    BY <1>1 DEF End
  <1> QED
    BY <1>1, <1>4, <1>5 DEF Stream, t

(* The last of what is left is the last there was.                           *)
LEMMA LastOfTail ==
    ASSUME NEW S, NEW s \in Seq(S), Tail(s) # <<>>, s # <<>>
    PROVE  Tail(s)[Len(Tail(s))] = s[Len(s)]
  <1>1. /\ Tail(s) \in Seq(S) /\ Len(Tail(s)) = Len(s) - 1 /\ Len(s) \in Nat \ {0}
        /\ \A i \in 1 .. Len(Tail(s)) : Tail(s)[i] = s[i + 1]
    BY HeadTailProperties, EmptySeq
  <1>2. Len(Tail(s)) # 0
    BY <1>1, EmptySeq
  <1> QED
    BY <1>1, <1>2

(* The first event taken off, the rest is a stream from it on.               *)
LEMMA StreamTail ==
    ASSUME TypeOK, NEW p \in Nat, NEW s \in Seq(WatchEvent), Stream(p, s), s # <<>>
    PROVE  /\ Head(s) \in WatchEvent /\ Tells(Head(s)) /\ Silent(p, Head(s).rev - 1)
           /\ Tail(s) \in Seq(WatchEvent) /\ Stream(Head(s).rev, Tail(s))
           /\ End(Head(s).rev, Tail(s)) = End(p, s)
           /\ Tail(s) # <<>> => Head(s).rev < Head(Tail(s)).rev
  <1> DEFINE t == Tail(s)
  <1>1. /\ t \in Seq(WatchEvent) /\ Head(s) = s[1] /\ s[1] \in WatchEvent
        /\ Len(t) = Len(s) - 1 /\ Len(s) \in Nat \ {0}
        /\ \A i \in 1 .. Len(t) : t[i] = s[i + 1]
    BY HeadTailProperties, EmptySeq
  <1> HIDE DEF t
  <1>2. Tells(s[1]) /\ Silent(p, s[1].rev - 1)
    BY <1>1 DEF Stream, Before
  <1>3. ASSUME NEW i \in 1 .. Len(t)
        PROVE  /\ Tells(t[i]) /\ Silent(Before(s[1].rev, t, i), t[i].rev - 1)
               /\ i > 1 => t[i - 1].rev < t[i].rev
    <2>1. /\ Tells(s[i + 1]) /\ Silent(s[i].rev, s[i + 1].rev - 1)
          /\ s[i].rev < s[i + 1].rev
      BY SMTT(30), <1>1 DEF Stream, Before
    <2>2. t[i] = s[i + 1] /\ Before(s[1].rev, t, i) = s[i].rev /\ (i > 1 => t[i - 1] = s[i])
      BY <1>1 DEF Before
    <2> QED
      BY <2>1, <2>2
  <1>4. End(s[1].rev, t) = End(p, s) /\ (t # <<>> => s[1].rev < t[1].rev)
    <2>1. CASE t = <<>>
      <3>1. Len(t) = 0
        BY <2>1, EmptySeq
      <3>2. Len(s) = 1
        BY <1>1, <3>1
      <3> QED
        BY <2>1, <3>2 DEF End
    <2>2. CASE t # <<>>
      <3>1. Len(t) \in Nat \ {0}
        BY <1>1, <2>2, EmptySeq
      <3>2. t[1] = s[2] /\ s[1].rev < s[2].rev
        BY <1>1, <3>1 DEF Stream
      <3>3. t[Len(t)] = s[Len(s)]
        BY <1>1, <3>1
      <3> QED
        BY <1>1, <2>2, <3>2, <3>3, EmptySeq DEF End
    <2> QED
      BY <2>1, <2>2
  <1>5. t # <<>> => Head(t) = t[1]
    BY <1>1, HeadTailProperties
  <1> QED
    BY <1>1, <1>2, <1>3, <1>4, <1>5 DEF Stream, t

(* The tail of the ring from a revision on.                                  *)
LEMMA NewerStream ==
    ASSUME TypeOK, CacheInv, NEW r \in Nat, r >= cache.floor
    PROVE  /\ Newer(r) \in Seq(WatchEvent) /\ Stream(r, Newer(r))
           /\ Silent(End(r, Newer(r)), cache.revision)
  <1> DEFINE h == cache.history
             newer == {i \in 1 .. Len(h) : h[i].rev > r}
             first == Min(newer)
  <1>1. /\ h \in Seq(WatchEvent) /\ Len(h) \in Nat /\ cache.floor \in Nat
        /\ cache.revision \in Nat
        /\ \A i \in 1 .. Len(h) : h[i] \in WatchEvent /\ h[i].rev \in Nat
    <2>1. h \in Seq(WatchEvent) /\ cache.floor \in Nat /\ cache.revision \in Nat
      BY DEF TypeOK
    <2>2. \A i \in 1 .. Len(h) : h[i] \in WatchEvent
      BY <2>1, ElementOfSeq
    <2> QED
      BY <2>1, <2>2, LenProperties DEF WatchEvent
  <1>2. Stream(cache.floor, h) /\ End(cache.floor, h) = cache.revision
    BY DEF CacheInv
  <1>3. Newer(r) = IF newer = {} THEN <<>> ELSE IF first = 0 THEN <<>> ELSE SubSeq(h, first, Len(h))
    BY DEF Newer, SelectInSeq
  <1>0. newer \subseteq 1 .. Len(h) /\ \A i \in 1 .. Len(h) : i \in newer <=> h[i].rev > r
    OBVIOUS
  <1> HIDE DEF newer
  <1>4. CASE newer = {}
    <2>1. cache.revision <= r
      BY <1>1, <1>2, <1>4, <1>0, EmptySeq DEF End
    <2>2. Newer(r) = <<>>
      BY <1>3, <1>4
    <2> QED
      BY <1>1, <2>1, <2>2, EmptySeq DEF Stream, End, Silent
  <1>5. CASE newer # {}
    <2> DEFINE t == SubSeq(h, first, Len(h))
    <2>0. newer \subseteq Nat
      BY <1>0
    <2>1. first \in newer /\ \A i \in newer : first <= i
      BY <1>5, <2>0, MinIsLeast
    <2> HIDE DEF first
    <2>a. first \in 1 .. Len(h) /\ h[first].rev > r
      BY <1>0, <2>1
    <2>2. Newer(r) = t
      BY <1>3, <1>5, <2>a
    <2>3. /\ t \in Seq(WatchEvent) /\ Len(t) = Len(h) - first + 1
          /\ \A i \in 1 .. Len(t) : t[i] = h[first + i - 1]
      BY <1>1, <2>a, SubSeqProperties
    <2> HIDE DEF t
    <2>4. t # <<>> /\ Len(t) \in Nat \ {0}
      BY <1>1, <2>a, <2>3, EmptySeq
    <2>5. h # <<>>
      BY <1>1, <2>a, EmptySeq
    <2>6. End(r, t) = cache.revision
      <3>1. t[Len(t)] = h[Len(h)]
        BY <1>1, <2>a, <2>3, <2>4
      <3> QED
        BY <1>2, <2>4, <2>5, <3>1 DEF End
    <2>7. Silent(r, t[1].rev - 1)
      <3>1. /\ t[1] = h[first] /\ Silent(Before(cache.floor, h, first), h[first].rev - 1)
            /\ first \in 1 .. Len(h)
        <4>1. Silent(Before(cache.floor, h, first), h[first].rev - 1)
          BY <1>2, <2>a DEF Stream
        <4>2. t[1] = h[first]
          BY SMTT(30), <1>1, <2>a, <2>3, <2>4
        <4> QED
          BY <2>a, <4>1, <4>2
      <3>2. first > 1 => h[first - 1].rev <= r
        BY <1>1, <1>0, <2>1, <2>a
      <3>3. Before(cache.floor, h, first) \in Nat /\ Before(cache.floor, h, first) <= r
        BY <1>1, <3>1, <3>2 DEF Before
      <3> QED
        BY <1>1, <3>1, <3>3 DEF Silent
    <2>8. ASSUME NEW i \in 1 .. Len(t)
          PROVE  /\ Tells(t[i]) /\ Silent(Before(r, t, i), t[i].rev - 1)
                 /\ i > 1 => t[i - 1].rev < t[i].rev
      <3>1. t[i] = h[first + i - 1] /\ first + i - 1 \in 1 .. Len(h)
        BY <1>1, <2>a, <2>3
      <3>2. i > 1 => t[i - 1] = h[first + i - 2]
        BY <1>1, <2>a, <2>3
      <3>3. /\ Tells(h[first + i - 1])
            /\ i > 1 => /\ h[first + i - 2].rev < h[first + i - 1].rev
                        /\ Silent(h[first + i - 2].rev, h[first + i - 1].rev - 1)
        BY <1>1, <1>2, <2>a, <3>1 DEF Stream, Before
      <3>4. CASE i = 1
        BY <3>1, <3>3, <3>4, <2>7 DEF Before
      <3>5. CASE i > 1
        BY <3>1, <3>2, <3>3, <3>5 DEF Before
      <3> QED
        BY <3>4, <3>5
    <2>9. Silent(End(r, t), cache.revision)
      BY <1>1, <2>6 DEF Silent
    <2> QED
      BY <2>2, <2>3, <2>8, <2>9 DEF Stream
  <1> QED
    BY <1>4, <1>5

-----------------------------------------------------------------------------
(* The shape of the variables.                                               *)

(* The event of a write is an event, of its revision.                        *)
LEMMA EventType ==
    ASSUME TypeOK, NEW r \in 1 .. Len(hist), hist[r].key # None
    PROVE  EventAt(r) \in WatchEvent /\ EventAt(r).rev = r
  <1>1. hist[r] \in Change
    BY ElementOfSeq DEF TypeOK
  <1>2. hist[r].key \in Keys /\ hist[r].matches \in BOOLEAN
    BY <1>1 DEF Change
  <1>3. cache.items[hist[r].key] # 0 => cache.items[hist[r].key] \in Nat
    BY <1>2 DEF TypeOK
  <1> QED
    BY <1>1, <1>2 DEF EventAt, WatchEvent, Change

(* The channel with one more event: the newest is in it, and a receiver that *)
(* has not lagged has what it had before it.                                 *)
LEMMA OfferedType ==
    ASSUME TypeOK, NEW e \in WatchEvent
    PROVE  /\ Offered(e) \in [queue : Seq(WatchEvent), lagged : BOOLEAN, open : BOOLEAN]
           /\ Offered(e).open = rx.open
           /\ rx.open => Offered(e).queue # <<>>
           /\ rx.open => Offered(e).queue[Len(Offered(e).queue)] = e
           /\ rx.open /\ ~Offered(e).lagged =>
                 ~rx.lagged /\ Offered(e).queue = Append(rx.queue, e)
           /\ ~rx.open => Offered(e) = rx
  <1>1. /\ rx = [queue |-> rx.queue, lagged |-> rx.lagged, open |-> rx.open]
        /\ rx.queue \in Seq(WatchEvent) /\ rx.lagged \in BOOLEAN /\ rx.open \in BOOLEAN
    BY DEF TypeOK
  <1>2. ASSUME NEW s \in Seq(WatchEvent)
        PROVE  /\ Append(s, e) \in Seq(WatchEvent) /\ Append(s, e) # <<>>
               /\ Append(s, e)[Len(Append(s, e))] = e
    BY AppendProperties, LenProperties
  <1>3. Len(rx.queue) >= EventBuffer => Tail(rx.queue) \in Seq(WatchEvent)
    BY <1>1, HeadTailProperties, EmptySeq, BuffersAssumption
  <1>4. CASE ~rx.open
    BY <1>1, <1>4 DEF Offered
  <1>5. CASE rx.open /\ Len(rx.queue) < EventBuffer
    BY <1>1, <1>2, <1>5 DEF Offered
  <1>6. CASE rx.open /\ ~(Len(rx.queue) < EventBuffer)
    <2>1. Tail(rx.queue) \in Seq(WatchEvent)
      BY <1>1, <1>3, <1>6, LenProperties, BuffersAssumption
    <2>2. /\ Offered(e).queue = Append(Tail(rx.queue), e) /\ Offered(e).lagged
          /\ Offered(e).open = rx.open
          /\ Offered(e) = [queue |-> Append(Tail(rx.queue), e), lagged |-> TRUE, open |-> rx.open]
      BY <1>1, <1>6 DEF Offered
    <2> QED
      BY <1>1, <1>2, <1>6, <2>1, <2>2
  <1> QED
    BY <1>4, <1>5, <1>6

(* The ring is one of events, and its floor a revision.                      *)
LEMMA RetainedType ==
    ASSUME TypeOK, NEW e \in WatchEvent
    PROVE  Retained(e).history \in Seq(WatchEvent) /\ Retained(e).floor \in Nat
  <1>1. cache.history \in Seq(WatchEvent) /\ cache.floor \in Nat /\ e.rev \in Nat
    BY DEF TypeOK, WatchEvent
  <1>2. CASE HistoryLimit = 0
    BY <1>1, <1>2, EmptySeq DEF Retained
  <1>3. CASE HistoryLimit # 0 /\ Len(cache.history) = HistoryLimit
    <2>1. Tail(cache.history) \in Seq(WatchEvent) /\ Head(cache.history) \in WatchEvent
      BY <1>1, <1>3, HeadTailProperties, EmptySeq
    <2>2. Append(Tail(cache.history), e) \in Seq(WatchEvent) /\ Head(cache.history).rev \in Nat
      BY <2>1, AppendProperties DEF WatchEvent
    <2> QED
      BY <1>3, <2>2 DEF Retained
  <1>4. CASE HistoryLimit # 0 /\ Len(cache.history) # HistoryLimit
    BY <1>1, <1>4, AppendProperties DEF Retained
  <1> QED
    BY <1>2, <1>3, <1>4

(* The cache keeps its shape.                                                *)
LEMMA AppliedType ==
    ASSUME TypeOK, NEW e \in WatchEvent, e.kind # "bookmark" => e.key \in Keys
    PROVE  Applied(e) \in [items : [Keys -> Nat], history : Seq(WatchEvent), floor : Nat,
                           revision : Nat, content : Nat]
  <1>1. Retained(e).history \in Seq(WatchEvent) /\ Retained(e).floor \in Nat
    BY RetainedType
  <1>2. cache.items \in [Keys -> Nat] /\ cache.content \in Nat /\ e.rev \in Nat
        /\ e.kind \in {"put", "deleted", "bookmark"}
    BY DEF TypeOK, WatchEvent
  <1> QED
    BY <1>1, <1>2 DEF Applied

-----------------------------------------------------------------------------
(* The cache applies an event.                                               *)

(* From a state to that of the next event of a stream.                       *)
LEMMA NextState ==
    ASSUME TypeOK, NEW e \in WatchEvent, Tells(e), NEW p \in 0 .. Len(hist), p < e.rev,
           Silent(p, e.rev - 1)
    PROVE  StateAt(e.rev) = CASE e.kind = "put" -> [StateAt(p) EXCEPT ![e.key] = e.rev]
                              [] e.kind = "deleted" -> [StateAt(p) EXCEPT ![e.key] = 0]
                              [] OTHER -> StateAt(p)
  <1>1. /\ e.rev \in 1 .. Len(hist) /\ e.rev \in 0 .. Len(hist) /\ Len(hist) \in Nat
        /\ hist[e.rev] \in Change /\ e.key = hist[e.rev].key
    <2>1. Len(hist) \in Nat
      BY LenProperties DEF TypeOK
    <2>2. e.rev \in 1 .. Len(hist) /\ e.key = hist[e.rev].key
      BY DEF Tells
    <2>3. hist[e.rev] \in Change
      BY <2>2, ElementOfSeq DEF TypeOK
    <2> QED
      BY <2>1, <2>2, <2>3
  <1>2. ASSUME NEW k \in Keys, k # e.key
        PROVE  StateAt(e.rev)[k] = StateAt(p)[k]
    <2>1. \A r \in p + 1 .. e.rev : hist[r].key # k
      BY <1>1, <1>2, BoundsAssumption DEF Silent
    <2> QED
      BY <1>1, <2>1, QuietKey
  <1>3. StateAt(e.rev) \in [Keys -> Nat] /\ StateAt(p) \in [Keys -> Nat]
    BY <1>1, StateType
  <1>4. CASE e.key \in Keys
    <2>1. StateAt(e.rev)[e.key] = IF hist[e.rev].deleted THEN 0 ELSE e.rev
      BY <1>1, <1>4, StateStep
    <2>2. /\ e.kind \in {"put", "deleted"}
          /\ (e.kind = "deleted") <=> hist[e.rev].deleted
      BY <1>4, BoundsAssumption DEF Tells, WatchEvent
    <2>3. StateAt(e.rev) = [StateAt(p) EXCEPT ![e.key] = IF hist[e.rev].deleted THEN 0 ELSE e.rev]
      BY <1>2, <1>3, <1>4, <2>1
    <2> QED
      BY <2>2, <2>3
  <1>5. CASE e.key = None
    <2>1. e.kind = "bookmark"
      BY <1>5 DEF Tells
    <2>2. StateAt(e.rev) = StateAt(p)
      BY <1>2, <1>3, <1>5, BoundsAssumption
    <2> QED
      BY <2>1, <2>2
  <1> QED
    BY <1>4, <1>5 DEF WatchEvent

(* The cache that has applied an event is the state at its revision.         *)
LEMMA AppliedState ==
    ASSUME TypeOK, CacheInv, NEW e \in WatchEvent, Tells(e), cache.revision < e.rev,
           Silent(cache.revision, e.rev - 1)
    PROVE  Applied(e).items = StateAt(e.rev)
  <1>1. cache.revision \in 0 .. Len(hist) /\ cache.items = StateAt(cache.revision)
    BY LenProperties DEF TypeOK, CacheInv
  <1>2. StateAt(e.rev) = CASE e.kind = "put" -> [cache.items EXCEPT ![e.key] = e.rev]
                           [] e.kind = "deleted" -> [cache.items EXCEPT ![e.key] = 0]
                           [] OTHER -> cache.items
    BY <1>1, NextState
  <1> QED
    BY <1>2 DEF Applied

(* Its ring is a stream up to that revision.                                 *)
LEMMA AppliedRing ==
    ASSUME TypeOK, CacheInv, NEW e \in WatchEvent, Tells(e), cache.revision < e.rev,
           Silent(cache.revision, e.rev - 1)
    PROVE  /\ Stream(Retained(e).floor, Retained(e).history)
           /\ End(Retained(e).floor, Retained(e).history) = e.rev
  <1> DEFINE h == cache.history
  <1>1. /\ h \in Seq(WatchEvent) /\ cache.floor \in Nat /\ cache.revision \in Nat /\ e.rev \in Nat
        /\ Stream(cache.floor, h) /\ End(cache.floor, h) = cache.revision
    BY DEF TypeOK, CacheInv, WatchEvent
  <1>2. h # <<>> => h[Len(h)].rev = cache.revision
    BY <1>1 DEF End
  <1>3. CASE HistoryLimit = 0
    BY <1>3, EmptySeq DEF Retained, Stream, End
  <1>4. CASE HistoryLimit # 0 /\ Len(h) = HistoryLimit
    <2> DEFINE p == Head(h).rev
               t == Tail(h)
    <2>1. h # <<>>
      BY <1>4, EmptySeq
    <2>2. /\ Head(h) \in WatchEvent /\ t \in Seq(WatchEvent) /\ Stream(p, t)
          /\ End(p, t) = cache.revision /\ (t # <<>> => t[Len(t)].rev = cache.revision)
      BY <1>1, <1>2, <2>1, StreamTail, LastOfTail
    <2>3. p \in Nat /\ Silent(End(p, t), e.rev - 1) /\ (t # <<>> => t[Len(t)].rev < e.rev)
      BY <2>2 DEF WatchEvent
    <2> HIDE DEF p, t
    <2>4. Stream(p, Append(t, e)) /\ End(p, Append(t, e)) = e.rev
      BY <2>2, <2>3, StreamAppend
    <2> QED
      BY <1>4, <2>4 DEF Retained, p, t
  <1>5. CASE HistoryLimit # 0 /\ Len(h) # HistoryLimit
    <2>1. Stream(cache.floor, Append(h, e)) /\ End(cache.floor, Append(h, e)) = e.rev
      BY <1>1, <1>2, StreamAppend
    <2> QED
      BY <1>5, <2>1 DEF Retained
  <1> QED
    BY <1>3, <1>4, <1>5

(* ... and passes it to its receiver.                                        *)
LEMMA OfferedStream ==
    ASSUME TypeOK, CacheInv, NEW e \in WatchEvent, Tells(e), cache.revision < e.rev,
           Silent(cache.revision, e.rev - 1), NEW p \in Nat,
           rx.open, ~Offered(e).lagged, Stream(p, rx.queue), Silent(End(p, rx.queue), cache.revision)
    PROVE  Stream(p, Offered(e).queue) /\ End(p, Offered(e).queue) = e.rev
  <1>1. /\ rx.queue \in Seq(WatchEvent) /\ cache.revision \in Nat /\ e.rev \in Nat
        /\ rx.queue # <<>> => rx.queue[Len(rx.queue)].rev = cache.revision
    BY DEF TypeOK, CacheInv, WatchEvent
  <1>2. End(p, rx.queue) \in Nat
    <2>1. rx.queue # <<>> => rx.queue[Len(rx.queue)].rev \in Nat
      BY <1>1
    <2> QED
      BY <2>1 DEF End
  <1>3. Silent(End(p, rx.queue), e.rev - 1)
    BY <1>1, <1>2 DEF Silent
  <1>4. Stream(p, Append(rx.queue, e)) /\ End(p, Append(rx.queue, e)) = e.rev
    BY <1>1, <1>3, StreamAppend
  <1> QED
    BY <1>4, OfferedType

(* The event of a write tells what was written there.                        *)
LEMMA EventTells ==
    ASSUME TypeOK, CacheInv, NEW r \in 1 .. Len(hist), hist[r].key # None, cache.revision < r
    PROVE  Tells(EventAt(r)) /\ EventAt(r).kind # "bookmark" /\ EventAt(r).key \in Keys
  <1>1. hist[r] \in Change
    BY ElementOfSeq DEF TypeOK
  <1>2. hist[r].key \in Keys
    BY <1>1 DEF Change
  <1>3. ASSUME Labels = {TRUE} PROVE EventAt(r).matches
    <2>1. ~hist[r].deleted => hist[r].matches
      BY <1>2, <1>3, BoundsAssumption DEF TypeOK
    <2> DEFINE i == cache.items[hist[r].key]
    <2>2. i = 0 \/ hist[i].matches
      <3>1. cache.revision \in 0 .. Len(hist) /\ i = StateAt(cache.revision)[hist[r].key]
        BY DEF TypeOK, CacheInv
      <3>2. i # 0 => i \in 1 .. cache.revision /\ hist[i].key \in Keys /\ ~hist[i].deleted
        BY <1>2, <3>1, StateType
      <3>3. i # 0 => i \in 1 .. Len(hist) /\ hist[i].key # None
        BY <3>1, <3>2, BoundsAssumption
      <3> QED
        BY <1>3, <3>2, <3>3 DEF TypeOK
    <2> QED
      BY <2>1, <2>2 DEF EventAt
  <1>4. Tells(EventAt(r))
    BY <1>1, <1>2, <1>3, BoundsAssumption DEF EventAt, Tells
  <1> QED
    BY <1>2, <1>4 DEF EventAt

(* ... and so does the bookmark of a position after a silence.               *)
LEMMA BookmarkTells ==
    ASSUME TypeOK, NEW i \in Nat, NEW r \in 1 .. Len(hist), i < r, Silent(i, r)
    PROVE  Bookmark(r) \in WatchEvent /\ Tells(Bookmark(r)) /\ Silent(i, r - 1)
  BY DEF Bookmark, WatchEvent, Tells, Silent

(* A step that writes nothing changes nothing that is read off the history. *)
LEMMA SameHistory ==
    ASSUME hist' = hist
    PROVE  /\ \A i, j : Silent(i, j)' <=> Silent(i, j)
           /\ \A e : Tells(e)' <=> Tells(e)
           /\ \A p, s : Stream(p, s)' <=> Stream(p, s)
           /\ \A r : StateAt(r)' = StateAt(r)
           /\ \A k, r : Writes(k, r)' = Writes(k, r)
  <1>1. \A i, j : Silent(i, j)' <=> Silent(i, j)
    BY DEF Silent
  <1>2. \A e : Tells(e)' <=> Tells(e)
    BY DEF Tells
  <1>3. \A k, r : Writes(k, r)' = Writes(k, r)
    BY DEF Writes
  <1>4. \A r : StateAt(r)' = StateAt(r)
    BY <1>3 DEF StateAt
  <1>5. ASSUME NEW p, NEW s PROVE Stream(p, s)' <=> Stream(p, s)
    BY <1>1, <1>2 DEF Stream
  <1> QED
    BY <1>1, <1>2, <1>3, <1>4, <1>5

(* An event that comes to a client: its view of the object is the store's,   *)
(* and its views of the others are as far as they were.                      *)
LEMMA ReceivedTold ==
    ASSUME TypeOK, Labels = {TRUE}, NEW e \in WatchEvent, Tells(e),
           client.rv <= client.newest, client.newest <= Len(hist),
           Silent(client.rv, e.rev - 1), \A k \in Keys : Told(k)
    PROVE  /\ Receives(e) \in [at : {"list", "start", "watch"}, view : [Keys -> Nat], rv : Nat,
                               newest : Nat, replay : Seq(WatchEvent)]
           /\ Receives(e).at = client.at /\ Receives(e).replay = client.replay
           /\ Receives(e).rv = e.rev /\ e.rev <= Receives(e).newest
           /\ Receives(e).newest <= Len(hist)
           /\ \A k \in Keys : \/ Receives(e).view[k] = StateAt(e.rev)[k]
                              \/ \E w \in Writes(k, Receives(e).newest) : w > e.rev
  <1> DEFINE view == CASE e.kind = "put" -> [client.view EXCEPT ![e.key] = e.rev]
                       [] e.kind = "deleted" -> [client.view EXCEPT ![e.key] = 0]
                       [] OTHER -> client.view
             newest == Max({client.newest, e.rev})
  <1>1. /\ e.rev \in 1 .. Len(hist) /\ client.rv \in 0 .. Len(hist)
        /\ client.newest \in 0 .. Len(hist) /\ Len(hist) \in Nat
        /\ client.view \in [Keys -> Nat]
        /\ hist[e.rev] \in Change /\ e.key = hist[e.rev].key
    <2>1. Len(hist) \in Nat /\ client.rv \in Nat /\ client.newest \in Nat
          /\ client.view \in [Keys -> Nat]
      BY LenProperties DEF TypeOK
    <2>2. e.rev \in 1 .. Len(hist) /\ e.key = hist[e.rev].key
      BY DEF Tells
    <2>3. hist[e.rev] \in Change
      BY <2>2, ElementOfSeq DEF TypeOK
    <2> QED
      BY <2>1, <2>2, <2>3
  <1>2. newest = IF client.newest >= e.rev THEN client.newest ELSE e.rev
    BY <1>1, MaxOfTwo
  <1>3. Receives(e) = [client EXCEPT !.rv = e.rev, !.newest = newest, !.view = view]
    BY DEF Receives, Tells
  <1>4. /\ e.key \in Keys => view = [client.view EXCEPT ![e.key] =
                                       IF hist[e.rev].deleted THEN 0 ELSE e.rev]
        /\ e.key \notin Keys => view = client.view
    <2>1. e.key \in Keys => /\ e.kind \in {"put", "deleted"}
                            /\ (e.kind = "deleted") <=> hist[e.rev].deleted
      BY BoundsAssumption DEF Tells, WatchEvent
    <2>2. e.key \notin Keys => e.kind = "bookmark"
      BY DEF Tells, WatchEvent
    <2> QED
      BY <2>1, <2>2
  <1> HIDE DEF view, newest
  <1>5. view \in [Keys -> Nat] /\ newest \in Nat
    BY <1>1, <1>2, <1>4
  <1>6. ASSUME NEW k \in Keys
        PROVE  view[k] = StateAt(e.rev)[k] \/ \E w \in Writes(k, newest) : w > e.rev
    <2>1. CASE k = e.key
      BY <1>1, <1>4, <2>1, StateStep
    <2>2. CASE k # e.key
      <3>1. view[k] = client.view[k]
        BY <1>1, <1>4, <2>2
      <3>2. CASE client.view[k] = StateAt(client.rv)[k]
        <4>1. CASE client.rv <= e.rev
          <5>1. \A r \in client.rv + 1 .. e.rev - 1 : hist[r].key = None
            BY DEF Silent
          <5>2. None # k
            BY BoundsAssumption
          <5>3. \A r \in client.rv + 1 .. e.rev : r \in client.rv + 1 .. e.rev - 1 \/ r = e.rev
            BY <1>1
          <5>4. \A r \in client.rv + 1 .. e.rev : hist[r].key # k
            BY <1>1, <2>2, <5>1, <5>2, <5>3
          <5>5. /\ e.rev \in 0 .. Len(hist) /\ client.rv \in 0 .. Len(hist)
                /\ client.rv <= e.rev
            BY <1>1, <4>1
          <5>6. StateAt(client.rv)[k] = StateAt(e.rev)[k]
            BY <5>4, <5>5, QuietKey
          <5> QED
            BY <3>1, <3>2, <5>6
        <4>2. CASE e.rev < client.rv /\ \A r \in e.rev + 1 .. client.rv : hist[r].key # k
          <5>1. /\ e.rev \in 0 .. Len(hist) /\ client.rv \in 0 .. Len(hist)
                /\ e.rev <= client.rv
            BY <1>1, <4>2
          <5>2. StateAt(e.rev)[k] = StateAt(client.rv)[k]
            BY <4>2, <5>1, QuietKey
          <5> QED
            BY <3>1, <3>2, <5>2
        <4>3. CASE e.rev < client.rv /\ \E r \in e.rev + 1 .. client.rv : hist[r].key = k
          <5>1. PICK r \in e.rev + 1 .. client.rv : hist[r].key = k
            BY <4>3
          <5>2. r \in Writes(k, newest) /\ r > e.rev
            BY <1>1, <1>2, <5>1 DEF Writes
          <5> QED
            BY <5>2
        <4> QED
          BY <1>1, <4>1, <4>2, <4>3
      <3>3. CASE \E w \in Writes(k, client.newest) : w > client.rv
        <4>1. PICK w \in Writes(k, client.newest) : w > client.rv
          BY <3>3
        <4>2. w \in 1 .. client.newest /\ hist[w].key = k
          BY DEF Writes
        <4>3. ~(w \in client.rv + 1 .. e.rev - 1)
          BY <4>2, BoundsAssumption DEF Silent
        <4>4. w > e.rev
          BY <1>1, <2>2, <4>1, <4>2, <4>3
        <4>5. w \in Writes(k, newest)
          BY <1>1, <1>2, <4>2 DEF Writes
        <4> QED
          BY <4>4, <4>5
      <3> QED
        BY <3>2, <3>3 DEF Told
    <2> QED
      BY <2>1, <2>2
  <1>7. /\ Receives(e).rv = e.rev /\ Receives(e).newest = newest /\ Receives(e).view = view
        /\ Receives(e).at = client.at /\ Receives(e).replay = client.replay
        /\ Receives(e) \in [at : {"list", "start", "watch"}, view : [Keys -> Nat], rv : Nat,
                               newest : Nat, replay : Seq(WatchEvent)]
    <2>1. client \in [at : {"list", "start", "watch"}, view : [Keys -> Nat], rv : Nat,
                      newest : Nat, replay : Seq(WatchEvent)]
      BY DEF TypeOK
    <2>2. e.rev \in Nat
      BY <1>1
    <2> QED
      BY <1>3, <1>5, <2>1, <2>2
  <1> QED
    BY <1>1, <1>2, <1>6, <1>7

-----------------------------------------------------------------------------
(* The reflector's steps.                                                    *)

(* What deliver and progress apply is an event that tells what was written   *)
(* next, and it leaves the cache where the reflector is.                     *)
LEMMA WhatIsApplied ==
    ASSUME TypeOK, CacheInv, deliver \/ progress
    PROVE  /\ reflector'.at = "watch"
           /\ reflector' \in [at : {"list", "open", "watch", "backoff"}, pos : Nat]
           /\ reflector'.pos <= Len(hist)
           /\ \/ /\ UNCHANGED <<cache, rx>> /\ cache.revision <= reflector'.pos
                 /\ Silent(cache.revision, reflector'.pos)
              \/ \E e \in WatchEvent :
                    /\ Tells(e) /\ cache.revision < e.rev /\ Silent(cache.revision, e.rev - 1)
                    /\ e.kind # "bookmark" => e.key \in Keys
                    /\ cache' = Applied(e) /\ rx' = Offered(e)
                    /\ e.rev = reflector'.pos
  <1>1. /\ Len(hist) \in Nat /\ cache.revision \in Nat /\ reflector.pos \in Nat
        /\ cache.revision <= Len(hist)
    BY LenProperties DEF TypeOK, CacheInv
  <1>2. CASE deliver
    <2> DEFINE r == reflector.pos + 1
    <2>1. /\ r \in 1 .. Len(hist) /\ reflector' = At("watch", r)
          /\ Silent(cache.revision, r - 1) /\ cache.revision < r
      BY <1>1, <1>2 DEF deliver, revision, CacheInv
    <2>2. CASE hist[r].key # None
      <3>1. /\ EventAt(r) \in WatchEvent /\ EventAt(r).rev = r /\ Tells(EventAt(r))
            /\ EventAt(r).key \in Keys
        BY <2>1, <2>2, EventType, EventTells
      <3>2. apply(EventAt(r))
        BY <1>2, <2>1, <2>2 DEF deliver
      <3> HIDE DEF r
      <3> QED
        BY <1>1, <2>1, <3>1, <3>2 DEF apply, At
    <2>3. CASE hist[r].key = None
      <3>1. UNCHANGED <<cache, rx>>
        BY <1>2, <2>3 DEF deliver
      <3>2. Silent(cache.revision, r)
        <4> HIDE DEF r
        <4> QED
          BY <1>1, <2>1, <2>3 DEF Silent
      <3> HIDE DEF r
      <3> QED
        BY <1>1, <2>1, <3>1, <3>2 DEF At
    <2> QED
      BY <2>2, <2>3
  <1>3. CASE progress
    <2> DEFINE r == reflector.pos
    <2>1. /\ reflector.at = "watch" /\ cache.revision < r /\ apply(Bookmark(r))
          /\ UNCHANGED reflector
      BY <1>3 DEF progress
    <2>2. Silent(cache.revision, r) /\ r \in 1 .. Len(hist)
      BY <1>1, <2>1 DEF CacheInv
    <2>3. /\ Bookmark(r) \in WatchEvent /\ Tells(Bookmark(r))
          /\ Silent(cache.revision, r - 1)
      BY <1>1, <2>1, <2>2, BookmarkTells
    <2>4. Bookmark(r).rev = r /\ Bookmark(r).kind = "bookmark"
      BY DEF Bookmark
    <2>5. reflector \in [at : {"list", "open", "watch", "backoff"}, pos : Nat]
      BY DEF TypeOK
    <2> HIDE DEF r
    <2> QED
      BY <1>1, <2>1, <2>2, <2>3, <2>4, <2>5 DEF apply, r
  <1> QED
    BY <1>2, <1>3

(* A write adds one entry to the history, of the shape that it has.          *)
LEMMA CommitAppends ==
    ASSUME TypeOK, Commit
    PROVE  /\ hist' \in Seq(Change) /\ Len(hist') = Len(hist) + 1
           /\ \A r \in 1 .. Len(hist) : hist'[r] = hist[r]
           /\ \A r \in 1 .. Len(hist') :
                 hist'[r].key # None /\ ~hist'[r].deleted => hist'[r].matches \in Labels
           /\ listed' # Unlisted => listed' = listed /\ hist'[Len(hist) + 1].key = None
  <1>1. PICK change \in Changes :
            /\ hist' = Append(hist, change)
            /\ listed' # Unlisted => listed' = listed /\ change = Other
    BY DEF Commit
  <1>2. /\ change \in Change
        /\ change.key # None /\ ~change.deleted => change.matches \in Labels
    <2>1. CASE change = Other
      BY <2>1 DEF Change, Other
    <2>2. CASE change \in [key : Keys, deleted : {FALSE}, matches : Labels]
      BY <2>2, LabelsAssumption DEF Change
    <2>3. CASE change \in [key : Present(StateAt(revision)), deleted : {TRUE}, matches : {FALSE}]
      <3>1. Present(StateAt(revision)) \subseteq Keys
        BY DEF Present
      <3> QED
        BY <2>3, <3>1 DEF Change
    <2> QED
      BY <2>1, <2>2, <2>3 DEF Changes
  <1>3. /\ hist \in Seq(Change) /\ Len(hist) \in Nat
        /\ \A r \in 1 .. Len(hist) : hist[r].key # None /\ ~hist[r].deleted => hist[r].matches \in Labels
    BY LenProperties DEF TypeOK
  <1>4. /\ hist' \in Seq(Change) /\ Len(hist') = Len(hist) + 1
        /\ \A r \in 1 .. Len(hist) : hist'[r] = hist[r]
        /\ hist'[Len(hist) + 1] = change
    BY <1>1, <1>2, <1>3, AppendProperties
  <1>5. ASSUME NEW r \in 1 .. Len(hist')
        PROVE  hist'[r].key # None /\ ~hist'[r].deleted => hist'[r].matches \in Labels
    <2>1. CASE r \in 1 .. Len(hist)
      BY <1>3, <1>4, <2>1
    <2>2. CASE r = Len(hist) + 1
      BY <1>2, <1>4, <2>2
    <2> QED
      BY <1>3, <1>4, <2>1, <2>2
  <1>6. listed' # Unlisted => listed' = listed /\ hist'[Len(hist) + 1].key = None
    BY <1>1, <1>4 DEF Other
  <1> QED
    BY <1>4, <1>5, <1>6

(* What a client makes of an event.                                          *)
LEMMA ReceivesType ==
    ASSUME TypeOK, NEW e \in WatchEvent
    PROVE  /\ Receives(e) \in [at : {"list", "start", "watch"}, view : [Keys -> Nat], rv : Nat,
                               newest : Nat, replay : Seq(WatchEvent)]
           /\ Receives(e).at = client.at /\ Receives(e).replay = client.replay
  <1>1. /\ client \in [at : {"list", "start", "watch"}, view : [Keys -> Nat], rv : Nat,
                       newest : Nat, replay : Seq(WatchEvent)]
        /\ e.rev \in Nat
    BY DEF TypeOK, WatchEvent
  <1>2. Max({client.newest, e.rev}) \in Nat
    BY <1>1, MaxOfTwo
  <1> QED
    BY <1>1, <1>2 DEF Receives

(* Lists of the cache and of the store are states, and so is what matches.   *)
LEMMA ListType ==
    ASSUME TypeOK, NEW items \in [Keys -> Nat], NEW r \in Nat, Lists(items, r)
    PROVE  client' \in [at : {"list", "start", "watch"}, view : [Keys -> Nat], rv : Nat,
                        newest : Nat, replay : Seq(WatchEvent)]
  <1>1. Matching(items) \in [Keys -> Nat]
    BY DEF Matching
  <1> QED
    BY <1>1, EmptySeq DEF Lists

(* Every step keeps the variables in their types.                            *)
LEMMA TypeKept ==
    ASSUME TypeOK, CacheInv, [Next]_vars
    PROVE  TypeOK'
  <1>0. Len(hist) \in Nat /\ StateAt(Len(hist)) \in [Keys -> Nat]
    <2>1. Len(hist) \in Nat
      BY LenProperties DEF TypeOK
    <2> QED
      BY <2>1, StateType
  <1>1. CASE Commit
    <2>1. /\ hist' \in Seq(Change)
          /\ \A r \in 1 .. Len(hist') :
                hist'[r].key # None /\ ~hist'[r].deleted => hist'[r].matches \in Labels
      BY <1>1, CommitAppends
    <2>2. listed' \in [at : Nat, filled : Nat]
      BY <1>1 DEF TypeOK, Commit, Unlisted
    <2> QED
      BY <1>1, <2>1, <2>2 DEF TypeOK, Commit, others
  <1>2. CASE list_and_replace
    <2>1. cache' = Seeded(StateAt(Len(hist)), Len(hist)) /\ rx' = [rx EXCEPT !.open = FALSE]
          /\ reflector' = At("open", Len(hist))
          /\ UNCHANGED <<hist, compacted, listed, client, authorizer>>
      BY <1>2 DEF list_and_replace, replace, store, others, revision
    <2>2. cache' \in [items : [Keys -> Nat], history : Seq(WatchEvent), floor : Nat,
                      revision : Nat, content : Nat]
      BY <1>0, <2>1, EmptySeq DEF Seeded
    <2> QED
      BY <1>0, <2>1, <2>2 DEF TypeOK, At
  <1>3. CASE deliver \/ progress
    <2>1. UNCHANGED <<hist, compacted, listed, client, authorizer>>
      BY <1>3 DEF deliver, progress, store, others
    <2>2. reflector' \in [at : {"list", "open", "watch", "backoff"}, pos : Nat]
      BY <1>3, WhatIsApplied
    <2>3. CASE UNCHANGED <<cache, rx>>
      BY <2>1, <2>2, <2>3 DEF TypeOK
    <2>4. CASE \E e \in WatchEvent : /\ e.kind # "bookmark" => e.key \in Keys
                                     /\ cache' = Applied(e) /\ rx' = Offered(e)
      <3>1. cache' \in [items : [Keys -> Nat], history : Seq(WatchEvent), floor : Nat,
                        revision : Nat, content : Nat]
        BY <2>4, AppliedType
      <3>2. rx' \in [queue : Seq(WatchEvent), lagged : BOOLEAN, open : BOOLEAN]
        BY <2>4, OfferedType
      <3> QED
        BY <2>1, <2>2, <3>1, <3>2 DEF TypeOK
    <2> QED
      BY <1>3, <2>3, <2>4, WhatIsApplied
  <1>14. ASSUME Compact PROVE compacted' \in Nat
    BY <1>14 DEF Compact, TypeOK
  <1>4. CASE Compact \/ watch_from_revision \/ canceled \/ broken \/ backed_off
    BY SMTT(30), <1>14, <1>4 DEF TypeOK, Compact, watch_from_revision, canceled, broken, backed_off, At,
                store, others
  <1>5. CASE list_cached \/ list_stored
    <2>1. client' \in [at : {"list", "start", "watch"}, view : [Keys -> Nat], rv : Nat,
                       newest : Nat, replay : Seq(WatchEvent)]
      <3>1. CASE list_cached
        BY <3>1, ListType DEF list_cached, TypeOK
      <3>2. CASE list_stored
        BY <1>0, <3>2, ListType DEF list_stored, revision
      <3> QED
        BY <1>5, <3>1, <3>2
    <2> QED
      BY <1>5, <2>1 DEF TypeOK, list_cached, list_stored, store
  <1>6. CASE watch_from
    <2>1. CASE client.rv < cache.floor
      BY ZenonT(60), <1>6, <2>1 DEF TypeOK, watch_from, store
    <2>2. CASE ~(client.rv < cache.floor)
      <3>1. Newer(client.rv) \in Seq(WatchEvent)
        BY <2>2, NewerStream DEF TypeOK
      <3> QED
        <4>1. /\ client' = [client EXCEPT !.at = "watch", !.replay = Newer(client.rv)]
              /\ rx' = Subscribed /\ UNCHANGED <<hist, compacted, listed, reflector, cache, authorizer>>
          BY <1>6, <2>2 DEF watch_from, store
        <4>2. client' \in [at : {"list", "start", "watch"}, view : [Keys -> Nat], rv : Nat,
                           newest : Nat, replay : Seq(WatchEvent)]
          BY <3>1, <4>1 DEF TypeOK
        <4> QED
          BY <4>1, <4>2, EmptySeq DEF TypeOK, Subscribed
    <2> QED
      BY <2>1, <2>2
  <1>7. CASE replayed
    <2>1. client.replay \in Seq(WatchEvent) /\ client.replay # <<>>
      BY <1>7 DEF replayed, TypeOK
    <2>2. Head(client.replay) \in WatchEvent /\ Tail(client.replay) \in Seq(WatchEvent)
      BY <2>1, HeadTailProperties
    <2>3. client' = [Receives(Head(client.replay)) EXCEPT !.replay = Tail(client.replay)]
      BY <1>7, <2>2, ReceivesType DEF replayed
    <2> HIDE DEF Receives
    <2> QED
      BY <1>7, <2>2, <2>3, ReceivesType DEF TypeOK, replayed, store
  <1>8. CASE received
    <2>1. rx.queue \in Seq(WatchEvent) /\ rx.queue # <<>>
      BY <1>8 DEF received, Pending, TypeOK
    <2>2. Head(rx.queue) \in WatchEvent /\ Tail(rx.queue) \in Seq(WatchEvent)
      BY <2>1, HeadTailProperties
    <2> QED
      <3>1. client' \in [at : {"list", "start", "watch"}, view : [Keys -> Nat], rv : Nat,
                         newest : Nat, replay : Seq(WatchEvent)]
        BY <1>8, <2>2, ReceivesType DEF received
      <3> QED
        BY <1>8, <2>2, <3>1 DEF TypeOK, received, store
  <1>9. CASE stream_ended \/ disconnected
    <2>1. Resume /\ UNCHANGED <<hist, compacted, listed, reflector, cache, authorizer>>
      BY <1>9 DEF stream_ended, disconnected, store
    <2> QED
      BY <2>1, EmptySeq DEF TypeOK, Resume, Unsubscribed
  <1>10. CASE rbac_listed \/ rbac_revision_signature \/ current_revision \/ snapshot_list
                \/ load_failed
    <2>1. UNCHANGED <<hist, compacted, reflector, cache, rx, client>>
      BY <1>10 DEF rbac_listed, rbac_revision_signature, current_revision, snapshot_list,
                   load_failed, store, others
    <2>2. CASE rbac_listed
      <3>1. PICK at \in compacted + 1 .. revision : listed' = Found(at)
        BY <2>2 DEF rbac_listed
      <3>2. listed' \in [at : Nat, filled : Nat] /\ authorizer' = authorizer
        BY <1>0, <2>2, <3>1 DEF rbac_listed, others, TypeOK, Found, revision
      <3> QED
        BY <2>1, <3>2 DEF TypeOK
    <2>3. CASE snapshot_list
      <3>1. Found(authorizer.asked) \in [at : Nat, filled : Nat]
        BY <1>0 DEF TypeOK, Loading, Found, revision
      <3>2. listed' \in [at : Nat, filled : Nat] /\ authorizer' \in Loading
        BY <2>3, <3>1 DEF TypeOK, snapshot_list, Loading
      <3> QED
        BY <2>1, <3>2 DEF TypeOK
    <2>4. CASE rbac_revision_signature \/ current_revision \/ load_failed
      <3>1. listed' = listed /\ authorizer' \in Loading
        <4>1. CASE rbac_revision_signature
          BY <4>1 DEF TypeOK, rbac_revision_signature, Loading, store
        <4>2. CASE current_revision
          BY <1>0, <4>2 DEF TypeOK, current_revision, Loading, revision, store
        <4>3. CASE load_failed
          BY <4>3 DEF TypeOK, load_failed, Loading, store
        <4> QED
          BY <2>4, <4>1, <4>2, <4>3
      <3> QED
        BY <2>1, <3>1 DEF TypeOK
    <2> QED
      BY <1>10, <2>2, <2>3, <2>4
  <1>11. CASE snapshot_and_watch \/ rebuild_registrations
    <2>1. rx' = Subscribed /\ UNCHANGED <<hist, compacted, listed, reflector, cache, client, authorizer>>
      BY <1>11 DEF snapshot_and_watch, rebuild_registrations, Rebuild, store
    <2> QED
      BY <2>1, EmptySeq DEF TypeOK, Subscribed
  <1>12. CASE reconcile_crd_cache
    <2>1. rx.queue \in Seq(WatchEvent) /\ rx.queue # <<>>
      BY <1>12 DEF reconcile_crd_cache, Pending, TypeOK
    <2>2. Tail(rx.queue) \in Seq(WatchEvent)
      BY <2>1, HeadTailProperties
    <2> QED
      BY <1>12, <2>2 DEF TypeOK, reconcile_crd_cache, store
  <1>13. CASE UNCHANGED vars
    BY <1>13 DEF TypeOK, vars, store, others
  <1> QED
    BY <1>1, <1>2, <1>3, <1>4, <1>5, <1>6, <1>7, <1>8, <1>9, <1>10, <1>11, <1>12, <1>13
       DEF Next, Reflect, Client, Reconciler

-----------------------------------------------------------------------------
(* The cache stays a snapshot of the store.                                  *)
LEMMA CacheKept ==
    ASSUME TypeOK, TypeOK', CacheInv, [Next]_vars
    PROVE  CacheInv'
  <1>0. /\ Len(hist) \in Nat /\ cache.revision \in Nat /\ cache.revision <= Len(hist)
        /\ cache.content \in Nat /\ cache.floor \in Nat /\ reflector.pos \in Nat
        /\ cache.history \in Seq(WatchEvent) /\ rx.queue \in Seq(WatchEvent)
    BY LenProperties DEF TypeOK, CacheInv
  <1>1. CASE Commit
    <2>1. UNCHANGED <<reflector, cache, rx>>
      BY <1>1 DEF Commit
    <2>2. Len(hist) <= Len(hist') /\ \A r \in 1 .. Len(hist) : hist'[r] = hist[r]
      BY <1>0, <1>1, CommitAppends
    <2>3. /\ \A i, j \in Nat : j <= Len(hist) => (Silent(i, j)' <=> Silent(i, j))
          /\ \A s \in Seq(WatchEvent), p \in Nat : Stream(p, s) => Stream(p, s)'
          /\ \A r \in Nat : r <= Len(hist) => StateAt(r)' = StateAt(r)
      BY <2>2, HistoryKept
    <2>4. cache'.items = StateAt(cache.revision)' /\ cache'.revision <= Len(hist')
      BY SMTT(30), <1>0, <2>1, <2>2, <2>3, LenProperties DEF CacheInv, TypeOK
    <2>5. /\ cache'.content <= cache'.revision /\ Silent(cache.content, cache.revision)'
          /\ Stream(cache.floor, cache.history)' /\ End(cache.floor, cache.history)' = cache'.revision
      BY <1>0, <2>1, <2>3 DEF CacheInv, End
    <2>6. reflector'.at \in {"open", "watch"} =>
            /\ cache'.revision <= reflector'.pos /\ reflector'.pos <= Len(hist')
            /\ Silent(cache.revision, reflector.pos)'
      <3>1. Len(hist') = Len(hist) + 1
        BY <1>1, CommitAppends
      <3>2. reflector.at \in {"open", "watch"} =>
              /\ cache.revision <= reflector.pos /\ reflector.pos <= Len(hist)
              /\ Silent(cache.revision, reflector.pos)
        BY DEF CacheInv
      <3>3. reflector.pos <= Len(hist) =>
              (Silent(cache.revision, reflector.pos)' <=> Silent(cache.revision, reflector.pos))
        BY <1>0, <2>1, <2>3
      <3> QED
        BY <1>0, <2>1, <3>1, <3>2, <3>3
    <2>7. rx'.open /\ rx'.queue # <<>> => rx'.queue[Len(rx'.queue)].rev = cache'.revision
      BY <2>1 DEF CacheInv
    <2> QED
      BY <2>4, <2>5, <2>6, <2>7 DEF CacheInv
  <1>2. CASE list_and_replace
    <2> DEFINE r == Len(hist)
    <2>1. /\ cache' = Seeded(StateAt(r), r) /\ rx'.open = FALSE
          /\ reflector' = At("open", r) /\ hist' = hist
      BY <1>2 DEF list_and_replace, replace, store, revision, TypeOK
    <2>2. \A i : StateAt(i)' = StateAt(i)
      BY <2>1, SameHistory
    <2>3. /\ cache'.items = StateAt(r) /\ cache'.revision = r /\ cache'.content = r
          /\ cache'.history = <<>> /\ cache'.floor = r
      BY <2>1 DEF Seeded
    <2>4. cache'.items = StateAt(cache.revision)'
      BY <2>2, <2>3
    <2>5. \A i \in Nat : Silent(i, i)'
      BY DEF Silent
    <2>6. Stream(cache.floor, cache.history)' /\ End(cache.floor, cache.history)' = cache'.revision
      BY <2>3, EmptySeq DEF Stream, End
    <2>7. cache'.revision = reflector'.pos /\ reflector'.pos = Len(hist')
      BY <2>1, <2>3 DEF At
    <2> QED
      BY <1>0, <2>1, <2>3, <2>4, <2>5, <2>6, <2>7 DEF CacheInv
  <1>3. CASE deliver \/ progress
    <2>1. hist' = hist
      BY <1>3 DEF deliver, progress, store
    <2>2. /\ \A i, j : Silent(i, j)' <=> Silent(i, j)
          /\ \A p, s : Stream(p, s)' <=> Stream(p, s)
          /\ \A r : StateAt(r)' = StateAt(r)
      BY <2>1, SameHistory
    <2>3. reflector'.pos <= Len(hist')
      BY <1>3, <2>1, WhatIsApplied
    <2>4. CASE /\ UNCHANGED <<cache, rx>> /\ cache.revision <= reflector'.pos
               /\ Silent(cache.revision, reflector'.pos)
      BY <2>1, <2>2, <2>3, <2>4 DEF CacheInv, End
    <2>5. CASE \E e \in WatchEvent :
                    /\ Tells(e) /\ cache.revision < e.rev /\ Silent(cache.revision, e.rev - 1)
                    /\ cache' = Applied(e) /\ rx' = Offered(e)
                    /\ e.rev = reflector'.pos
      <3>1. PICK e \in WatchEvent :
                    /\ Tells(e) /\ cache.revision < e.rev /\ Silent(cache.revision, e.rev - 1)
                    /\ cache' = Applied(e) /\ rx' = Offered(e)
                    /\ e.rev = reflector'.pos
        BY <2>5
      <3>2. e.rev \in 1 .. Len(hist) /\ e.rev \in Nat
        BY <1>0, <3>1 DEF Tells
      <3>3. Applied(e).items = StateAt(e.rev)
        BY <3>1, AppliedState
      <3>4. /\ Stream(Retained(e).floor, Retained(e).history)
            /\ End(Retained(e).floor, Retained(e).history) = e.rev
        BY <3>1, AppliedRing
      <3>5. /\ cache'.items = StateAt(e.rev) /\ cache'.revision = e.rev
            /\ cache'.history = Retained(e).history /\ cache'.floor = Retained(e).floor
            /\ cache'.content = IF e.kind = "bookmark" THEN cache.content ELSE e.rev
        BY <3>1, <3>3 DEF Applied
      <3>6. cache'.content <= e.rev /\ Silent(cache'.content, e.rev)
        <4>1. CASE e.kind = "bookmark"
          <5>1. hist[e.rev].key = None /\ cache'.content = cache.content
            BY <3>1, <3>5, <4>1 DEF Tells
          <5>2. Silent(cache.content, cache.revision) /\ cache.content <= cache.revision
            BY DEF CacheInv
          <5>3. \A r \in cache.content + 1 .. e.rev :
                   \/ r \in cache.content + 1 .. cache.revision
                   \/ r \in cache.revision + 1 .. e.rev - 1 \/ r = e.rev
            BY <1>0, <3>2
          <5>4. Silent(cache.content, e.rev)
            BY <3>1, <5>1, <5>2, <5>3 DEF Silent
          <5> QED
            BY <1>0, <3>1, <3>2, <5>1, <5>2, <5>4
        <4>2. CASE e.kind # "bookmark"
          BY <3>2, <3>5, <4>2 DEF Silent
        <4> QED
          BY <4>1, <4>2
      <3>7. rx'.open /\ rx'.queue # <<>> => rx'.queue[Len(rx'.queue)].rev = cache'.revision
        BY <3>1, <3>5, OfferedType
      <3>8. Silent(e.rev, e.rev)
        BY <3>2 DEF Silent
      <3>9. /\ cache'.items = StateAt(cache.revision)' /\ cache'.revision <= Len(hist')
            /\ Silent(cache.content, cache.revision)' /\ Silent(cache.revision, reflector.pos)'
            /\ Stream(cache.floor, cache.history)'
        BY <2>1, <2>2, <3>1, <3>2, <3>4, <3>5, <3>6, <3>8
      <3>10. End(cache.floor, cache.history)' = cache'.revision
        BY <3>4, <3>5 DEF End
      <3> QED
        BY <1>0, <2>1, <2>3, <3>1, <3>2, <3>5, <3>6, <3>7, <3>9, <3>10 DEF CacheInv
    <2> QED
      BY <1>3, <2>4, <2>5, WhatIsApplied
  <1>4. CASE hist' = hist /\ UNCHANGED <<cache, rx>>
               /\ (reflector' = reflector \/ reflector'.at \in {"backoff", "list"}
                     \/ (reflector.at = "open" /\ reflector' = At("watch", reflector.pos)))
    <2>1. /\ \A i, j : Silent(i, j)' <=> Silent(i, j)
          /\ \A p, s : Stream(p, s)' <=> Stream(p, s)
          /\ \A r : StateAt(r)' = StateAt(r)
      BY <1>4, SameHistory
    <2>2. reflector'.at \in {"open", "watch"} =>
             reflector'.pos = reflector.pos /\ reflector.at \in {"open", "watch"}
      BY <1>4 DEF At
    <2> QED
      BY <1>4, <2>1, <2>2 DEF CacheInv, End
  <1>5. CASE hist' = hist /\ UNCHANGED <<cache, reflector>>
               /\ (\/ rx'.queue = <<>>
                   \/ rx' = [rx EXCEPT !.queue = Tail(@)] /\ rx.queue # <<>>)
    <2>1. /\ \A i, j : Silent(i, j)' <=> Silent(i, j)
          /\ \A p, s : Stream(p, s)' <=> Stream(p, s)
          /\ \A r : StateAt(r)' = StateAt(r)
      BY <1>5, SameHistory
    <2>2. rx'.open /\ rx'.queue # <<>> => rx'.queue[Len(rx'.queue)].rev = cache'.revision
      <3>1. CASE rx'.queue = <<>>
        BY <3>1
      <3>2. CASE rx' = [rx EXCEPT !.queue = Tail(@)] /\ rx.queue # <<>>
        <4>1. rx'.queue = Tail(rx.queue) /\ rx'.open = rx.open
          BY <3>2 DEF TypeOK
        <4>2. Tail(rx.queue) # <<>> => Tail(rx.queue)[Len(Tail(rx.queue))] = rx.queue[Len(rx.queue)]
          BY <1>0, <3>2, LastOfTail
        <4> QED
          BY <1>5, <3>2, <4>1, <4>2 DEF CacheInv
      <3> QED
        BY <1>5, <3>1, <3>2
    <2> QED
      BY <1>5, <2>1, <2>2 DEF CacheInv, End
  <1>6. CASE Compact \/ watch_from_revision \/ canceled \/ broken \/ backed_off
               \/ list_cached \/ list_stored \/ replayed
               \/ rbac_listed \/ rbac_revision_signature \/ current_revision \/ snapshot_list
               \/ load_failed \/ UNCHANGED vars
    BY <1>6, <1>4 DEF Compact, watch_from_revision, canceled, broken, backed_off, At,
                 list_cached, list_stored, replayed, rbac_listed, rbac_revision_signature,
           current_revision, snapshot_list, load_failed, vars, store
  <1>7. CASE watch_from \/ received \/ stream_ended \/ disconnected \/ Reconciler
    <2>1. hist' = hist /\ UNCHANGED <<cache, reflector>>
      BY <1>7 DEF watch_from, received, stream_ended, disconnected, store,
                  Reconciler, snapshot_and_watch, reconcile_crd_cache, rebuild_registrations
    <2>2. rx' = rx \/ rx'.queue = <<>> \/ (rx' = [rx EXCEPT !.queue = Tail(@)] /\ rx.queue # <<>>)
      BY <1>7 DEF watch_from, received, stream_ended, disconnected, Resume, Unsubscribed, Subscribed,
                  Reconciler, snapshot_and_watch, reconcile_crd_cache, rebuild_registrations,
                  Rebuild, Pending
    <2> QED
      BY <2>1, <2>2, <1>4, <1>5
  <1> QED
    BY <1>1, <1>2, <1>3, <1>6, <1>7 DEF Next, Reflect, Client, Reconciler

-----------------------------------------------------------------------------
(* Who reads the cache.                                                      *)

(* A list is of a revision that was asked for, and nothing was written to    *)
(* its resource since it was read.                                           *)
LEMMA FoundList ==
    ASSUME TypeOK, ListInv, NEW at \in Nat, at <= Len(hist)
    PROVE  /\ Found(at) \in [at : Nat, filled : Nat]
           /\ Found(at).at <= at
           /\ Found(at).at <= Found(at).filled /\ Found(at).filled <= Len(hist)
           /\ Silent(Found(at).filled, Len(hist))
           /\ listed # Found(at) => Found(at).at = at
  <1>1. Len(hist) \in Nat /\ listed \in [at : Nat, filled : Nat]
    BY LenProperties DEF TypeOK
  <1>2. CASE listed # Unlisted /\ listed.at <= at
    BY <1>1, <1>2 DEF Found, ListInv
  <1>3. CASE ~(listed # Unlisted /\ listed.at <= at)
    <2>1. Found(at) = [at |-> at, filled |-> Len(hist)]
      BY <1>3 DEF Found, revision
    <2> QED
      BY <1>1, <2>1 DEF Silent
  <1> QED
    BY <1>2, <1>3

LEMMA ListKept ==
    ASSUME TypeOK, ListInv, AuthorizerInv, [Next]_vars
    PROVE  ListInv'
  <1>0. Len(hist) \in Nat /\ listed \in [at : Nat, filled : Nat]
    BY LenProperties DEF TypeOK
  <1>1. CASE Commit
    <2>1. /\ Len(hist') = Len(hist) + 1
          /\ \A r \in 1 .. Len(hist) : hist'[r] = hist[r]
          /\ listed' # Unlisted => listed' = listed /\ hist'[Len(hist) + 1].key = None
      BY <1>1, CommitAppends
    <2> SUFFICES ASSUME listed' # Unlisted
                 PROVE  /\ listed'.at <= listed'.filled /\ listed'.filled <= Len(hist')
                        /\ \A r \in listed'.filled + 1 .. Len(hist') : hist'[r].key = None
      BY DEF ListInv, Unlisted, Silent
    <2>2. /\ listed.at <= listed.filled /\ listed.filled <= Len(hist)
          /\ Silent(listed.filled, Len(hist))
      BY <2>1 DEF ListInv
    <2>3. ASSUME NEW r \in listed.filled + 1 .. Len(hist) + 1 PROVE hist'[r].key = None
      <3>1. CASE r = Len(hist) + 1
        BY <2>1, <3>1
      <3>2. CASE r # Len(hist) + 1
        <4>1. r \in 1 .. Len(hist) /\ r \in listed.filled + 1 .. Len(hist)
          BY <1>0, <3>2
        <4> QED
          BY <2>1, <2>2, <4>1 DEF Silent
      <3> QED
        BY <3>1, <3>2
    <2> QED
      BY <1>0, <2>1, <2>2, <2>3 DEF Silent
  <1>2. ASSUME hist' = hist, NEW at \in Nat, at <= Len(hist), listed' = Found(at) PROVE ListInv'
    BY <1>2, FoundList DEF ListInv, Silent
  <1>3. CASE rbac_listed
    <2>1. PICK at \in compacted + 1 .. revision : listed' = Found(at)
      BY <1>3 DEF rbac_listed
    <2>2. at \in Nat /\ at <= Len(hist) /\ hist' = hist
      BY <1>0, <1>3, <2>1 DEF rbac_listed, revision, TypeOK
    <2> QED
      BY <1>2, <2>1, <2>2
  <1>4. CASE snapshot_list
    <2>1. authorizer.asked \in Nat /\ authorizer.asked <= Len(hist)
      BY <1>4 DEF snapshot_list, AuthorizerInv, TypeOK, Loading
    <2> QED
      BY <1>2, <1>4, <2>1 DEF snapshot_list
  <1>5. CASE hist' = hist /\ listed' = listed
    BY <1>5 DEF ListInv, Silent, Unlisted
  <1> QED
    BY <1>1, <1>3, <1>4, <1>5
       DEF Next, Reflect, Client, Reconciler, Compact, list_and_replace, watch_from_revision,
           deliver, canceled, backed_off, progress, broken, list_cached, list_stored, watch_from,
           replayed, received, stream_ended, disconnected, snapshot_and_watch,
           reconcile_crd_cache, rebuild_registrations, rbac_revision_signature, current_revision,
           load_failed, vars, store

(* The authorizer's list is asked for after the content it is filed under.   *)
LEMMA AuthorizerKept ==
    ASSUME TypeOK, CacheInv, ListInv, AuthorizerInv, [Next]_vars
    PROVE  AuthorizerInv'
  <1>0. /\ Len(hist) \in Nat /\ cache.content \in Nat /\ cache.revision \in Nat
        /\ cache.content <= cache.revision /\ cache.revision <= Len(hist)
        /\ authorizer \in Loading
    BY LenProperties DEF TypeOK, CacheInv
  <1>1. CASE Commit
    <2>1. /\ Len(hist') = Len(hist) + 1 /\ authorizer' = authorizer
          /\ \A r \in 1 .. Len(hist) : hist'[r] = hist[r]
      BY <1>1, CommitAppends DEF Commit, others
    <2>2. \A i \in 1 .. authorizer.signature : i \in 1 .. Len(hist)
      BY <1>0 DEF AuthorizerInv, Loading
    <2> QED
      BY <1>0, <2>1, <2>2 DEF AuthorizerInv, Loading
  <1>2. CASE rbac_revision_signature \/ current_revision \/ load_failed
    <2>1. CASE rbac_revision_signature
      BY <1>0, <2>1 DEF rbac_revision_signature, AuthorizerInv, Loading, store
    <2>2. CASE current_revision
      BY <1>0, <2>2 DEF current_revision, AuthorizerInv, Loading, store, revision
    <2>3. CASE load_failed
      BY <1>0, <2>3 DEF load_failed, AuthorizerInv, Loading, store
    <2> QED
      BY <1>2, <2>1, <2>2, <2>3
  <1>3. CASE snapshot_list
    <2> DEFINE found == Found(authorizer.asked)
    <2>1. /\ hist' = hist /\ authorizer.seen <= authorizer.asked /\ authorizer.asked <= Len(hist)
          /\ authorizer.asked \in Nat /\ authorizer.seen \in Nat
      BY <1>0, <1>3 DEF snapshot_list, AuthorizerInv, Loading
    <2>2. /\ found \in [at : Nat, filled : Nat] /\ found.filled <= Len(hist)
          /\ Silent(found.filled, Len(hist)) /\ found.at <= found.filled
          /\ listed # found => found.at = authorizer.asked
      BY <2>1, FoundList
    <2>3. /\ authorizer'.at = "idle" /\ authorizer'.seen = 0
          /\ authorizer'.signature = authorizer.seen /\ authorizer'.revision = found.at
          /\ listed = found => authorizer'.passed = found.filled
      BY <1>3 DEF snapshot_list
    <2> HIDE DEF found
    <2>4. ASSUME NEW i \in 1 .. authorizer.seen, hist[i].key # None
          PROVE  i <= authorizer'.revision \/ i <= authorizer'.passed
      <3>1. CASE listed = found
        BY <1>0, <2>1, <2>2, <2>3, <2>4, <3>1 DEF Silent
      <3>2. CASE listed # found
        BY <2>1, <2>2, <2>3, <3>2
      <3> QED
        BY <3>1, <3>2
    <2> QED
      BY <1>0, <2>1, <2>3, <2>4 DEF AuthorizerInv
  <1>4. CASE hist' = hist /\ authorizer' = authorizer
    BY <1>4 DEF AuthorizerInv
  <1> QED
    BY <1>1, <1>2, <1>3, <1>4
       DEF Next, Reflect, Client, Reconciler, Compact, list_and_replace, watch_from_revision,
           deliver, canceled, backed_off, progress, broken, list_cached, list_stored, watch_from,
           replayed, received, stream_ended, disconnected, snapshot_and_watch,
           reconcile_crd_cache, rebuild_registrations, rbac_listed, vars, store, others

(* Who reads does not change.                                                *)
LEMMA OneReaderKept ==
    ASSUME TypeOK, OneReader, [Next]_vars
    PROVE  OneReader'
  <1>1. reader' = reader
    BY DEF Next, Reflect, Client, Reconciler, Commit, Compact, list_and_replace,
           watch_from_revision, deliver, canceled, backed_off, progress, broken, list_cached,
           list_stored, watch_from, replayed, received, stream_ended, disconnected,
           rbac_listed, rbac_revision_signature,
           current_revision, snapshot_list, load_failed, snapshot_and_watch, reconcile_crd_cache,
           rebuild_registrations, vars
  <1>2. CASE list_cached \/ list_stored \/ watch_from
    BY <1>1, <1>2 DEF OneReader, list_cached, list_stored, watch_from
  <1>3. CASE replayed \/ received \/ stream_ended \/ disconnected
    BY <1>1, <1>3 DEF OneReader, replayed, received, stream_ended, disconnected
  <1>4. CASE client' = client
    BY <1>1, <1>4 DEF OneReader
  <1> QED
    BY <1>2, <1>3, <1>4
       DEF Next, Reflect, Client, Reconciler, Commit, Compact, list_and_replace,
           watch_from_revision, deliver, canceled, backed_off, progress, broken,
           rbac_listed, rbac_revision_signature,
           current_revision, snapshot_list, load_failed, snapshot_and_watch, reconcile_crd_cache,
           rebuild_registrations, vars, others

(* The caches of CRDs follow the events there are for them to follow.        *)
LEMMA RegistrationsKept ==
    ASSUME TypeOK, CacheInv, CacheInv', TypeOK', OneReader, RegistrationsInv, [Next]_vars
    PROVE  RegistrationsInv'
  <1>0. /\ Len(hist) \in Nat /\ cache.revision \in Nat /\ cache.revision <= Len(hist)
        /\ rx.queue \in Seq(WatchEvent)
    BY LenProperties DEF TypeOK, CacheInv
  <1> SUFFICES ASSUME Reconciling', rx'.open, ~rx'.lagged
               PROVE  \E p \in 0 .. Len(hist') : Follows(p)'
    BY DEF RegistrationsInv
  <1>a. ASSUME NEW p \in 0 .. Len(hist), Follows(p)
        PROVE  End(p, rx.queue) \in 0 .. Len(hist)
    <2>1. rx.queue # <<>> => Len(rx.queue) \in 1 .. Len(rx.queue) /\ Tells(rx.queue[Len(rx.queue)])
      BY <1>0, <1>a, EmptySeq, LenProperties DEF Follows, Stream
    <2>2. CASE rx.queue = <<>>
      BY <2>2 DEF End
    <2>3. CASE rx.queue # <<>>
      <3>1. rx.queue[Len(rx.queue)].rev \in 1 .. Len(hist)
        BY <2>1, <2>3 DEF Tells
      <3> QED
        BY <1>0, <2>3, <3>1 DEF End
    <2> QED
      BY <2>2, <2>3
  <1>1. CASE Commit
    <2>1. UNCHANGED <<cache, rx, reader, registered>>
      BY <1>1 DEF Commit, others
    <2>2. Len(hist') = Len(hist) + 1 /\ \A r \in 1 .. Len(hist) : hist'[r] = hist[r]
      BY <1>1, CommitAppends
    <2>3. PICK p \in 0 .. Len(hist) : Follows(p)
      BY <2>1 DEF RegistrationsInv, Reconciling
    <2>4. /\ \A i, j \in Nat : j <= Len(hist) => (Silent(i, j)' <=> Silent(i, j))
          /\ \A s \in Seq(WatchEvent), q \in Nat : Stream(q, s) => Stream(q, s)'
          /\ \A r \in Nat : r <= Len(hist) => StateAt(r)' = StateAt(r)
      BY <1>0, <2>2, HistoryKept
    <2>5. p \in Nat /\ p <= Len(hist) /\ p \in 0 .. Len(hist')
      BY <1>0, <2>2
    <2>6. registered' = Present(StateAt(p))' /\ Stream(p, rx.queue)'
      BY <1>0, <2>1, <2>3, <2>4, <2>5 DEF Follows, Present
    <2>7. Silent(End(p, rx.queue), cache.revision)'
      <3>1. End(p, rx.queue)' = End(p, rx.queue) /\ End(p, rx.queue) \in Nat
        BY <1>a, <2>1, <2>3 DEF End
      <3> QED
        BY <1>0, <2>1, <2>3, <2>4, <3>1 DEF Follows
    <2> QED
      BY <2>1, <2>3, <2>5, <2>6, <2>7 DEF Follows
  <1>2. CASE list_and_replace
    BY <1>2 DEF list_and_replace, replace, TypeOK
  <1>3. CASE deliver \/ progress
    <2>1. UNCHANGED <<hist, reader, registered>>
      BY <1>3 DEF deliver, progress, store, others
    <2>2. /\ \A i, j : Silent(i, j)' <=> Silent(i, j)
          /\ \A p, s : Stream(p, s)' <=> Stream(p, s)
          /\ \A r : StateAt(r)' = StateAt(r)
      BY <2>1, SameHistory
    <2>3. CASE UNCHANGED <<cache, rx>>
      BY <2>1, <2>2, <2>3 DEF RegistrationsInv, Reconciling, Follows, Present, End
    <2>4. CASE \E e \in WatchEvent :
                    /\ Tells(e) /\ cache.revision < e.rev /\ Silent(cache.revision, e.rev - 1)
                    /\ cache' = Applied(e) /\ rx' = Offered(e)
      <3>1. PICK e \in WatchEvent :
                    /\ Tells(e) /\ cache.revision < e.rev /\ Silent(cache.revision, e.rev - 1)
                    /\ cache' = Applied(e) /\ rx' = Offered(e)
        BY <2>4
      <3>2. /\ rx.open /\ ~rx.lagged /\ rx'.queue = Append(rx.queue, e)
            /\ cache'.revision = e.rev /\ e.rev \in Nat
        BY <3>1, OfferedType DEF Applied, WatchEvent
      <3>3. PICK p \in 0 .. Len(hist) : Follows(p)
        BY <2>1, <3>2 DEF RegistrationsInv, Reconciling
      <3>4. Stream(p, rx'.queue) /\ End(p, rx'.queue) = e.rev
        <4>1. p \in Nat /\ ~Offered(e).lagged
          BY <1>0, <3>1, <3>3
        <4>2. Stream(p, rx.queue) /\ Silent(End(p, rx.queue), cache.revision)
          BY <3>3 DEF Follows
        <4>3. Stream(p, Offered(e).queue) /\ End(p, Offered(e).queue) = e.rev
          BY <3>1, <3>2, <4>1, <4>2, OfferedStream
        <4> QED
          BY <3>1, <4>3
      <3>5. rx'.queue # <<>> /\ p < Head(rx'.queue).rev
        <4>1. /\ rx'.queue \in Seq(WatchEvent) /\ rx'.queue # <<>>
              /\ Len(rx'.queue) = Len(rx.queue) + 1 /\ Head(rx'.queue) = rx'.queue[1]
              /\ \A i \in 1 .. Len(rx.queue) : rx'.queue[i] = rx.queue[i]
              /\ rx'.queue[Len(rx.queue) + 1] = e
          BY <1>0, <3>2, AppendProperties, HeadTailProperties
        <4>2. CASE rx.queue = <<>>
          <5>1. rx'.queue[1] = e
            BY <4>1, <4>2, EmptySeq
          <5> QED
            BY <1>0, <3>1, <3>2, <3>3, <4>1, <4>2, <5>1 DEF Follows
        <4>3. CASE rx.queue # <<>>
          <5>1. rx'.queue[1] = rx.queue[1] /\ Head(rx.queue) = rx.queue[1]
            BY <1>0, <4>1, <4>3, EmptySeq, LenProperties, HeadTailProperties
          <5> QED
            BY <3>3, <4>1, <4>3, <5>1 DEF Follows
        <4> QED
          BY <4>2, <4>3
      <3>6. Silent(e.rev, e.rev)
        BY <3>2 DEF Silent
      <3>7. End(p, rx.queue)' = e.rev
        BY <3>4 DEF End
      <3>8. registered' = Present(StateAt(p))'
        BY <2>1, <2>2, <3>3 DEF Follows, Present
      <3>9. Follows(p)'
        BY <2>2, <3>2, <3>4, <3>5, <3>6, <3>7, <3>8 DEF Follows
      <3> QED
        BY <2>1, <3>9
    <2> QED
      BY <1>3, <2>3, <2>4, WhatIsApplied
  <1>4. CASE snapshot_and_watch \/ rebuild_registrations
    <2>1. /\ UNCHANGED <<hist, cache>> /\ rx' = Subscribed
          /\ registered' = Present(cache.items)
      BY <1>4 DEF snapshot_and_watch, rebuild_registrations, Rebuild, store
    <2>2. /\ \A i, j : Silent(i, j)' <=> Silent(i, j)
          /\ \A r : StateAt(r)' = StateAt(r)
      BY <2>1, SameHistory
    <2>3. registered' = Present(StateAt(cache.revision))'
      BY <2>1, <2>2 DEF CacheInv, Present
    <2>4. Stream(cache.revision, rx.queue)' /\ End(cache.revision, rx.queue)' = cache.revision
          /\ rx'.queue = <<>>
      BY <2>1, EmptySeq DEF Subscribed, Stream, End
    <2>5. Silent(cache.revision, cache.revision)
      BY <1>0 DEF Silent
    <2>6. cache.revision \in 0 .. Len(hist')
      BY <1>0, <2>1
    <2> QED
      BY <1>0, <2>1, <2>2, <2>3, <2>4, <2>5, <2>6 DEF Follows
  <1>5. CASE reconcile_crd_cache
    <2>1. /\ UNCHANGED <<hist, cache, reader>> /\ rx' = [rx EXCEPT !.queue = Tail(@)]
          /\ Reconciling /\ ~rx.lagged /\ rx.queue # <<>>
          /\ registered' = CASE Head(rx.queue).kind = "put" -> registered \cup {Head(rx.queue).key}
                             [] Head(rx.queue).kind = "deleted" -> registered \ {Head(rx.queue).key}
                             [] OTHER -> registered
      BY <1>5 DEF reconcile_crd_cache, Pending, store
    <2>2. rx'.queue = Tail(rx.queue) /\ rx.open
      BY <2>1 DEF TypeOK
    <2>3. PICK p \in 0 .. Len(hist) : Follows(p)
      BY <2>1, <2>2 DEF RegistrationsInv
    <2> DEFINE e == Head(rx.queue)
    <2>4. /\ e \in WatchEvent /\ Tells(e) /\ Silent(p, e.rev - 1)
          /\ Tail(rx.queue) \in Seq(WatchEvent) /\ Stream(e.rev, Tail(rx.queue))
          /\ End(e.rev, Tail(rx.queue)) = End(p, rx.queue)
          /\ Tail(rx.queue) # <<>> => e.rev < Head(Tail(rx.queue)).rev
      BY <1>0, <2>1, <2>3, StreamTail DEF Follows
    <2>5. p < e.rev
      BY <2>1, <2>3 DEF Follows
    <2> HIDE DEF e
    <2>6. StateAt(e.rev) = CASE e.kind = "put" -> [StateAt(p) EXCEPT ![e.key] = e.rev]
                             [] e.kind = "deleted" -> [StateAt(p) EXCEPT ![e.key] = 0]
                             [] OTHER -> StateAt(p)
      BY <2>4, <2>5, NextState
    <2>7. StateAt(p) \in [Keys -> Nat] /\ e.rev \in 1 .. Len(hist)
          /\ (e.kind \in {"put", "deleted"} => e.key \in Keys)
      BY <2>4, StateType DEF Tells, WatchEvent
    <2>8. registered' = Present(StateAt(e.rev))
      <3>1. registered = Present(StateAt(p))
        BY <2>3 DEF Follows
      <3>2. CASE e.kind = "put"
        <4>1. registered' = registered \cup {e.key} /\ StateAt(e.rev) = [StateAt(p) EXCEPT ![e.key] = e.rev]
          BY <2>1, <2>6, <3>2 DEF e
        <4> QED
          BY <2>7, <3>1, <3>2, <4>1 DEF Present
      <3>3. CASE e.kind = "deleted"
        <4>1. registered' = registered \ {e.key} /\ StateAt(e.rev) = [StateAt(p) EXCEPT ![e.key] = 0]
          BY <2>1, <2>6, <3>3 DEF e
        <4> QED
          BY <2>7, <3>1, <3>3, <4>1 DEF Present
      <3>4. CASE e.kind \notin {"put", "deleted"}
        <4>1. registered' = registered /\ StateAt(e.rev) = StateAt(p)
          BY <2>1, <2>6, <3>4 DEF e
        <4> QED
          BY <3>1, <4>1
      <3> QED
        BY <3>2, <3>3, <3>4
    <2>9. /\ \A i, j : Silent(i, j)' <=> Silent(i, j)
          /\ \A q, s : Stream(q, s)' <=> Stream(q, s)
          /\ \A r : StateAt(r)' = StateAt(r)
      BY <2>1, SameHistory
    <2>10. IF rx'.queue = <<>> THEN e.rev <= cache'.revision ELSE e.rev < Head(rx'.queue).rev
      <3>1. CASE rx'.queue = <<>>
        <4>1. End(p, rx.queue) = e.rev
          BY <2>2, <2>4, <3>1 DEF End
        <4>2. End(p, rx.queue) = cache.revision
          BY <2>1, <2>2 DEF End, CacheInv
        <4> QED
          BY <1>0, <2>1, <3>1, <4>1, <4>2
      <3>2. CASE rx'.queue # <<>>
        BY <2>2, <2>4, <3>2
      <3> QED
        BY <3>1, <3>2
    <2>11. Silent(End(p, rx.queue), cache.revision)
      BY <2>3 DEF Follows
    <2>12. \A q : q = e.rev => Follows(q)'
      <3> TAKE q
      <3> HAVE q = e.rev
      <3>1. registered' = Present(StateAt(q))' /\ Stream(q, rx.queue)'
        <4>1. StateAt(q)' = StateAt(e.rev)
          BY <2>9
        <4>2. Present(StateAt(q))' = Present(StateAt(e.rev))
          BY <4>1 DEF Present
        <4> QED
          BY <2>2, <2>4, <2>8, <2>9, <4>2
      <3>2. Silent(End(q, rx.queue), cache.revision)'
        <4>1. End(q, rx.queue)' = End(p, rx.queue)
          BY <2>2, <2>4 DEF End
        <4> QED
          BY <2>1, <2>9, <2>11, <4>1
      <3> QED
        BY <2>1, <2>10, <3>1, <3>2 DEF Follows
    <2> QED
      BY <2>1, <2>7, <2>12
  <1>6. CASE watch_from \/ received \/ stream_ended \/ disconnected \/ replayed
               \/ list_cached \/ list_stored
    <2>1. reader = "client" /\ reader' = reader
      BY <1>6 DEF OneReader, watch_from, received, stream_ended, disconnected, replayed,
                  list_cached, list_stored
    <2> QED
      BY <2>1 DEF Reconciling
  <1>7. CASE UNCHANGED <<hist, cache, rx, reader, registered>>
    <2>1. /\ \A i, j : Silent(i, j)' <=> Silent(i, j)
          /\ \A p, s : Stream(p, s)' <=> Stream(p, s)
          /\ \A r : StateAt(r)' = StateAt(r)
      BY <1>7, SameHistory
    <2> QED
      BY <1>7, <2>1 DEF RegistrationsInv, Reconciling, Follows, Present, End
  <1> QED
    BY <1>1, <1>2, <1>3, <1>4, <1>5, <1>6, <1>7
       DEF Next, Reflect, Client, Reconciler, Compact, watch_from_revision,
           canceled, backed_off, broken, rbac_listed, rbac_revision_signature,
           current_revision, snapshot_list, load_failed,
           vars, store, others

(* Without a selector every object matches.                                  *)
LEMMA AllMatch ==
    ASSUME TypeOK, Labels = {TRUE}, NEW r \in 0 .. Len(hist)
    PROVE  Matching(StateAt(r)) = StateAt(r)
  <1>1. Len(hist) \in Nat
    BY LenProperties DEF TypeOK
  <1>2. ASSUME NEW k \in Keys, StateAt(r)[k] # 0
        PROVE  hist[StateAt(r)[k]].matches
    <2>1. /\ StateAt(r)[k] \in 1 .. r
          /\ hist[StateAt(r)[k]].key = k /\ ~hist[StateAt(r)[k]].deleted
      BY <1>2, StateType
    <2>2. StateAt(r)[k] \in 1 .. Len(hist)
      BY <1>1, <2>1
    <2> QED
      BY ZenonT(60), <2>1, <2>2, BoundsAssumption DEF TypeOK
  <1>3. StateAt(r) = [k \in Keys |-> StateAt(r)[k]]
    BY DEF StateAt
  <1> QED
    BY <1>2, <1>3 DEF Matching

(* A client is told of everything, in its stream or in its next list.        *)
LEMMA ClientKept ==
    ASSUME TypeOK, TypeOK', CacheInv, CacheInv', OneReader, Labels = {TRUE}, ClientInv, [Next]_vars
    PROVE  ClientInv'
  <1>0. /\ Len(hist) \in Nat /\ cache.revision \in Nat /\ cache.revision <= Len(hist)
        /\ rx.queue \in Seq(WatchEvent) /\ client.replay \in Seq(WatchEvent)
        /\ client.rv \in Nat /\ client.newest \in Nat /\ cache.floor \in Nat
    BY LenProperties DEF TypeOK, CacheInv
  <1>a. Heard \in Nat /\ End(Heard, rx.queue) \in Nat
    <2>1. ASSUME NEW s \in Seq(WatchEvent), NEW p \in Nat
          PROVE  End(p, s) \in Nat
      <3>1. s # <<>> => s[Len(s)] \in WatchEvent
        BY EmptySeq, LenProperties, ElementOfSeq
      <3> QED
        BY <3>1 DEF End, WatchEvent
    <2> QED
      BY <1>0, <2>1 DEF Heard
  <1>1. CASE Commit
    <2>1. UNCHANGED <<cache, rx, client>>
      BY <1>1 DEF Commit, others
    <2>2. Len(hist') = Len(hist) + 1 /\ \A r \in 1 .. Len(hist) : hist'[r] = hist[r]
      BY <1>1, CommitAppends
    <2>3. /\ \A i, j \in Nat : j <= Len(hist) => (Silent(i, j)' <=> Silent(i, j))
          /\ \A s \in Seq(WatchEvent), q \in Nat : Stream(q, s) => Stream(q, s)'
          /\ \A r \in Nat : r <= Len(hist) => StateAt(r)' = StateAt(r)
          /\ \A k, r : r \in Nat /\ r <= Len(hist) => Writes(k, r)' = Writes(k, r)
      BY <1>0, <2>2, HistoryKept
    <2>4. ASSUME client.at # "list"
          PROVE  /\ client'.rv <= client'.newest /\ client'.newest <= Len(hist')
                 /\ \A k \in Keys : Told(k)'
      <3>1. client.rv <= client.newest /\ client.newest <= Len(hist) /\ \A k \in Keys : Told(k)
        BY <2>4 DEF ClientInv
      <3>2. StateAt(client.rv)' = StateAt(client.rv)
            /\ \A k : Writes(k, client.newest)' = Writes(k, client.newest)
        BY <1>0, <2>1, <2>3, <3>1
      <3> QED
        BY <1>0, <2>1, <2>2, <3>1, <3>2 DEF Told
    <2>5. ASSUME client.at = "watch"
          PROVE  /\ Stream(client.rv, client.replay)'
                 /\ ~rx'.lagged =>
                      /\ Stream(Heard, rx.queue)'
                      /\ rx'.open => Silent(End(Heard, rx.queue), cache.revision)'
      <3>1. Heard' = Heard /\ End(Heard, rx.queue)' = End(Heard, rx.queue)
        BY <2>1 DEF Heard, End
      <3> QED
        BY <1>0, <1>a, <2>1, <2>3, <2>5, <3>1 DEF ClientInv
    <2> QED
      BY <2>1, <2>4, <2>5 DEF ClientInv
  <1> SUFFICES ASSUME hist' = hist
               PROVE  ClientInv'
    BY <1>1 DEF Next, Reflect, Client, Reconciler, Compact, list_and_replace, watch_from_revision,
                deliver, canceled, backed_off, progress, broken, list_cached, list_stored,
                watch_from, replayed, received, stream_ended, disconnected,
                rbac_listed, rbac_revision_signature,
           current_revision, snapshot_list, load_failed, snapshot_and_watch, reconcile_crd_cache,
                rebuild_registrations, vars, store
  <1>b. /\ \A i, j : Silent(i, j)' <=> Silent(i, j)
        /\ \A p, s : Stream(p, s)' <=> Stream(p, s)
        /\ \A r : StateAt(r)' = StateAt(r)
        /\ \A k, r : Writes(k, r)' = Writes(k, r)
    BY SameHistory
  <1>2. CASE client' = client /\ rx' = rx /\ cache' = cache
    BY <1>2, <1>b DEF ClientInv, Told, Heard, End
  <1>3. CASE list_and_replace
    <2>1. client' = client /\ rx' = [rx EXCEPT !.open = FALSE]
      BY <1>3 DEF list_and_replace, replace, others
    <2>2. rx'.queue = rx.queue /\ rx'.lagged = rx.lagged /\ ~rx'.open
      BY <2>1 DEF TypeOK
    <2> QED
      BY <2>1, <2>2, <1>b DEF ClientInv, Told, Heard, End
  <1>4. CASE deliver \/ progress
    <2>1. client' = client
      BY <1>4 DEF deliver, progress, others
    <2>2. CASE UNCHANGED <<cache, rx>>
      BY <1>2, <2>1, <2>2
    <2>3. CASE \E e \in WatchEvent :
                    /\ Tells(e) /\ cache.revision < e.rev /\ Silent(cache.revision, e.rev - 1)
                    /\ cache' = Applied(e) /\ rx' = Offered(e)
      <3>1. PICK e \in WatchEvent :
                    /\ Tells(e) /\ cache.revision < e.rev /\ Silent(cache.revision, e.rev - 1)
                    /\ cache' = Applied(e) /\ rx' = Offered(e)
        BY <2>3
      <3>2. CASE ~rx.open
        <4>1. rx' = rx
          BY <3>1, <3>2, OfferedType
        <4> QED
          BY <1>b, <2>1, <3>2, <4>1 DEF ClientInv, Told, Heard, End
      <3>3. CASE rx.open
        <4>1. rx'.open /\ cache'.revision = e.rev /\ e.rev \in Nat
          BY <3>1, <3>3, OfferedType DEF Applied, WatchEvent
        <4>2. client'.at # "list" =>
                /\ client'.rv <= client'.newest /\ client'.newest <= Len(hist')
                /\ \A k \in Keys : Told(k)'
          BY <1>b, <2>1 DEF ClientInv, Told
        <4>3. client'.at = "watch" => Stream(client.rv, client.replay)'
          BY <1>b, <2>1 DEF ClientInv
        <4>4. ASSUME client.at = "watch", ~rx'.lagged
              PROVE  Stream(Heard, rx.queue)' /\ Silent(End(Heard, rx.queue), cache.revision)'
          <5>1. ~rx.lagged /\ ~Offered(e).lagged
            BY <3>1, <3>3, <4>4, OfferedType
          <5>2. Stream(Heard, rx.queue) /\ Silent(End(Heard, rx.queue), cache.revision)
            BY <3>3, <4>4, <5>1 DEF ClientInv
          <5>3. Stream(Heard, rx'.queue) /\ End(Heard, rx'.queue) = e.rev
            BY <1>a, <3>1, <3>3, <5>1, <5>2, OfferedStream
          <5>4. Heard' = Heard /\ End(Heard, rx.queue)' = e.rev
            BY <2>1, <5>3 DEF Heard, End
          <5>5. Silent(e.rev, e.rev)
            BY <4>1 DEF Silent
          <5> QED
            BY <1>b, <4>1, <5>3, <5>4, <5>5
        <4> QED
          BY <2>1, <4>2, <4>3, <4>4 DEF ClientInv
      <3> QED
        BY <3>2, <3>3
    <2> QED
      BY <1>4, <2>2, <2>3, WhatIsApplied
  <1>5. CASE list_cached \/ list_stored
    <2>1. \E r \in 0 .. Len(hist) : Lists(StateAt(r), r)
      <3>1. CASE list_cached
        BY <1>0, <3>1 DEF list_cached, CacheInv
      <3>2. CASE list_stored
        BY <1>0, <3>2 DEF list_stored, revision
      <3> QED
        BY <1>5, <3>1, <3>2
    <2>2. PICK r \in 0 .. Len(hist) : Lists(StateAt(r), r)
      BY <2>1
    <2>3. client' = [at |-> "start", view |-> StateAt(r), rv |-> r, newest |-> r, replay |-> <<>>]
      BY <2>2, AllMatch DEF Lists
    <2>4. \A k \in Keys : Told(k)'
      BY <1>b, <2>3 DEF Told
    <2> QED
      BY <1>0, <2>3, <2>4 DEF ClientInv
  <1>6. CASE watch_from
    <2>1. CASE client.rv < cache.floor
      <3>1. client'.at = "list"
        BY <1>6, <2>1 DEF watch_from, TypeOK
      <3> QED
        BY <3>1 DEF ClientInv
    <2>2. CASE ~(client.rv < cache.floor)
      <3>1. /\ client' = [client EXCEPT !.at = "watch", !.replay = Newer(client.rv)]
            /\ rx' = Subscribed /\ UNCHANGED cache /\ client.at = "start"
        BY <1>6, <2>2 DEF watch_from
      <3>2. /\ client'.rv = client.rv /\ client'.newest = client.newest
            /\ client'.view = client.view /\ client'.replay = Newer(client.rv)
            /\ client'.at = "watch"
        BY <3>1 DEF TypeOK
      <3>3. /\ Stream(client.rv, Newer(client.rv))
            /\ Silent(End(client.rv, Newer(client.rv)), cache.revision)
        <4>1. client.rv >= cache.floor
          BY <1>0, <2>2
        <4> QED
          BY <1>0, <4>1, NewerStream
      <3>4. /\ client'.rv <= client'.newest /\ client'.newest <= Len(hist')
            /\ \A k \in Keys : Told(k)'
        BY <1>b, <3>1, <3>2 DEF ClientInv, Told
      <3>5. Stream(client.rv, client.replay)'
        BY <1>b, <3>2, <3>3
      <3>6. rx'.queue = <<>> /\ Heard' = End(client.rv, Newer(client.rv))
        BY <3>1, <3>2 DEF Subscribed, Heard, End
      <3>7. Stream(Heard, rx.queue)' /\ End(Heard, rx.queue)' = Heard'
        BY <3>6, EmptySeq DEF Stream, End
      <3>8. Silent(End(Heard, rx.queue), cache.revision)'
        BY <1>b, <3>1, <3>3, <3>6, <3>7
      <3> QED
        BY <3>4, <3>5, <3>7, <3>8 DEF ClientInv
    <2> QED
      BY <2>1, <2>2
  <1>7. CASE replayed
    <2> DEFINE e == Head(client.replay)
    <2>1. /\ client.at = "watch" /\ client.replay # <<>> /\ rx' = rx /\ cache' = cache
          /\ client' = [Receives(e) EXCEPT !.replay = Tail(client.replay)]
      BY <1>0, <1>7, HeadTailProperties, ReceivesType DEF replayed
    <2>2. /\ e \in WatchEvent /\ Tells(e) /\ Silent(client.rv, e.rev - 1)
          /\ Tail(client.replay) \in Seq(WatchEvent) /\ Stream(e.rev, Tail(client.replay))
          /\ End(e.rev, Tail(client.replay)) = Heard
      BY <1>0, <2>1, StreamTail DEF ClientInv, Heard
    <2> HIDE DEF e
    <2>3. /\ Receives(e) \in [at : {"list", "start", "watch"}, view : [Keys -> Nat], rv : Nat,
                               newest : Nat, replay : Seq(WatchEvent)]
          /\ Receives(e).at = client.at
          /\ Receives(e).rv = e.rev /\ e.rev <= Receives(e).newest
          /\ Receives(e).newest <= Len(hist)
          /\ \A k \in Keys : \/ Receives(e).view[k] = StateAt(e.rev)[k]
                             \/ \E w \in Writes(k, Receives(e).newest) : w > e.rev
      BY <2>1, <2>2, ReceivedTold DEF ClientInv
    <2>4. /\ client'.at = "watch" /\ client'.rv = e.rev /\ client'.newest = Receives(e).newest
          /\ client'.view = Receives(e).view /\ client'.replay = Tail(client.replay)
      BY <2>1, <2>3
    <2>5. \A k \in Keys : Told(k)'
      BY <1>b, <2>3, <2>4 DEF Told
    <2>6. Stream(client.rv, client.replay)' /\ Heard' = Heard
      BY <1>b, <2>2, <2>4 DEF Heard, End
    <2>7. ~rx'.lagged => /\ Stream(Heard, rx.queue)'
                         /\ rx'.open => Silent(End(Heard, rx.queue), cache.revision)'
      <3>1. End(Heard, rx.queue)' = End(Heard, rx.queue)
        BY <2>1, <2>6 DEF End
      <3> QED
        BY <1>b, <2>1, <2>6, <3>1 DEF ClientInv
    <2> QED
      BY <2>3, <2>4, <2>5, <2>6, <2>7 DEF ClientInv
  <1>8. CASE received
    <2> DEFINE e == Head(rx.queue)
    <2>1. /\ client.at = "watch" /\ client.replay = <<>> /\ cache' = cache
          /\ rx' = [rx EXCEPT !.queue = Tail(@)] /\ ~rx.lagged /\ rx.queue # <<>>
          /\ client' = Receives(e)
      BY <1>8 DEF received, Pending
    <2>2. rx'.queue = Tail(rx.queue) /\ rx'.open = rx.open /\ rx'.lagged = rx.lagged
      BY <2>1 DEF TypeOK
    <2>3. Heard = client.rv
      BY <2>1 DEF Heard, End
    <2>4. /\ e \in WatchEvent /\ Tells(e) /\ Silent(client.rv, e.rev - 1)
          /\ Tail(rx.queue) \in Seq(WatchEvent) /\ Stream(e.rev, Tail(rx.queue))
          /\ End(e.rev, Tail(rx.queue)) = End(Heard, rx.queue)
      <3>1. Stream(client.rv, rx.queue)
        BY <2>1, <2>3 DEF ClientInv
      <3> QED
        BY <1>0, <2>1, <2>3, <3>1, StreamTail
    <2> HIDE DEF e
    <2>5. /\ Receives(e).at = client.at /\ Receives(e).replay = client.replay
          /\ Receives(e).rv = e.rev /\ e.rev <= Receives(e).newest
          /\ Receives(e).newest <= Len(hist)
          /\ \A k \in Keys : \/ Receives(e).view[k] = StateAt(e.rev)[k]
                             \/ \E w \in Writes(k, Receives(e).newest) : w > e.rev
      BY <2>1, <2>4, ReceivedTold DEF ClientInv
    <2>6. \A k \in Keys : Told(k)'
      BY <1>b, <2>1, <2>5 DEF Told
    <2>7. Stream(client.rv, client.replay)' /\ Heard' = e.rev
      BY <2>1, <2>5, EmptySeq DEF Stream, Heard, End
    <2>8. Stream(Heard, rx.queue)' /\ (rx'.open => Silent(End(Heard, rx.queue), cache.revision)')
      <3>1. End(Heard, rx.queue)' = End(Heard, rx.queue)
        BY <2>2, <2>4, <2>7 DEF End
      <3> QED
        BY <1>b, <2>1, <2>2, <2>4, <2>7, <3>1 DEF ClientInv
    <2> QED
      BY <2>1, <2>5, <2>6, <2>7, <2>8 DEF ClientInv
  <1>9. CASE stream_ended \/ disconnected
    <2>1. client.at = "watch" /\ client' = [client EXCEPT !.at = "start", !.replay = <<>>]
      BY <1>9 DEF stream_ended, disconnected, Resume
    <2>2. /\ client'.at = "start" /\ client'.rv = client.rv /\ client'.newest = client.newest
          /\ client'.view = client.view
      BY <2>1 DEF TypeOK
    <2> QED
      BY <1>b, <2>1, <2>2 DEF ClientInv, Told
  <1>10. CASE Reconciler
    <2>1. client' = client /\ client.at = "list"
      BY <1>10 DEF Reconciler, snapshot_and_watch, reconcile_crd_cache, rebuild_registrations,
                   Reconciling, OneReader
    <2> QED
      BY <2>1 DEF ClientInv
  <1> QED
    BY <1>1, <1>2, <1>3, <1>4, <1>5, <1>6, <1>7, <1>8, <1>9, <1>10
       DEF Next, Reflect, Client, Compact, watch_from_revision,
           canceled, backed_off, broken, rbac_listed, rbac_revision_signature,
           current_revision, snapshot_list, load_failed,
           vars, others

-----------------------------------------------------------------------------
(* It all holds from the start.                                              *)
LEMMA InitHolds == Init => IInv
  <1> SUFFICES ASSUME Init PROVE IInv
    OBVIOUS
  <1>1. hist = <<Other>> /\ hist \in Seq(Change) /\ Len(hist) = 1 /\ hist[1] = Other
    BY DEF Init, Other, Change
  <1>2. StateAt(0) \in [Keys -> Nat]
    <2>1. \A k \in Keys : Writes(k, 0) = {}
      BY DEF Writes
    <2> QED
      BY <2>1 DEF StateAt
  <1>3. TypeOK
    <2>1. cache \in [items : [Keys -> Nat], history : Seq(WatchEvent), floor : Nat,
                     revision : Nat, content : Nat]
      BY <1>2, EmptySeq DEF Init, Seeded
    <2>2. client \in [at : {"list", "start", "watch"}, view : [Keys -> Nat], rv : Nat,
                      newest : Nat, replay : Seq(WatchEvent)]
      BY <1>2, EmptySeq DEF Init
    <2>3. /\ rx \in [queue : Seq(WatchEvent), lagged : BOOLEAN, open : BOOLEAN]
          /\ reflector \in [at : {"list", "open", "watch", "backoff"}, pos : Nat]
          /\ authorizer \in Loading /\ listed \in [at : Nat, filled : Nat]
          /\ compacted \in Nat
      BY EmptySeq DEF Init, Unsubscribed, Unlisted, At, Loading
    <2> QED
      BY <1>1, <2>1, <2>2, <2>3 DEF TypeOK, Other
  <1>4. CacheInv
    <2>1. Silent(0, 0) /\ Stream(0, <<>>) /\ End(0, <<>>) = 0
      BY EmptySeq DEF Silent, Stream, End
    <2> QED
      BY <1>1, <2>1 DEF Init, CacheInv, Seeded, At, Unsubscribed
  <1>5. ListInv /\ AuthorizerInv /\ OneReader /\ RegistrationsInv /\ ClientInv
    BY <1>1 DEF Init, ListInv, AuthorizerInv, OneReader, RegistrationsInv, ClientInv, Reconciling, Unsubscribed
  <1> QED
    BY <1>3, <1>4, <1>5 DEF IInv

(* The inductive invariant: every stream of events goes through the history *)
(* without a gap, from where its reader is to where the cache is.           *)
THEOREM StreamsAreComplete == Spec => []IInv
  <1>1. IInv /\ [Next]_vars => IInv'
    <2> SUFFICES ASSUME IInv, [Next]_vars PROVE IInv'
      OBVIOUS
    <2>1. TypeOK /\ CacheInv /\ ListInv /\ AuthorizerInv /\ OneReader /\ RegistrationsInv
      BY DEF IInv
    <2>2. TypeOK' /\ CacheInv'
      BY <2>1, TypeKept, CacheKept
    <2>3. ListInv' /\ AuthorizerInv' /\ OneReader' /\ RegistrationsInv'
      BY <2>1, <2>2, ListKept, AuthorizerKept, OneReaderKept, RegistrationsKept
    <2>4. Labels = {TRUE} => ClientInv'
      BY <2>1, <2>2, ClientKept DEF IInv
    <2> QED
      BY <2>2, <2>3, <2>4 DEF IInv
  <1> QED
    BY InitHolds, <1>1, PTL DEF Spec

(* What a list from the cache says is the store's state at the revision it  *)
(* carries (driver.rs 95-240, store.rs 140-190).                            *)
THEOREM ListsAreSnapshots == Spec => []CacheIsASnapshot
  <1>1. IInv => CacheIsASnapshot
    BY DEF IInv, CacheInv, CacheIsASnapshot
  <1> QED
    BY <1>1, StreamsAreComplete, PTL

(* The authorizer's snapshot has every change its caches have but for those *)
(* that the reading of its list passed over, although it is read after the  *)
(* signature it is kept under and nodestore answers from a cache            *)
(* (authz/resolve.rs 81-206, store.rs 332-353).                            *)
THEOREM PermissionsAreUpToDate == Spec => []AuthorizerUpToDate
  <1>1. IInv => AuthorizerUpToDate
    <2> SUFFICES ASSUME IInv, authorizer.signature = cache.content,
                        NEW k \in Keys, NEW i \in Writes(k, cache.revision)
                 PROVE  i \in Writes(k, authorizer.revision)
                               \cup (authorizer.revision + 1 .. authorizer.passed)
      BY DEF AuthorizerUpToDate
    <2>1. /\ cache.content \in Nat /\ cache.revision \in Nat
          /\ authorizer.revision \in Nat /\ authorizer.passed \in Nat
          /\ Silent(cache.content, cache.revision)
          /\ \A j \in 1 .. cache.content :
                hist[j].key # None => j <= authorizer.revision \/ j <= authorizer.passed
      BY DEF IInv, TypeOK, Loading, CacheInv, AuthorizerInv
    <2>2. i \in 1 .. cache.revision /\ hist[i].key = k /\ k # None
      BY BoundsAssumption DEF Writes
    <2>3. i \in 1 .. cache.content
      BY <2>1, <2>2 DEF Silent
    <2>4. i <= authorizer.revision \/ i <= authorizer.passed
      BY <2>1, <2>2, <2>3
    <2> QED
      BY <2>1, <2>2, <2>4 DEF Writes
  <1> QED
    BY <1>1, StreamsAreComplete, PTL

(* A reconciler that has heard everything runs the caches of the CRDs there *)
(* are (listener/base.rs 102-206).                                          *)
THEOREM RegistrationsAreThoseOfTheCache == Spec => []RegistrationsFollow
  <1>1. IInv => RegistrationsFollow
    <2> SUFFICES ASSUME IInv, Reconciling, rx = Subscribed
                 PROVE  registered = Present(cache.items)
      BY DEF RegistrationsFollow
    <2>1. PICK p \in 0 .. Len(hist) : Follows(p)
      BY DEF IInv, RegistrationsInv, Subscribed
    <2>2. p <= cache.revision /\ Silent(p, cache.revision)
      BY <2>1 DEF Follows, Subscribed, End
    <2>3. cache.revision \in 0 .. Len(hist) /\ TypeOK
      BY LenProperties DEF IInv, TypeOK, CacheInv
    <2>4. StateAt(p) = StateAt(cache.revision)
      BY <2>2, <2>3, SilentState
    <2> QED
      BY <2>1, <2>4 DEF Follows, IInv, CacheInv
  <1> QED
    BY <1>1, StreamsAreComplete, PTL

(* A client without a selector whose stream is drained has what the cache   *)
(* has: no watch, resumed or not, misses a change (store.rs 255-272).       *)
THEOREM WatchesMissNothing == Labels = {TRUE} => (Spec => []CaughtUp)
  <1>1. ASSUME Labels = {TRUE} PROVE IInv => CaughtUp
    <2> SUFFICES ASSUME IInv, client.at = "watch", client.replay = <<>>, rx = Subscribed,
                        cache.revision >= client.newest
                 PROVE  client.view = Matching(cache.items)
      BY DEF CaughtUp
    <2>1. TypeOK /\ CacheInv /\ ClientInv
      BY <1>1 DEF IInv
    <2>2. /\ cache.revision \in 0 .. Len(hist) /\ client.rv \in 0 .. Len(hist)
          /\ client.rv <= client.newest /\ client.newest \in Nat /\ client.rv <= cache.revision
          /\ client.view \in [Keys -> Nat]
      BY <2>1, LenProperties DEF TypeOK, CacheInv, ClientInv
    <2>3. Silent(client.rv, cache.revision)
      BY <2>1 DEF ClientInv, Subscribed, Heard, End
    <2>4. StateAt(client.rv) = cache.items
      BY <2>1, <2>2, <2>3, SilentState DEF CacheInv
    <2>5. ASSUME NEW k \in Keys PROVE client.view[k] = StateAt(client.rv)[k]
      <3>1. ~\E w \in Writes(k, client.newest) : w > client.rv
        BY <2>2, <2>3, BoundsAssumption DEF Writes, Silent
      <3> QED
        BY <2>1, <3>1 DEF ClientInv, Told
    <2>6. cache.items \in [Keys -> Nat]
      BY <2>1 DEF TypeOK
    <2>7. Matching(cache.items) = cache.items
      BY <1>1, <2>1, <2>2, AllMatch DEF CacheInv
    <2> QED
      BY <2>2, <2>4, <2>5, <2>6, <2>7
  <1>2. ASSUME Labels = {TRUE} PROVE Spec => []CaughtUp
    <2>1. IInv => CaughtUp
      BY <1>1, <1>2
    <2> QED
      BY <2>1, StreamsAreComplete, PTL
  <1> QED
    BY <1>2
=============================================================================
