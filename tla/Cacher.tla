------------------------------- MODULE Cacher -------------------------------
(***************************************************************************)
(* The watch cache of nodeapiserver for one resource: the reflector that   *)
(* lists and watches nodestore (cacher/driver.rs), the cache it fills      *)
(* (cacher/store.rs), and who reads it: a client that lists and watches    *)
(* over HTTP (rest/read.rs, listener/handle/watch.rs, watch_stream.rs),    *)
(* the authorizer's snapshot of the RBAC objects (authz/resolve.rs), and   *)
(* the task that starts and stops the caches of CRDs (listener/base.rs).   *)
(*                                                                         *)
(* nodestore is its history of revisions; module Watch shows that a stream *)
(* hands it over in order and without gaps, or cancels.  The API server    *)
(* writes one key in a transaction.  Lists of RBAC objects nodestore       *)
(* answers from a cache of its own (module RbacCache): so it does those of *)
(* the authorizer; the reflector's is taken to be current (README, Known   *)
(* not to hold, says what a relist is given of an older list).             *)
(***************************************************************************)
EXTENDS Naturals, FiniteSets, FiniteSetsExt, Sequences, SequencesExt

CONSTANTS
    Keys,           \* objects of this resource
    Labels,         \* whether an object may match the client's selector, or not
    Readers,        \* of "client", "authorizer", "reconciler"
    EventBuffer, HistoryLimit,
    MaxRevision,    \* bound: the last revision written
    MaxFaults,      \* bound: calls that fail, streams that end, connections closed
    None

ASSUME BuffersAssumption == EventBuffer \in Nat \ {0} /\ HistoryLimit \in Nat
ASSUME BoundsAssumption == MaxRevision \in Nat /\ MaxFaults \in Nat /\ None \notin Keys
ASSUME LabelsAssumption == Labels \subseteq BOOLEAN

VARIABLES
    hist,        \* nodestore: what each revision wrote
    compacted,   \* nodestore: the last revision compacted
    listed,      \* nodestore: its cached list of an RBAC resource, the revision it
                 \* is of and the one that was current when it was read
    reflector,   \* where reflect() is, and the revision it has got to
    cache,       \* the WatchCache
    synced,      \* has_synced
    reader,      \* who reads the cache in this behaviour
    rx,          \* its receiver on the cache's broadcast channel
    client, authorizer, registered,
    faults

store  == <<hist, compacted, listed>>
others == <<client, authorizer, registered>>
vars   == <<store, reflector, cache, synced, reader, rx, others, faults>>

-----------------------------------------------------------------------------
(* nodestore *)

revision == Len(hist)

\* a write to a key of another resource
Other == [key |-> None, deleted |-> FALSE, matches |-> FALSE]

Writes(k, r) == {i \in 1 .. r : hist[i].key = k}

\* the mod_revision of every object at a revision; 0 for none
StateAt(r) == [k \in Keys |-> LET w == Writes(k, r)
                              IN IF w = {} \/ hist[Max(w)].deleted THEN 0 ELSE Max(w)]

Present(items) == {k \in Keys : items[k] # 0}
Matching(items) == [k \in Keys |-> IF items[k] # 0 /\ hist[items[k]].matches
                                   THEN items[k] ELSE 0]

Changes == {Other}
             \cup [key : Keys, deleted : {FALSE}, matches : Labels]
             \cup [key : Present(StateAt(revision)), deleted : {TRUE}, matches : {FALSE}]

\* the list cache (module RbacCache), which a write to any RBAC key empties
Unlisted == [at |-> 0, filled |-> 0]

Commit ==
    /\ revision < MaxRevision
    /\ \E change \in Changes :
          /\ hist' = Append(hist, change)
          /\ listed' \in IF change = Other THEN {listed, Unlisted} ELSE {Unlisted}
    /\ UNCHANGED <<compacted, reflector, cache, synced, reader, rx, others, faults>>

Compact ==
    /\ \E r \in compacted + 1 .. revision : compacted' = r
    /\ UNCHANGED <<hist, listed, reflector, cache, synced, reader, rx, others, faults>>

Found(at) == IF listed # Unlisted /\ listed.at <= at THEN listed
             ELSE [at |-> at, filled |-> revision]

\* requests on the direct path, other API servers and clients list it too, at
\* the current revision or at one of the past
rbac_listed ==
    /\ reader = "authorizer"
    /\ \E at \in compacted + 1 .. revision : listed' = Found(at)
    /\ UNCHANGED <<hist, compacted, reflector, cache, synced, reader, rx, others, faults>>

-----------------------------------------------------------------------------
(* The cache *)

\* WatchCache::new
Seeded(items, r) == [items |-> items, history |-> <<>>, floor |-> r,
                     revision |-> r, content |-> r]

\* the events of a watch; what a Deleted one carries is the object before it
Bookmark(r) == [kind |-> "bookmark", key |-> None, matches |-> TRUE, rev |-> r]
EventAt(r) ==
    LET change == hist[r]
    IN IF change.deleted
       THEN [kind |-> "deleted", key |-> change.key, rev |-> r,
             matches |-> cache.items[change.key] = 0
                           \/ hist[cache.items[change.key]].matches]
       ELSE [kind |-> "put", key |-> change.key, matches |-> change.matches, rev |-> r]

\* variant: the revision a watch may start from stays that of the list
Retained_from_the_list(event) ==
    [history |-> IF Len(cache.history) < HistoryLimit THEN Append(cache.history, event)
                 ELSE IF HistoryLimit = 0 THEN <<>> ELSE Append(Tail(cache.history), event),
     floor   |-> cache.floor]

\* the ring of recent events, and the revision a watch may still start from
Retained(event) ==
    IF HistoryLimit = 0
    THEN [history |-> <<>>, floor |-> event.rev]
    ELSE IF Len(cache.history) = HistoryLimit
    THEN [history |-> Append(Tail(cache.history), event), floor |-> Head(cache.history).rev]
    ELSE [history |-> Append(cache.history, event), floor |-> cache.floor]

\* variant: a deletion is no new content
Applied_deletions_unmarked(event) ==
    LET kept == Retained(event)
    IN [items    |-> CASE event.kind = "put" -> [cache.items EXCEPT ![event.key] = event.rev]
                       [] event.kind = "deleted" -> [cache.items EXCEPT ![event.key] = 0]
                       [] OTHER -> cache.items,
        history  |-> kept.history,
        floor    |-> kept.floor,
        revision |-> event.rev,
        content  |-> IF event.kind = "put" THEN event.rev ELSE cache.content]

\* WatchCache::apply
Applied(event) ==
    LET kept == Retained(event)
    IN [items    |-> CASE event.kind = "put" -> [cache.items EXCEPT ![event.key] = event.rev]
                       [] event.kind = "deleted" -> [cache.items EXCEPT ![event.key] = 0]
                       [] OTHER -> cache.items,
        history  |-> kept.history,
        floor    |-> kept.floor,
        revision |-> event.rev,
        content  |-> IF event.kind = "bookmark" THEN cache.content ELSE event.rev]

\* the broadcast channel: a receiver that is full loses its oldest event, and
\* hears of that before anything else
Subscribed == [queue |-> <<>>, lagged |-> FALSE, open |-> TRUE]
\* variant: what does not fit is gone
Offered_silently(event) ==
    IF ~rx.open \/ Len(rx.queue) = EventBuffer THEN rx
    ELSE [rx EXCEPT !.queue = Append(@, event)]

Offered(event) ==
    IF ~rx.open THEN rx
    ELSE IF Len(rx.queue) < EventBuffer THEN [rx EXCEPT !.queue = Append(@, event)]
    ELSE [rx EXCEPT !.queue = Append(Tail(@), event), !.lagged = TRUE]

apply(event) == cache' = Applied(event) /\ rx' = Offered(event)

\* SharedCache::replace drops the old cache with its channel
replace(r) ==
    /\ cache' = Seeded(StateAt(r), r)
    /\ rx' = [rx EXCEPT !.open = FALSE]
    /\ synced' = TRUE

-----------------------------------------------------------------------------
(* The reflector *)

At(where, r) == [at |-> where, pos |-> r]

list_and_replace ==
    /\ reflector.at = "list"
    /\ replace(revision)
    /\ reflector' = At("open", revision)
    /\ UNCHANGED <<store, reader, others, faults>>

\* variant: the `created` answer is taken for progress
created_is_progress ==
    /\ reflector.at = "open"
    /\ reflector' = At("watch", reflector.pos)
    /\ IF revision > cache.revision THEN apply(Bookmark(revision)) ELSE UNCHANGED <<cache, rx>>
    /\ UNCHANGED <<store, synced, reader, others, faults>>

\* watch_from_revision, and its `created` answer, which is not applied
watch_from_revision ==
    /\ reflector.at = "open"
    /\ reflector' = At("watch", reflector.pos)
    /\ UNCHANGED <<store, cache, synced, reader, rx, others, faults>>

\* decode_applies drops what the cache has already seen
deliver ==
    /\ reflector.at = "watch" /\ reflector.pos < revision
    /\ LET r == reflector.pos + 1
       IN /\ reflector' = At("watch", r)
          /\ IF hist[r].key # None /\ r > cache.revision
             THEN apply(EventAt(r)) ELSE UNCHANGED <<cache, rx>>
    /\ UNCHANGED <<store, synced, reader, others, faults>>

\* the answer to a progress request that the bookmark timer sent
progress ==
    /\ reflector.at = "watch" /\ reflector.pos > cache.revision
    /\ apply(Bookmark(reflector.pos))
    /\ UNCHANGED <<store, reflector, synced, reader, others, faults>>

\* a stream that is behind the compaction may be canceled
canceled ==
    /\ reflector.at = "watch" /\ reflector.pos < compacted
    /\ reflector' = At("backoff", 0)
    /\ UNCHANGED <<store, cache, synced, reader, rx, others, faults>>

Fault == faults < MaxFaults /\ faults' = faults + 1

broken ==
    /\ reflector.at # "backoff" /\ Fault
    /\ reflector' = At("backoff", 0)
    /\ UNCHANGED <<store, cache, synced, reader, rx, others>>

backed_off ==
    /\ reflector.at = "backoff"
    /\ reflector' = At("list", 0)
    /\ UNCHANGED <<store, cache, synced, reader, rx, others, faults>>

Reflect == \/ list_and_replace \/ watch_from_revision \/ deliver \/ canceled \/ backed_off

-----------------------------------------------------------------------------
(* A client: list, then watch from the list's resourceVersion, and again    *)
(* from the last one seen when a stream ends                                *)

Lists(items, r) ==
    client' = [at |-> "start", view |-> Matching(items), rv |-> r, newest |-> r,
               replay |-> <<>>]

\* a list without a limit, or the snapshot a streaming list begins with
list_cached ==
    /\ reader = "client" /\ client.at = "list" /\ synced
    /\ Lists(cache.items, cache.revision)
    /\ UNCHANGED <<store, reflector, cache, synced, reader, rx, authorizer,
                   registered, faults>>

\* a list in pages, or before the cache is synced
list_stored ==
    /\ reader = "client" /\ client.at = "list"
    /\ Lists(StateAt(revision), revision)
    /\ UNCHANGED <<store, reflector, cache, synced, reader, rx, authorizer,
                   registered, faults>>

\* the ring is in the order of revisions: what is newer is its tail
Newer(since) == LET first == SelectInSeq(cache.history, LAMBDA e : e.rev > since)
                IN IF first = 0 THEN <<>>
                   ELSE SubSeq(cache.history, first, Len(cache.history))

watch_from ==
    /\ reader = "client" /\ client.at = "start" /\ synced
    /\ IF client.rv < cache.floor
       THEN client' = [client EXCEPT !.at = "list"] /\ UNCHANGED rx      \* 410
       ELSE /\ client' = [client EXCEPT !.at = "watch",
                            !.replay = Newer(client.rv)]
            /\ rx' = Subscribed
    /\ UNCHANGED <<store, reflector, cache, synced, reader, authorizer,
                   registered, faults>>

\* what gets past the selector reaches the client
Receives(event) ==
    IF ~event.matches THEN client
    ELSE [client EXCEPT !.rv = event.rev, !.newest = Max({@, event.rev}),
            !.view = CASE event.kind = "put" -> [@ EXCEPT ![event.key] = event.rev]
                       [] event.kind = "deleted" -> [@ EXCEPT ![event.key] = 0]
                       [] OTHER -> @]

replayed ==
    /\ client.at = "watch" /\ client.replay # <<>>
    /\ client' = [Receives(Head(client.replay)) EXCEPT !.replay = Tail(@)]
    /\ UNCHANGED <<store, reflector, cache, synced, reader, rx, authorizer,
                   registered, faults>>

Pending == ~rx.lagged /\ rx.queue # <<>>
Ended   == rx.lagged \/ (~rx.open /\ rx.queue = <<>>)

received ==
    /\ client.at = "watch" /\ client.replay = <<>> /\ Pending
    /\ client' = Receives(Head(rx.queue))
    /\ rx' = [rx EXCEPT !.queue = Tail(@)]
    /\ UNCHANGED <<store, reflector, cache, synced, reader, authorizer,
                   registered, faults>>

Unsubscribed == [queue |-> <<>>, lagged |-> FALSE, open |-> FALSE]
Resume == /\ client' = [client EXCEPT !.at = "start", !.replay = <<>>]
          /\ rx' = Unsubscribed

\* Lagged or Closed ends the body
stream_ended ==
    /\ client.at = "watch" /\ client.replay = <<>> /\ Ended
    /\ Resume
    /\ UNCHANGED <<store, reflector, cache, synced, reader, authorizer,
                   registered, faults>>

\* timeoutSeconds, the idle watchdog, or the network
disconnected ==
    /\ client.at = "watch" /\ Fault
    /\ Resume
    /\ UNCHANGED <<store, reflector, cache, synced, reader, authorizer, registered>>

Client == list_cached \/ list_stored \/ watch_from \/ replayed \/ received \/ stream_ended

-----------------------------------------------------------------------------
(* The authorizer: a snapshot it keeps while the content_revision of the    *)
(* four RBAC caches stays what it was before the snapshot was read.  Of the *)
(* four, this is one; the others change as they like.                      *)

rbac_revision_signature ==
    /\ reader = "authorizer" /\ authorizer.at = "idle" /\ synced
    /\ authorizer' = [authorizer EXCEPT !.at = "load", !.seen = cache.content]
    /\ UNCHANGED <<store, reflector, cache, synced, reader, rx, client, registered, faults>>

current_revision ==
    /\ authorizer.at = "load"
    /\ authorizer' = [authorizer EXCEPT !.at = "list", !.asked = revision]
    /\ UNCHANGED <<store, reflector, cache, synced, reader, rx, client, registered, faults>>

\* what it is given may be of an earlier revision, which another list that was
\* current up to `passed` asked for
snapshot_list ==
    /\ authorizer.at = "list" /\ authorizer.asked > compacted
    /\ LET found == Found(authorizer.asked)
       IN /\ listed' = found
          /\ authorizer' = [at |-> "idle", seen |-> 0, asked |-> 0, signature |-> authorizer.seen,
                            revision |-> found.at,
                            passed |-> IF listed = found THEN found.filled ELSE found.at]
    /\ UNCHANGED <<hist, compacted, reflector, cache, synced, reader, rx, client, registered,
                   faults>>

\* the request takes the direct path, and the snapshot stays what it was
load_failed ==
    /\ authorizer.at # "idle"
    /\ \/ authorizer.at = "list" /\ authorizer.asked <= compacted /\ UNCHANGED faults
       \/ Fault
    /\ authorizer' = [authorizer EXCEPT !.at = "idle", !.seen = 0, !.asked = 0]
    /\ UNCHANGED <<store, reflector, cache, synced, reader, rx, client, registered>>

-----------------------------------------------------------------------------
(* reconcile_crd_caches: the caches there are follow the CRDs               *)

\* variant: what is not in the snapshot stays
Rebuild_adding == /\ registered' = (registered \ {None}) \cup Present(cache.items)
                  /\ rx' = Subscribed

Rebuild == registered' = Present(cache.items) /\ rx' = Subscribed

snapshot_and_watch ==
    /\ reader = "reconciler" /\ registered = {None} /\ synced
    /\ Rebuild
    /\ UNCHANGED <<store, reflector, cache, synced, reader, client, authorizer, faults>>

Reconciling == reader = "reconciler" /\ registered # {None}

reconcile_crd_cache ==
    /\ Reconciling /\ Pending
    /\ LET event == Head(rx.queue)
       IN registered' = CASE event.kind = "put" -> registered \cup {event.key}
                          [] event.kind = "deleted" -> registered \ {event.key}
                          [] OTHER -> registered
    /\ rx' = [rx EXCEPT !.queue = Tail(@)]
    /\ UNCHANGED <<store, reflector, cache, synced, reader, client, authorizer, faults>>

\* Lagged; of Closed it makes an end, and follows nothing any more
rebuild_registrations ==
    /\ Reconciling /\ rx.lagged
    /\ Rebuild
    /\ UNCHANGED <<store, reflector, cache, synced, reader, client, authorizer, faults>>

Reconciler == snapshot_and_watch \/ reconcile_crd_cache \/ rebuild_registrations

-----------------------------------------------------------------------------
Init ==
    /\ hist = <<Other>> /\ compacted = 0 /\ listed = Unlisted
    /\ reflector = At("list", 0)
    /\ cache = Seeded(StateAt(0), 0) /\ synced = FALSE
    /\ reader \in Readers
    /\ rx = Unsubscribed
    /\ client = [at |-> "list", view |-> StateAt(0), rv |-> 0, newest |-> 0, replay |-> <<>>]
    /\ authorizer = [at |-> "idle", seen |-> 0, asked |-> 0, signature |-> 0, revision |-> 0,
                     passed |-> 0]
    /\ registered = {None}
    /\ faults = 0

Next == \/ Commit \/ Compact \/ rbac_listed
        \/ Reflect \/ progress \/ broken
        \/ Client \/ disconnected
        \/ rbac_revision_signature \/ current_revision \/ snapshot_list \/ load_failed
        \/ Reconciler

Spec == Init /\ [][Next]_vars

\* tasks run on, and a client comes back
Fairness == WF_vars(Reflect) /\ WF_vars(Client) /\ WF_vars(Reconciler)
LiveSpec == Spec /\ Fairness

-----------------------------------------------------------------------------
(* Properties *)

\* What a list from the cache says is what the store held at the revision the
\* list carries, through relists, bookmarks and compactions (driver.rs 95-240).
CacheIsASnapshot == synced => cache.items = StateAt(cache.revision)

\* A client whose stream is drained, and whose list was not ahead of the cache,
\* has what the cache has: a resumed watch misses nothing (store.rs 255-272).
CaughtUp == client.at = "watch" /\ client.replay = <<>> /\ rx = Subscribed
              /\ cache.revision >= client.newest
            => client.view = Matching(cache.items)

\* The permissions the authorizer goes by include every change that this server's
\* caches have, but for those that the reading of the list it was given passed over
\* by asking for the past (authz/resolve.rs 81-206, store.rs 332-353).
AuthorizerUpToDate ==
    authorizer.at = "idle" /\ authorizer.signature = cache.content /\ synced
      /\ reader = "authorizer"
    => \A k \in Keys : Writes(k, cache.revision)
                         \subseteq Writes(k, authorizer.revision)
                                     \cup (authorizer.revision + 1 .. authorizer.passed)

\* The same without the exception.  It does not hold: the list may be an older one,
\* kept under the new signature (README, Known not to hold).
AuthorizerHasAll ==
    authorizer.at = "idle" /\ authorizer.signature = cache.content /\ synced
      /\ reader = "authorizer"
    => \A k \in Keys : Writes(k, cache.revision) \subseteq Writes(k, authorizer.revision)

\* The caches of CRDs that run are those of the CRDs in the cache, once the task
\* that starts and stops them has heard everything (listener/base.rs 102-206).
RegistrationsFollow ==
    Reconciling /\ rx = Subscribed => registered = Present(cache.items)

\* Once nothing is written or fails any more, a client has the store's state.
ClientConverges == reader = "client" => <>[](client.view = Matching(StateAt(revision)))

\* The caches of CRDs are those of the CRDs there are, in the end.
CrdCachesConverge == reader = "reconciler" => <>[](registered = Present(StateAt(revision)))

\* "resume from": a watch shows a client nothing older than what it has.
NeverBackwards == [][client.at = "watch" /\ client'.at = "watch"
                       => client'.rv >= client.rv]_vars
=============================================================================
