------------------------------ MODULE RbacCache ------------------------------
(***************************************************************************)
(* The application cache of full RBAC lists inside Store::range            *)
(* (crates/nodestore/src/store.rs): one list, kept with the revision it    *)
(* was read at, dropped by the command that changes it.  Reads take the    *)
(* applier's lock, so they fall between transactions.                      *)
(***************************************************************************)
EXTENDS Store

CONSTANTS
    RbacKeys,        \* the keys under one RBAC list prefix
    ReadRevisions    \* the revisions clients list at; 0 is the current one

ASSUME ReadRevisionsAssumption == ReadRevisions \subseteq Int

VARIABLES
    cache,    \* the cached list, or NoList
    answer    \* the last list served, and the revision it was served for
              \* (in both, `filled` is history: what was current at the reading)

cacheVars == <<vars, cache, answer>>

NoList == [revision |-> 0]

Cached == cache # NoList

Touches(op) ==
    \/ op.op = "put" /\ op.key \in RbacKeys
    \/ op.op = "delete" /\ op.range \cap RbacKeys # {}

command_touches_rbac(cmd) ==
    \/ Touches(cmd)
    \/ /\ cmd.op = "txn"
       /\ \E branch \in {cmd.success, cmd.failure} :
              \E i \in DOMAIN branch : Touches(branch[i])

InvalidatesByCommand(t) == command_touches_rbac(t.cmd)      \* variant: events not looked at

(* A lease's command names no key; the deletions it causes do. *)
Invalidates(t) ==
    \/ command_touches_rbac(t.cmd)
    \/ \E e \in t.events : e.kv.key \in RbacKeys

(* A hit is whatever was read at or before `at`; a miss takes the place of  *)
(* what is cached, be it newer.                                            *)
ListRbac(revision) ==
    LET at     == IF revision <= 0 THEN db.revision ELSE revision
        hit    == Cached /\ at >= cache.revision
        result == IF hit THEN cache
                  ELSE [revision |-> at, filled |-> db.revision,
                        list |-> range(db, RbacKeys, revision)]
    IN  /\ ~tx.open
        /\ Readable(db, revision)
        /\ answer' = [at |-> at, read |-> result.revision, filled |-> result.filled,
                      list |-> result.list]
        /\ cache'  = result
        /\ UNCHANGED vars

CacheInit == Init /\ cache = NoList /\ answer = NoList

CacheNext ==
    \/ /\ (\E cmd \in Commands : Begin(cmd)) \/ Run \/ Crash
       /\ UNCHANGED <<cache, answer>>
    \/ /\ Commit
       /\ cache' = IF Invalidates(tx) THEN NoList ELSE cache
       /\ UNCHANGED answer
    \/ \E revision \in ReadRevisions : ListRbac(revision)

CacheSpec == CacheInit /\ [][CacheNext]_cacheVars

-----------------------------------------------------------------------------
RbacOf(kvs) == {kv \in kvs : kv.key \in RbacKeys}

(* Between two revisions the RBAC objects changed.                         *)
Changed(from, to) == \E r \in from .. to : RbacOf(past[r]) # RbacOf(past[from])

(* Store::range, "valid for a newer snapshot when no RBAC mutation has      *)
(* invalidated it": a list served is one of the past, and nothing changed   *)
(* from the reading that filled the cache on - be it by a command that      *)
(* names the keys or by a lease that held them.  What that reading itself   *)
(* passed over, by asking for a revision with a change behind it, is        *)
(* missing from the list, as it is in the code; nothing else is.            *)
ListIsTruthful ==
    [][answer' # answer =>
        /\ answer'.read <= answer'.at
        /\ answer'.list = RbacOf(past[answer'.read])
        /\ ~Changed(answer'.read, answer'.filled) => answer'.list = RbacOf(past[answer'.at])]_cacheVars

(* The same of every reading.  It does not hold: a list at a past revision  *)
(* is served for the current one (README, Known not to hold).              *)
ListIsCurrent == [][answer' # answer => answer'.list = RbacOf(past[answer'.at])]_cacheVars
==============================================================================
