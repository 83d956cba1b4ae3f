------------------------------ MODULE MCStore ------------------------------
(* One member's store and its RBAC cache, under one kind of client at a    *)
(* time: `clients` is chosen at the start and fixes the alphabet, so that   *)
(* each kind is explored to a useful depth.                                *)
EXTENDS RbacCache, MCCommands

VARIABLE clients

Alphabet ==
    [data |-> DataCommands, rewrite |-> RewriteCommands, lease |-> LeaseCommands,
     cas |-> CasCommands, rbac |-> RbacCommands]

Depth == [data |-> 6, rewrite |-> 5, lease |-> 5, cas |-> 6, rbac |-> 5]

AllCommands == UNION {Alphabet[c] : c \in DOMAIN Alphabet}

MCInit == CacheInit /\ clients \in DOMAIN Alphabet

MCNext ==
    /\ CacheNext
    /\ UNCHANGED clients
    /\ tx'.open => tx'.cmd \in Alphabet[clients] /\ db.applied_index < Depth[clients]
    /\ answer' # answer => clients = "rbac"

MCSpec == MCInit /\ [][MCNext]_<<cacheVars, clients>>
============================================================================
