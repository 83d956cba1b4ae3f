------------------------------ MODULE MCCacher ------------------------------
(* Instances of Cacher for TLC.  The authorizer, whose reads of nodestore    *)
(* interleave with everything else, is given one write less.               *)
EXTENDS Cacher

CONSTANTS a, b

MCNext == /\ Next
          /\ reader = "authorizer" => Len(hist') < MaxRevision

MCSpec == Init /\ [][MCNext]_vars /\ Fairness
=============================================================================
