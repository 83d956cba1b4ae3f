----------------------------- MODULE MCReplicas -----------------------------
EXTENDS Replicas, MCCommands
=============================================================================
