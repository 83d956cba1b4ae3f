SPECIFICATION ReplicaSpec
CONSTANTS
    Keys = {1, 2, 3}
    Commands <- ReplicaCommands
    MaxIndex = 4
INVARIANTS StateMachineSafety ReplicasPublishAlike
PROPERTIES FollowerNeverRefuses
CHECK_DEADLOCK FALSE
