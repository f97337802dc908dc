\* Kahn's algorithm on every small registry, Linux and Windows hosts, and
\* its refinement of ScheduleSpec.
CONSTANTS
    LibEnum <- MCLibEnum
SPECIFICATION Spec
INVARIANTS
    HostsTypeOK
PROPERTY
    HostsRefineSchedule
CHECK_DEADLOCK FALSE
