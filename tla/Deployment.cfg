SPECIFICATION Spec
CONSTANTS
    Containers = {c1}
    Machines = {m1}
    Deploys = {d1}
    Resets = {r1}
    Seedings = {s1}
    Downgrades = {g1}
    MaxCrashes = 1
    None = None
CONSTRAINT TwoEvents
INVARIANTS
    TypeOK
    FailsOnlyOvertaken
    ServedBySchema
    DemoComesBack
PROPERTIES
    SchemaComplete
    ContainersServe
CHECK_DEADLOCK FALSE
