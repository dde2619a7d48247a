SPECIFICATION Spec
CONSTANTS
    Containers = {c1}
    Machines = {}
    Deploys = {}
    Resets = {}
    Seedings = {}
    Downgrades = {g1}
    MaxCrashes = 0
    None = None
INVARIANT RollsBackOne
CHECK_DEADLOCK FALSE
