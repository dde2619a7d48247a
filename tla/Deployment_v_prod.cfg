SPECIFICATION Spec
CONSTANTS
    Containers = {c1}
    Machines = {}
    Deploys = {}
    Resets = {}
    Seedings = {}
    Downgrades = {}
    MaxCrashes = 0
    None = None
PROPERTY ProductionServes
CHECK_DEADLOCK FALSE
