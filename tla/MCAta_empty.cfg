CONSTANTS
    Scenarios <- DiskScenarios
    KeyboardPorts = {1}
    MaxTimeout = 2
    MaxBlocks = 1
SPECIFICATION Spec
INVARIANTS ReadsData
