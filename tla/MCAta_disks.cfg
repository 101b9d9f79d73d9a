CONSTANTS
    Scenarios <- AllScenarios
    KeyboardPorts = {2}
    MaxTimeout = 2
    MaxBlocks = 1
SPECIFICATION FairSpec
INVARIANTS NothingStuck HandlerReady UnblockedOnlyInWait
PROPERTIES ReleasesDevice KinitFinishes
