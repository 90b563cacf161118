SPECIFICATION FairGateSpec
CONSTANT Ticks = 3
INVARIANTS NoStaleClaim HookLeavesNothing
PROPERTIES GateEnds
