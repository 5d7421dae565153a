SPECIFICATION Spec
CONSTANT Instances = {i1, i2, i3}
INVARIANTS Reachable BootInv RaceLeavesOne
PROPERTY RestartSucceeds
CHECK_DEADLOCK FALSE
