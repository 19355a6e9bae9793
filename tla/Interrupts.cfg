SPECIFICATION Spec
CONSTANT PerChip = 3
CONSTANT Cascade = 1
CONSTANT Requestable = {0, 2, 5}
INVARIANT ServiceSound
PROPERTY RequestsServed
