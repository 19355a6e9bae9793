SPECIFICATION Spec
CONSTANT PageSize = 2
CONSTANT MaxAddress = 15
CONSTANT CellBase = 4
CONSTANT MaxRegions = 6
CONSTANT MaxSegments = 2
CONSTANT Fallback <- LastBank
CONSTANT MaxExtents = 2
CONSTANT Spaces = {s1, s2}
CONSTANT TopLevel = 2
CONSTANT TableSize = 2
CONSTANT Virtual = {0, 1, 2}
CONSTANT Requests <- SmallRequests
CONSTANT Machines <- SmallMachines
CONSTANT Attempts = 2
CONSTANT MapRoom = 1
CONSTANT CallbackPages = 2
CONSTANT UsesSpaces <- Programmed
CHECK_DEADLOCK FALSE
INVARIANT LiveMemoryKept
 
INVARIANT CachedIsCurrent
 
PROPERTY BootEnds
