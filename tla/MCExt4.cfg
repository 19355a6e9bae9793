SPECIFICATION Spec
CONSTANT Images <- Volumes
CONSTANT BlockBytes = 2
CONSTANT direct_blocks = 1
CONSTANT per_block = 2
CONSTANT logical_limit = 8
CONSTANT Supported = {"extents", "meta_bg", "recover"}
CONSTANT Names = {"f", "d", "x"}
CONSTANT Reads <- ReadPairs
INVARIANT ReadsAreTrue
INVARIANT DirectoriesAreTrue
