SPECIFICATION Spec
CONSTANT max_devices = 8
CONSTANT max_block_devices = 2
CONSTANT max_windows = 4
CONSTANT max_entries = 3
CONSTANT max_logical = 3
CONSTANT Fold <- UpCase
CONSTANT RootFs = root
CONSTANT DevFs = devfs
CONSTANT block_bytes = 4
CONSTANT header_bytes = 2
CONSTANT entry_bytes = 2
CONSTANT max_depth = 3
CONSTANT Word = 64
CONSTANT max_device_mounts = 2
CONSTANT Room = {1, 2}
CONSTANT max_mounts = 4
CONSTANT max_open_files = 2
CONSTANT Typed <- TypedPaths
CONSTANT Bases <- AtRoot
CONSTANT Machines <- TestMachines
CONSTANT FewPaths <- ThreePaths
 
INVARIANT ListingsTrue
INVARIANT RootTrue
INVARIANT WindowsTrue
INVARIANT TablesAgree
INVARIANT OneWriter
 
 
