SPECIFICATION ProgramSpec
CONSTANT Arch = "x86_64"
CONSTANT MaxDepth = 2
CONSTANT VfsFiles = 2
CONSTANT MaxOpen = 5
CONSTANT Frames <- HighFrames
CONSTANT TablePages = 2
CONSTANT Images <- Programs
INVARIANT NoDescriptorLeak
