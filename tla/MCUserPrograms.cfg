SPECIFICATION ProgramSpec
CONSTANT Arch = "arm64"
CONSTANT MaxDepth = 3
CONSTANT VfsFiles = 2
CONSTANT MaxOpen = 5
CONSTANT Frames <- LowFrames
CONSTANT TablePages = 2
CONSTANT Images <- Programs
INVARIANT BackingsSound
INVARIANT FramesOwned
INVARIANT ReturnsHome
 
