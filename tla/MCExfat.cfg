SPECIFICATION Spec
CONSTANT Names = {"f", "g"}
CONSTANT DirOf <- TwoDirectories
CONSTANT Owners = {o1, o2}
CONSTANT Setups <- SoundSetups
SYMMETRY Symmetric
INVARIANT VolumeSound
 
 
 
