SPECIFICATION Spec
CONSTANT Base = 1
CONSTANT Units = 12
CONSTANT Requests = {1, 2, 4}
CONSTANT Alignments = {1, 2, 4}
INVARIANT HeapSound
INVARIANT WrongFreeIgnored
INVARIANT NoFitMissed
