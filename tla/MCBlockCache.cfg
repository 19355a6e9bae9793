SPECIFICATION Spec
CONSTANT BlockCount = 3
CONSTANT Capacity = 2
CONSTANT Span = 1
CONSTANT Values = {0, 1}
CONSTANT Zero = 0
CONSTANT h1 = h1
CONSTANT Handles = {h1}
CONSTANT TrustOverwrite = FALSE
INVARIANT BuffersSound
INVARIANT NoChangeForgotten
PROPERTY ImplementsStore
