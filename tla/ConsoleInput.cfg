SPECIFICATION FairConsole
CONSTANT Capacity = 4
CONSTANT Chars = {"x", "nl"}
CONSTANT MaxRead = 1
CONSTANT FifoDepth = 2
CONSTANT BytesPerInterrupt = 3
CONSTANT Trigger = 2
PROPERTY IsChannel
PROPERTY WaitingIsServed
PROPERTY CharacterIsRead
PROPERTY OnlyKeysBecomeCharacters
CHECK_DEADLOCK FALSE
