SPECIFICATION Spec
CONSTANT Sectors = 2
CONSTANT Content <- TwoBytes
CONSTANT bounce_sectors = 1
CONSTANT IndexModulus = 2
CONSTANT BlockBytes = 2
CONSTANT Byte = {0, 1}
CONSTANT MaxLength = 3
PROPERTY CallsReturn
CONSTANT Disks <- OneDisk
CONSTANT Payloads <- Writes
INVARIANT TransferredIsTrue
INVARIANT OnlyItsBytes
