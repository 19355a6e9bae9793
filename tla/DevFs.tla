-------------------------------- MODULE DevFs --------------------------------
(***************************************************************************)
(* A block device as a file of bytes: read(), write() and seek() of        *)
(* kernel/fs/vfs.cpp on a descriptor of kernel/fs/devfs.cpp, which turns   *)
(* byte ranges into whole blocks through one static scratch buffer, on the *)
(* virtio disk of VirtioBlock.  The device may fail any request or never   *)
(* answer.                                                                 *)
(***************************************************************************)
EXTENDS VirtioBlock

CONSTANTS
    BlockBytes,   \* device.block_size()
    Byte,         \* what a byte may be
    Disks,        \* what the disk may hold at first
    Payloads,     \* what is written
    MaxLength     \* longest read() (a bound)

ASSUME DevFsAssumption ==
    /\ BlockBytes \in Nat \ {0} /\ MaxLength \in Nat
    /\ Content = [1 .. BlockBytes -> Byte]
    /\ Disks \subseteq [0 .. Sectors - 1 -> Content]
    /\ \A p \in Payloads : p \in Seq(Byte)

VARIABLES
    position,   \* files[d].position
    call,       \* the read() or write() in progress or last done
    scratch,    \* block_scratch
    before      \* the disk as the call found it

vars == <<virtioVars, position, call, scratch, before>>

Capacity == Sectors * BlockBytes
NoCall == [state |-> "none"]

Init ==
    /\ InitVirtio /\ disk \in Disks
    /\ position = 0 /\ call = NoCall
    /\ scratch = [i \in 1 .. BlockBytes |-> CHOOSE b \in Byte : TRUE]
    /\ before = disk

\* The byte at an offset of a disk.
ByteAt(d, o) == d[o \div BlockBytes][(o % BlockBytes) + 1]

Returned == call.state \in {"none", "returned"}

\* The answer of the request has been used.
Forget ==
    /\ request' = NoRequest
    /\ UNCHANGED <<header, bounce, broken, read_only, available, last_used, at, deviceVars, status>>

-------------------------------------------------------------------------------
\* The call returns n bytes; vfs::read() and write() move the position unless it
\* failed.
Return(n, error) ==
    /\ call' = [call EXCEPT !.state = "returned", !.moved = n, !.error = error]
    /\ position' = IF error THEN position ELSE position + n

\* A length is cut at the end of the device.
Cut(n) == IF position >= Capacity THEN 0 ELSE Min2(n, Capacity - position)

\* vfs::read() or write() of a descriptor, up to the loop; writing at the end is an
\* error.
Call(op, data) ==
    /\ Returned /\ at = "idle"
    /\ call' = [state |-> "loop", op |-> op, offset |-> position, length |-> Cut(Len(data)),
                data |-> data, moved |-> 0, error |-> op = "write" /\ position >= Capacity]
    /\ before' = disk
    /\ Forget
    /\ UNCHANGED <<position, scratch>>

Position == call.offset + call.moved
Block == Position \div BlockBytes
Inside == Position % BlockBytes
Amount == Min2(call.length - call.moved, BlockBytes - Inside)
More == call.state = "loop" /\ call.moved < call.length

\* A bug: the block is fetched only when the bytes start inside it.
NeedsBlock_Inside == call.op = "read" \/ Inside # 0

\* A read needs the block; so does a write of part of it.
NeedsBlock == call.op = "read" \/ Amount # BlockBytes

\* Device::block_read() and block_write() hand one block on to the driver.
block_read(block) == Start("read", block, 1, <<>>)
block_write(block, data) == Start("write", block, 1, <<data>>)

LoopFetch ==
    /\ More /\ NeedsBlock /\ block_read(Block)
    /\ call' = [call EXCEPT !.state = "fetching"]
    /\ UNCHANGED <<position, scratch, before>>

LoopSkipFetch ==
    /\ More /\ ~ NeedsBlock
    /\ call' = [call EXCEPT !.state = "copy"]
    /\ UNCHANGED <<virtioVars, position, scratch, before>>

\* device.block_read() has returned.
Fetched ==
    /\ call.state = "fetching" /\ at = "idle"
    /\ IF request.error
         THEN Return(call.moved, TRUE) /\ UNCHANGED scratch
         ELSE /\ scratch' = request.data[1]
              /\ call' = [call EXCEPT !.state = "copy"]
              /\ UNCHANGED position
    /\ Forget
    /\ UNCHANGED before

\* The bytes of this block: out of the scratch buffer ...
CopyOut ==
    /\ call.state = "copy" /\ call.op = "read"
    /\ call' = [call EXCEPT !.state = "loop", !.moved = @ + Amount,
                   !.data = [i \in DOMAIN @ |->
                               IF i \in call.moved + 1 .. call.moved + Amount
                                 THEN scratch[Inside + i - call.moved] ELSE @[i]]]
    /\ UNCHANGED <<virtioVars, position, scratch, before>>

\* ... or into it, and it is written.
CopyIn ==
    /\ call.state = "copy" /\ call.op = "write"
    /\ scratch' = [i \in 1 .. BlockBytes |->
                     IF i \in Inside + 1 .. Inside + Amount
                       THEN call.data[call.moved + i - Inside] ELSE scratch[i]]
    /\ block_write(Block, scratch')
    /\ call' = [call EXCEPT !.state = "storing"]
    /\ UNCHANGED <<position, before>>

Stored ==
    /\ call.state = "storing" /\ at = "idle"
    /\ IF request.error
         THEN Return(call.moved, TRUE)
         ELSE call' = [call EXCEPT !.state = "loop", !.moved = @ + Amount] /\ UNCHANGED position
    /\ Forget
    /\ UNCHANGED <<scratch, before>>

LoopEnd ==
    /\ call.state = "loop" /\ ~ More
    /\ Return(call.moved, call.error)
    /\ UNCHANGED <<virtioVars, scratch, before>>

\* vfs::block_read() and the caches read whole blocks past devfs, several at once.
BlockRead(first, count) ==
    /\ Returned
    /\ Start("read", first, count, <<>>)
    /\ call' = NoCall /\ before' = disk
    /\ UNCHANGED <<position, scratch>>

seek(o) ==
    /\ Returned /\ at = "idle"
    /\ position' = o
    /\ call' = NoCall /\ before' = disk
    /\ Forget
    /\ UNCHANGED scratch

Loop == LoopFetch \/ LoopSkipFetch \/ Fetched \/ CopyOut \/ CopyIn \/ Stored \/ LoopEnd

Users ==
    \/ \E n \in 0 .. MaxLength :
          Call("read", [i \in 1 .. n |-> CHOOSE b \in Byte : TRUE])
    \/ \E data \in Payloads : Call("write", data)
    \/ \E first \in 0 .. Sectors, count \in 0 .. Sectors : BlockRead(first, count)
    \/ \E o \in 0 .. Capacity : seek(o)

Code ==
    \/ Loop
    \/ Driver /\ UNCHANGED <<position, call, scratch, before>>

Disk == Device /\ UNCHANGED <<position, call, scratch, before>>

Next ==
    \/ Users
    \/ Code
    \/ Disk

\* The driver polls and counts its polls; the device need never answer.
Spec == Init /\ [][Next]_vars /\ WF_vars(Code)

-------------------------------------------------------------------------------
\* Whatever a call returns, the bytes it says it moved are the bytes of the device
\* at its offset, and so are whole blocks read in chunks of the bounce buffer: no
\* late answer to an earlier request, no stale scratch buffer and no wrapped ring
\* index gets between (block.cpp:214-241, devfs.cpp:66-121).
TransferredIsTrue ==
    ~ broken =>
        /\ call.state = "returned" =>
              \A i \in 1 .. call.moved : call.data[i] = ByteAt(disk, call.offset + i - 1)
        /\ request.type = "answered" /\ request.of = "read" =>
              \A i \in 1 .. request.done : request.data[i] = disk[request.first + i - 1]

\* While a call is under way, and after it failed half way, no byte outside its
\* range has changed (devfs.cpp:105-119: part of a block is read, changed, written).
OnlyItsBytes ==
    ~ broken => \A o \in 0 .. Capacity - 1 :
        ByteAt(disk, o) # ByteAt(before, o) =>
            call.state # "none" /\ call.op = "write"
            /\ o \in call.offset .. call.offset + call.length - 1

\* Every call returns, also on a device that never answers (block.cpp:216).
CallsReturn == call.state = "loop" ~> Returned
===============================================================================
