----------------------------- MODULE VirtioBlock -----------------------------
(***************************************************************************)
(* drivers/virtio/block.cpp: the polling virtio block driver, and the      *)
(* device it talks to through a virtqueue.  One request is in flight at a  *)
(* time, in one bounce buffer; the device works on it at its own pace and  *)
(* may answer after the driver has stopped waiting.  Ring indices are      *)
(* counted modulo IndexModulus (2^16 in the code).                         *)
(***************************************************************************)
EXTENDS Integers, Sequences

CONSTANTS
    Sectors,         \* sectors_
    Content,         \* what a sector may hold
    bounce_sectors,
    IndexModulus

ASSUME VirtioAssumption ==
    /\ Sectors \in Nat \ {0} /\ bounce_sectors \in Nat \ {0}
    /\ IndexModulus \in Nat /\ IndexModulus >= 2
    /\ Content # {}

VARIABLES
    disk,      \* the sectors, as the device holds them
    available, \* available_[1]
    used,      \* used_[1]
    last_used, \* last_used_
    header,    \* header_ and the data descriptor: type, first sector, sectors
    status,    \* *status_: "pending" stands for the driver's 0xFF
    bounce,    \* bounce_
    broken,    \* broken_
    read_only, \* read_only_: the device's feature bit
    seen,      \* requests the device has taken up
    work,      \* what the device still has to move of the one it is at
    request,   \* the read_blocks() or write_blocks() in progress
    at         \* where the driver is in it

driverVars == <<header, bounce, broken, read_only, available, last_used, request, at>>
deviceVars == <<disk, used, seen, work>>
virtioVars == <<driverVars, deviceVars, status>>

Idle == [busy |-> FALSE]
NoRequest == [type |-> "none"]

\* The answer of the last request, and the sectors moved.
Answered(r, error, n) == [type |-> "answered", of |-> r.type, first |-> r.first,
                          data |-> r.data, done |-> n, error |-> error]

InitVirtio ==
    /\ disk \in [0 .. Sectors - 1 -> Content]
    /\ available = 0 /\ used = 0 /\ last_used = 0 /\ seen = 0
    /\ header = [type |-> "read", first |-> 0, count |-> 0]
    /\ status = "pending"
    /\ read_only \in BOOLEAN
    /\ bounce = <<>> /\ broken = FALSE /\ work = Idle
    /\ request = NoRequest /\ at = "idle"

-------------------------------------------------------------------------------
(* The driver. *)

Min2(a, b) == IF a < b THEN a ELSE b

\* validate(), then the loop of read_blocks() or write_blocks(): data is what is
\* to be written, or what has been read so far.
Start(type, first, count, data) ==
    /\ at = "idle"
    /\ LET r == [type |-> type, first |-> first, count |-> count, data |-> data, done |-> 0]
       IN  IF \/ broken \/ first > Sectors \/ count > Sectors - first
              \/ type = "write" /\ read_only
             THEN request' = Answered(r, TRUE, 0) /\ at' = "idle"
             ELSE request' = r /\ at' = "chunk"
    /\ UNCHANGED <<header, bounce, broken, read_only, available, last_used, deviceVars, status>>

Chunk == Min2(request.count - request.done, bounce_sectors)

\* transfer() up to the fence: header, status byte and descriptors; a write copies
\* its chunk into the bounce buffer first.
Fill ==
    /\ at = "chunk" /\ request.done < request.count
    /\ header' = [type |-> request.type, first |-> request.first + request.done, count |-> Chunk]
    /\ bounce' = IF request.type = "write"
                   THEN SubSeq(request.data, request.done + 1, request.done + Chunk) ELSE bounce
    /\ status' = "pending"
    /\ at' = "publish"
    /\ UNCHANGED <<broken, read_only, available, last_used, request, deviceVars>>

\* The available index moves and the device is notified.
Publish ==
    /\ at = "publish"
    /\ available' = (available + 1) % IndexModulus
    /\ at' = "poll"
    /\ UNCHANGED <<header, bounce, broken, read_only, last_used, request, deviceVars, status>>

\* A bug: the device stays in use after it did not answer.
PollLimit_StaysInUse ==
    /\ at = "poll" /\ used = last_used
    /\ request' = Answered(request, TRUE, request.done)
    /\ at' = "idle"
    /\ UNCHANGED <<header, bounce, broken, read_only, available, last_used, deviceVars, status>>

\* A bug: the driver polls for ever.
PollLimit_None == at = "poll" /\ used = last_used /\ UNCHANGED virtioVars

\* poll_limit looks at the used index without an answer: the device is given up.
PollLimit ==
    /\ at = "poll" /\ used = last_used
    /\ broken' = TRUE
    /\ request' = Answered(request, TRUE, request.done)
    /\ at' = "idle"
    /\ UNCHANGED <<header, bounce, read_only, available, last_used, deviceVars, status>>

\* The answer is there; a read copies its chunk out.
Complete ==
    /\ at = "poll" /\ used # last_used
    /\ last_used' = (last_used + 1) % IndexModulus
    /\ IF status # "ok"
         THEN request' = Answered(request, TRUE, request.done) /\ at' = "idle"
         ELSE /\ request' = [request EXCEPT !.done = @ + Chunk,
                                !.data = IF request.type = "read"
                                           THEN @ \o SubSeq(bounce, 1, Chunk) ELSE @]
              /\ at' = "chunk"
    /\ UNCHANGED <<header, bounce, broken, read_only, available, deviceVars, status>>

Finish ==
    /\ at = "chunk" /\ request.done = request.count
    /\ request' = Answered(request, FALSE, request.done)
    /\ at' = "idle"
    /\ UNCHANGED <<header, bounce, broken, read_only, available, last_used, deviceVars, status>>

-------------------------------------------------------------------------------
(* The device. *)

\* It takes up what the available ring holds, as the memory reads now.
DeviceTake ==
    /\ ~ work.busy /\ seen # available
    /\ seen' = (seen + 1) % IndexModulus
    /\ work' = [busy |-> TRUE, type |-> header.type, first |-> header.first,
                count |-> header.count, moved |-> 0]
    /\ UNCHANGED <<driverVars, disk, used, status>>

\* The bounce buffer with element i set; a chunk is read from its start on.
Filled(i, v) == IF i <= Len(bounce) THEN [bounce EXCEPT ![i] = v] ELSE Append(bounce, v)

\* One sector to or from the bounce buffer.
DeviceMove ==
    /\ work.busy /\ work.moved < work.count
    /\ LET sector == work.first + work.moved
       IN  IF work.type = "read"
             THEN bounce' = Filled(work.moved + 1, disk[sector]) /\ UNCHANGED disk
             ELSE disk' = [disk EXCEPT ![sector] = bounce[work.moved + 1]] /\ UNCHANGED bounce
    /\ work' = [work EXCEPT !.moved = @ + 1]
    /\ UNCHANGED <<header, broken, read_only, available, last_used, request, at, used, seen, status>>

\* The status byte and the used index; a failure may come anywhere before the end.
DeviceAnswer(s) ==
    /\ work.busy /\ (s = "ok" => work.moved = work.count)
    /\ status' = s
    /\ used' = (used + 1) % IndexModulus
    /\ work' = Idle
    /\ UNCHANGED <<driverVars, disk, seen>>

Driver == Fill \/ Publish \/ PollLimit \/ Complete \/ Finish
Device == DeviceTake \/ DeviceMove \/ \E s \in {"ok", "error"} : DeviceAnswer(s)
===============================================================================
