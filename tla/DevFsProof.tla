----------------------------- MODULE DevFsProof -----------------------------
(***************************************************************************)
(* What DevFs promises of the bytes of a device, for every number and size *)
(* of blocks, every ring and every bounce buffer: a call that returns has  *)
(* moved the bytes it says, and no byte outside its range has changed.     *)
(* Nothing is claimed of a device that was given up (broken_): it may      *)
(* still answer.                                                           *)
(***************************************************************************)
EXTENDS DevFs, SequenceTheorems, TLAPS

-------------------------------------------------------------------------------
(* The inductive invariant: the ring, the request, the call. *)

\* The next value of a ring index.
Bump(i) == (i + 1) % IndexModulus

RingTypes ==
    /\ disk \in [0 .. Sectors - 1 -> Content]
    /\ bounce \in Seq(Content)
    /\ {available, used, last_used, seen} \subseteq 0 .. IndexModulus - 1
    /\ at \in {"idle", "chunk", "publish", "poll"}

\* The first n sectors of the chunk are the same in the bounce buffer and on disk.
Moved(n) ==
    /\ n <= Len(bounce)
    /\ \A i \in 1 .. n : bounce[i] = disk[header.first + i - 1]

\* Between requests both sides agree on every index; while the driver polls, the
\* device has not begun, is at it, or has answered.
Ring ==
    /\ at # "poll" =>
          /\ used = last_used /\ seen = last_used /\ available = last_used
          /\ work = Idle
    /\ at = "poll" =>
          /\ available = Bump(last_used)
          /\ \/ seen = last_used /\ used = last_used /\ work = Idle
             \/ /\ seen = available /\ used = last_used
                /\ work = [busy |-> TRUE, type |-> header.type, first |-> header.first,
                           count |-> header.count, moved |-> work.moved]
                /\ work.moved \in 0 .. header.count /\ Moved(work.moved)
             \/ /\ seen = available /\ used = available /\ work = Idle
                /\ status = "ok" => Moved(header.count)

\* A request under way lies on the device; what is done of it is on both sides.
Running ==
    /\ request.type \in {"read", "write"}
    /\ request = [type |-> request.type, first |-> request.first, count |-> request.count,
                  data |-> request.data, done |-> request.done]
    /\ request.first \in Nat /\ request.count \in Nat
    /\ request.first + request.count <= Sectors
    /\ request.done \in 0 .. request.count
    /\ request.data \in Seq(Content)
    /\ Len(request.data) = IF request.type = "read" THEN request.done ELSE request.count
    /\ \A i \in 1 .. request.done : request.data[i] = disk[request.first + i - 1]

\* The chunk handed to the device is the next one of the request.
Handed ==
    /\ request.done < request.count
    /\ header = [type |-> request.type, first |-> request.first + request.done, count |-> Chunk]
    /\ request.type = "write" =>
          /\ Len(bounce) = Chunk
          /\ \A i \in 1 .. Chunk : bounce[i] = request.data[request.done + i]

\* What an answer says was read was read.
Told ==
    request.type = "answered" =>
        /\ request.done \in Nat /\ request.error \in BOOLEAN
        /\ request.of = "read" =>
              /\ request.data \in Seq(Content) /\ Len(request.data) = request.done
              /\ \A i \in 1 .. request.done : request.data[i] = disk[request.first + i - 1]

RequestSound ==
    /\ at # "idle" => Running
    /\ at \in {"publish", "poll"} => Handed
    /\ at = "idle" => request.type \in {"none", "answered"} /\ Told

DriverInv == RingTypes /\ Ring /\ RequestSound

\* A call lies on the device, and what it moved is on both sides.
CallTypes ==
    /\ position \in Nat /\ scratch \in Content /\ before \in [0 .. Sectors - 1 -> Content]
    /\ call.state \in {"none", "loop", "fetching", "copy", "storing", "returned"}
    /\ call.state # "none" =>
          /\ call = [state |-> call.state, op |-> call.op, offset |-> call.offset,
                     length |-> call.length, data |-> call.data, moved |-> call.moved,
                     error |-> call.error]
          /\ call.op \in {"read", "write"} /\ call.offset \in Nat /\ call.length \in Nat
          /\ call.data \in Seq(Byte) /\ call.length <= Len(call.data)
          /\ call.length > 0 => call.offset + call.length <= Capacity
          /\ call.moved \in 0 .. call.length /\ call.error \in BOOLEAN
    /\ call.state \in {"fetching", "copy", "storing"} => call.moved < call.length

\* Which request the driver is at for the call.
CallRequest ==
    /\ call.state \in {"loop", "copy", "returned"} => at = "idle"
    /\ call.state = "none" /\ at # "idle" => request.type = "read"
    /\ call.state = "fetching" =>
          IF at = "idle"
            THEN /\ request.type = "answered" /\ request.of = "read" /\ request.first = Block
                 /\ request.error \/ request.done = 1
            ELSE request.type = "read" /\ request.first = Block /\ request.count = 1
    /\ call.state = "storing" =>
          /\ call.op = "write"
          /\ IF at = "idle"
               THEN /\ request.type = "answered" /\ request.of = "write"
                    /\ request.error \/ disk[Block] = scratch
               ELSE /\ request.type = "write" /\ request.first = Block /\ request.count = 1
                    /\ request.data = <<scratch>>

\* The scratch buffer holds the block where the call does not set it, and the
\* call's bytes where it does.
ScratchSound ==
    /\ call.state = "copy" /\ NeedsBlock => scratch = disk[Block]
    /\ call.state = "storing" =>
          \A i \in 1 .. BlockBytes :
              scratch[i] = IF i \in Inside + 1 .. Inside + Amount
                             THEN call.data[call.moved + i - Inside] ELSE disk[Block][i]

BytesSound ==
    /\ call.state # "none" =>
          \A i \in 1 .. call.moved : call.data[i] = ByteAt(disk, call.offset + i - 1)
    /\ call.state = "none" \/ call.op = "read" => disk = before
    /\ call.state # "none" =>
          \A o \in 0 .. Capacity - 1 :
              o \notin call.offset .. call.offset + call.length - 1 =>
                  ByteAt(disk, o) = ByteAt(before, o)

CallInv == CallTypes /\ CallRequest /\ ScratchSound /\ BytesSound

IInv == broken \in BOOLEAN /\ (~ broken => DriverInv /\ CallInv)

-------------------------------------------------------------------------------
(* Offsets, blocks and ring indices. *)

\* Quotient and remainder of an offset and a block size.
LEMMA DivMod ==
    ASSUME NEW p \in Nat, NEW b \in Nat \ {0}
    PROVE  /\ p \div b \in Nat /\ p % b \in 0 .. b - 1
           /\ p = b * (p \div b) + (p % b)
  OBVIOUS

\* They are the only ones.
LEMMA SameQuotient ==
    ASSUME NEW b \in Nat \ {0}, NEW q \in Nat, NEW r \in 0 .. b - 1
    PROVE  (b * q + r) \div b = q /\ (b * q + r) % b = r
  OBVIOUS

\* Bytes of one block have its number, and their places in it differ as they do.
LEMMA Within ==
    ASSUME NEW p \in Nat, NEW b \in Nat \ {0}, NEW j \in Int, (p % b) + j \in 0 .. b - 1
    PROVE  p + j \in Nat /\ (p + j) \div b = p \div b /\ (p + j) % b = (p % b) + j
  <1> DEFINE q == p \div b  r == p % b
  <1>1. q \in Nat /\ r \in 0 .. b - 1 /\ p = b * q + r
    BY Zenon, DivMod
  <1>2. r + j \in 0 .. b - 1
    OBVIOUS
  <1>3. p + j = b * q + (r + j)
    BY <1>1
  <1> HIDE DEF q, r
  <1> DEFINE t == r + j
  <1>4. b * q \in Nat /\ t \in 0 .. b - 1
    BY <1>1, <1>2
  <1> HIDE DEF t
  <1>5. (b * q + t) \div b = q /\ (b * q + t) % b = t
    BY Zenon, <1>1, <1>4, SameQuotient
  <1>6. p + j = b * q + t
    BY <1>3 DEF t
  <1>7. p + j \in Nat
    BY <1>6, <1>4
  <1>8. (p + j) \div b = q /\ (p + j) % b = t
    BY <1>5, <1>6
  <1> QED
    BY <1>7, <1>8 DEF q, r, t

\* An offset below the capacity is in a block of the device.
LEMMA BlockInRange ==
    ASSUME NEW s \in Nat, NEW b \in Nat \ {0}, NEW p \in 0 .. (s * b) - 1
    PROVE  p \div b \in 0 .. s - 1
  <1> DEFINE q == p \div b  r == p % b
  <1>0. p \in Nat /\ p < s * b
    OBVIOUS
  <1>1. q \in Nat /\ r \in 0 .. b - 1 /\ p = b * q + r
    BY Zenon, <1>0, DivMod
  <1> HIDE DEF q, r
  <1>2. q < s
    <2> SUFFICES ASSUME q >= s PROVE FALSE
      BY <1>1
    <2>1. b * q >= s * b
      BY <1>1
    <2> QED
      BY <1>0, <1>1, <2>1
  <1> QED
    BY <1>1, <1>2 DEF q

\* A ring index that moves is another one, also when it wraps.
LEMMA BumpMoves ==
    ASSUME NEW i \in 0 .. IndexModulus - 1
    PROVE  Bump(i) \in 0 .. IndexModulus - 1 /\ Bump(i) # i
  BY VirtioAssumption DEF Bump

-------------------------------------------------------------------------------
(* The driver and the device keep the ring and the request. *)

\* A request that is refused is answered at once, one that is taken lies on the
\* device (validate() in block.cpp).
LEMMA StartKeeps ==
    ASSUME DriverInv, ~ broken,
           NEW type \in {"read", "write"}, NEW first \in Nat, NEW count \in Nat,
           NEW data \in Seq(Content), Len(data) = (IF type = "read" THEN 0 ELSE count),
           Start(type, first, count, data)
    PROVE  DriverInv'
  <1>1. RingTypes' /\ Ring'
    BY Zenon DEF DriverInv, RingTypes, Ring, Start, deviceVars
  <1>2. CASE at' = "idle"
    <2>1. request' = [type |-> "answered", of |-> type, first |-> first, data |-> data,
                      done |-> 0, error |-> TRUE]
      BY <1>2 DEF Start, Answered
    <2>2. Told'
      BY <2>1 DEF Told
    <2> QED
      BY <1>1, <1>2, <2>1, <2>2 DEF DriverInv, RequestSound
  <1>3. CASE at' = "chunk"
    <2>1. /\ request' = [type |-> type, first |-> first, count |-> count, data |-> data, done |-> 0]
          /\ first <= Sectors /\ count <= Sectors - first
      BY <1>3, VirtioAssumption DEF Start
    <2>2. Running'
      BY <2>1, VirtioAssumption DEF Running
    <2> QED
      BY <1>1, <1>3, <2>2 DEF DriverInv, RequestSound
  <1> QED
    BY Zenon, <1>2, <1>3 DEF Start

\* The reads of devfs and of whole blocks begin so.
LEMMA ReadStarts ==
    ASSUME DriverInv, ~ broken, NEW first \in Nat, NEW count \in Nat,
           Start("read", first, count, <<>>)
    PROVE  /\ DriverInv' /\ disk' = disk /\ at = "idle"
           /\ \/ at' = "idle" /\ request'.type = "answered" /\ request'.of = "read"
                 /\ request'.first = first /\ request'.error = TRUE
              \/ at' = "chunk" /\ request'.type = "read" /\ request'.first = first
                 /\ request'.count = count
  <1> DEFINE type == "read"  data == <<>>
  <1>1. type \in {"read", "write"} /\ data \in Seq(Content)
        /\ Len(data) = (IF type = "read" THEN 0 ELSE count) /\ Start(type, first, count, data)
    BY EmptySeq
  <1>2. \/ at' = "idle" /\ request'.type = "answered" /\ request'.of = "read"
           /\ request'.first = first /\ request'.error = TRUE
        \/ at' = "chunk" /\ request'.type = "read" /\ request'.first = first
           /\ request'.count = count
    <2> DEFINE r == [type |-> "read", first |-> first, count |-> count, data |-> <<>>, done |-> 0]
    <2>1. \/ request' = Answered(r, TRUE, 0) /\ at' = "idle"
          \/ request' = r /\ at' = "chunk"
      BY Zenon DEF Start
    <2> QED
      BY <2>1 DEF Answered
  <1>3. disk' = disk /\ at = "idle"
    BY DEF Start, deviceVars
  <1> HIDE DEF type, data
  <1>4. DriverInv'
    BY <1>1, StartKeeps
  <1> QED
    BY <1>2, <1>3, <1>4

\* The writes of devfs begin so.
LEMMA WriteStarts ==
    ASSUME DriverInv, ~ broken, NEW first \in Nat, NEW c \in Content,
           Start("write", first, 1, <<c>>)
    PROVE  /\ DriverInv' /\ disk' = disk /\ at = "idle"
           /\ \/ at' = "idle" /\ request'.type = "answered" /\ request'.of = "write"
                 /\ request'.error = TRUE
              \/ at' = "chunk" /\ request'.type = "write" /\ request'.first = first
                 /\ request'.count = 1 /\ request'.data = <<c>>
  <1> DEFINE type == "write"  data == <<c>>  count == 1
  <1>1. type \in {"read", "write"} /\ data \in Seq(Content) /\ count \in Nat
        /\ Len(data) = (IF type = "read" THEN 0 ELSE count) /\ Start(type, first, count, data)
    OBVIOUS
  <1>2. \/ at' = "idle" /\ request'.type = "answered" /\ request'.of = "write"
           /\ request'.error = TRUE
        \/ at' = "chunk" /\ request'.type = "write" /\ request'.first = first
           /\ request'.count = 1 /\ request'.data = data
    <2> DEFINE r == [type |-> "write", first |-> first, count |-> 1, data |-> data, done |-> 0]
    <2> HIDE DEF data
    <2>1. \/ request' = Answered(r, TRUE, 0) /\ at' = "idle"
          \/ request' = r /\ at' = "chunk"
      BY Zenon DEF Start, data
    <2> QED
      BY <2>1 DEF Answered
  <1>3. disk' = disk /\ at = "idle"
    BY DEF Start, deviceVars
  <1>4. DriverInv'
    <2> HIDE DEF type, data, count
    <2> QED
      BY <1>1, StartKeeps
  <1> QED
    BY <1>2, <1>3, <1>4

\* A request that was used leaves nothing behind.
LEMMA ForgetKeeps ==
    ASSUME DriverInv, at = "idle", Forget
    PROVE  DriverInv'
  <1>1. RingTypes' /\ Ring'
    BY DEF DriverInv, RingTypes, Ring, Forget, deviceVars
  <1> QED
    BY <1>1 DEF DriverInv, RequestSound, Told, Forget, NoRequest

\* The length of the next chunk.
LEMMA ChunkFits ==
    ASSUME Running, request.done < request.count
    PROVE  /\ Chunk \in Nat \ {0} /\ request.done + Chunk <= request.count
  BY VirtioAssumption DEF Running, Chunk, Min2

\* The bounce buffer is filled with the next chunk of a write.
LEMMA FillKeeps ==
    ASSUME DriverInv, Fill
    PROVE  DriverInv'
  <1>1. Running /\ at = "chunk" /\ request.done < request.count
    BY DEF DriverInv, RequestSound, Fill
  <1>2. Chunk \in Nat \ {0} /\ request.done + Chunk <= request.count
    BY <1>1, ChunkFits
  <1>3. /\ request' = request /\ Chunk' = Chunk /\ at' = "publish" /\ UNCHANGED deviceVars
        /\ UNCHANGED <<available, last_used>>
        /\ header' = [type |-> request.type, first |-> request.first + request.done, count |-> Chunk]
    BY DEF Fill, Chunk
  <1>4. request.type = "write" =>
          /\ bounce' \in Seq(Content) /\ Len(bounce') = Chunk
          /\ \A i \in 1 .. Chunk : bounce'[i] = request.data[request.done + i]
    <2> HAVE request.type = "write"
    <2> DEFINE m == request.done + 1  n == request.done + Chunk
    <2>1. bounce' = SubSeq(request.data, m, n)
      BY DEF Fill
    <2>2. m \in Int /\ n \in Int /\ n - m + 1 = Chunk /\ m <= n
      BY <1>1, <1>2 DEF Running
    <2>3. \A i \in m .. n : request.data[i] \in Content
      BY <1>1, <1>2, ElementOfSeq DEF Running
    <2>4. \A i \in 1 .. Chunk : request.data[m + i - 1] = request.data[request.done + i]
      BY <1>1, <1>2 DEF Running
    <2> HIDE DEF m, n
    <2> QED
      BY <2>1, <2>2, <2>3, <2>4, SubSeqProperties
  <1>5. request.type = "read" => bounce' = bounce
    BY DEF Fill
  <1>6. request.type \in {"read", "write"}
    BY <1>1 DEF Running
  <1>7. RingTypes'
    BY <1>3, <1>4, <1>5, <1>6 DEF DriverInv, RingTypes, deviceVars
  <1>8. Ring'
    BY <1>1, <1>3 DEF DriverInv, Ring, deviceVars
  <1>9. Running'
    BY <1>1, <1>3 DEF Running, deviceVars
  <1>10. Handed'
    BY <1>1, <1>3, <1>4 DEF Handed
  <1> QED
    BY <1>3, <1>7, <1>8, <1>9, <1>10 DEF DriverInv, RequestSound

\* The device is given something to take up.
LEMMA PublishKeeps ==
    ASSUME DriverInv, Publish
    PROVE  DriverInv'
  <1>1. available = last_used /\ last_used \in 0 .. IndexModulus - 1
    BY DEF DriverInv, RingTypes, Ring, Publish
  <1>2. available' = Bump(last_used) /\ Bump(last_used) \in 0 .. IndexModulus - 1
    BY <1>1, BumpMoves DEF Publish, Bump
  <1>3. RingTypes'
    BY <1>2 DEF DriverInv, RingTypes, Publish, deviceVars
  <1>4. Ring'
    BY <1>2 DEF DriverInv, Ring, Publish, deviceVars, Bump
  <1>5. Running' /\ Handed'
    BY DEF DriverInv, RequestSound, Publish, deviceVars, Running, Handed, Chunk
  <1> QED
    BY <1>3, <1>4, <1>5 DEF DriverInv, RequestSound, Publish

\* An answer is there only when the device has answered this request.
LEMMA AnswerThere ==
    ASSUME DriverInv, at = "poll", used # last_used
    PROVE  /\ seen = available /\ used = available /\ work = Idle
           /\ status = "ok" => Moved(header.count)
           /\ available = Bump(last_used)
  BY DEF DriverInv, Ring

\* A chunk that was answered is added to what is done, or the request fails.
LEMMA CompleteKeeps ==
    ASSUME DriverInv, Complete
    PROVE  DriverInv'
  <1>1. Running /\ Handed /\ at = "poll" /\ used # last_used
    BY DEF DriverInv, RequestSound, Complete
  <1>2. /\ seen = available /\ used = available /\ work = Idle
        /\ status = "ok" => Moved(header.count)
        /\ available = Bump(last_used)
    BY <1>1, AnswerThere
  <1>3. last_used' = available /\ UNCHANGED <<header, bounce, available, deviceVars, status>>
    BY <1>2 DEF Complete, Bump
  <1>4. at' \in {"idle", "chunk"}
    BY Zenon DEF Complete
  <1>5. RingTypes'
    BY <1>3, <1>4 DEF DriverInv, RingTypes, deviceVars
  <1>6. Ring'
    BY <1>2, <1>3, <1>4 DEF Ring, deviceVars
  <1>7. CASE status # "ok"
    <2>1. /\ at' = "idle"
          /\ request' = [type |-> "answered", of |-> request.type, first |-> request.first,
                         data |-> request.data, done |-> request.done, error |-> TRUE]
      BY <1>7 DEF Complete, Answered
    <2>2. Told'
      BY <1>1, <1>3, <2>1 DEF Told, Running, deviceVars
    <2> QED
      BY <1>5, <1>6, <2>1, <2>2 DEF DriverInv, RequestSound
  <1>8. CASE status = "ok"
    <2>1. Chunk \in Nat \ {0} /\ request.done + Chunk <= request.count
      BY <1>1, ChunkFits DEF Handed
    <2>2. /\ Chunk <= Len(bounce)
          /\ \A i \in 1 .. Chunk : bounce[i] = disk[request.first + request.done + i - 1]
      BY <1>1, <1>2, <1>8, <2>1 DEF Handed, Moved
    <2> DEFINE new == IF request.type = "read" THEN request.data \o SubSeq(bounce, 1, Chunk)
                                               ELSE request.data
    <2>3. at' = "chunk" /\ request' = [type |-> request.type, first |-> request.first,
                          count |-> request.count, data |-> new, done |-> request.done + Chunk]
      <3>1. request' = [request EXCEPT !.done = request.done + Chunk, !.data = new]
        BY <1>8 DEF Complete
      <3> HIDE DEF new
      <3> QED
        BY Zenon, <1>1, <1>8, <3>1 DEF Complete, Running
    <2>4. /\ new \in Seq(Content)
          /\ Len(new) = IF request.type = "read" THEN request.done + Chunk ELSE request.count
          /\ \A i \in 1 .. request.done + Chunk : new[i] = disk[request.first + i - 1]
      <3>1. CASE request.type = "read"
        <4> DEFINE part == SubSeq(bounce, 1, Chunk)
        <4>1. \A i \in 1 .. Chunk : bounce[i] \in Content
          BY <2>1, <2>2, ElementOfSeq DEF DriverInv, RingTypes
        <4>2. /\ part \in Seq(Content) /\ Len(part) = Chunk
              /\ \A i \in 1 .. Chunk : part[i] = bounce[i]
          BY <2>1, <4>1, SubSeqProperties
        <4> HIDE DEF part
        <4>3. request.data \in Seq(Content) /\ Len(request.data) = request.done
          BY <1>1, <3>1 DEF Running
        <4>4. new = request.data \o part
          BY <3>1 DEF part
        <4> HIDE DEF new
        <4>5. /\ new \in Seq(Content) /\ Len(new) = request.done + Chunk
              /\ \A i \in 1 .. request.done + Chunk :
                    new[i] = IF i <= request.done THEN request.data[i] ELSE part[i - request.done]
          <5> DEFINE old == request.data
          <5>1. /\ old \o part \in Seq(Content) /\ Len(old \o part) = Len(old) + Len(part)
                /\ \A i \in 1 .. Len(old) + Len(part) :
                      (old \o part)[i] = IF i <= Len(old) THEN old[i] ELSE part[i - Len(old)]
            <6> HIDE DEF old
            <6> QED
              BY ZenonT(40), <4>2, <4>3, ConcatProperties DEF old
          <5> QED
            BY <4>2, <4>3, <4>4, <5>1
        <4>6. \A i \in 1 .. request.done + Chunk : new[i] = disk[request.first + i - 1]
          <5> TAKE i \in 1 .. request.done + Chunk
          <5>1. CASE i <= request.done
            BY SMTT(30), <1>1, <4>5, <5>1 DEF Running
          <5>2. CASE i > request.done
            <6> DEFINE j == i - request.done
            <6>1. j \in 1 .. Chunk /\ new[i] = part[j]
              BY <1>1, <2>1, <4>5, <5>2 DEF Running
            <6>2. new[i] = disk[request.first + request.done + j - 1]
              BY Zenon, <6>1, <4>2, <2>2
            <6> QED
              BY SMTT(30), <6>2, <1>1, <2>1 DEF Running
          <5> QED
            BY <5>1, <5>2, <1>1, <2>1 DEF Running
        <4> QED
          BY <3>1, <4>5, <4>6
      <3>2. CASE request.type = "write"
        <4>1. new = request.data
          BY <3>2
        <4>2. \A i \in 1 .. Chunk : request.data[request.done + i]
                                      = disk[request.first + request.done + i - 1]
          BY <1>1, <2>2, <3>2 DEF Handed
        <4>3. ASSUME NEW i \in 1 .. request.done + Chunk, i > request.done
              PROVE  request.data[i] = disk[request.first + i - 1]
          <5> DEFINE j == i - request.done
          <5>1. j \in 1 .. Chunk /\ i = request.done + j
            BY <1>1, <2>1, <4>3 DEF Running
          <5>2. request.first + i - 1 = request.first + request.done + j - 1
            BY <1>1, <2>1 DEF Running
          <5> HIDE DEF j
          <5> QED
            BY <4>2, <5>1, <5>2
        <4>4. \A i \in 1 .. request.done + Chunk : i > request.done \/ i \in 1 .. request.done
          BY <1>1, <2>1 DEF Running
        <4>5. \A i \in 1 .. request.done + Chunk : request.data[i] = disk[request.first + i - 1]
          BY <1>1, <4>3, <4>4 DEF Running
        <4>6. /\ request.data \in Seq(Content) /\ Len(request.data) = request.count
              /\ request.type # "read"
          BY <1>1, <3>2 DEF Running
        <4> HIDE DEF new
        <4> QED
          BY <4>1, <4>5, <4>6
      <3> QED
        BY Zenon, <1>1, <3>1, <3>2 DEF Running
    <2> HIDE DEF new
    <2>5. Running'
      BY <1>1, <1>3, <2>1, <2>3, <2>4 DEF Running, deviceVars
    <2> QED
      BY <1>5, <1>6, <2>3, <2>5 DEF DriverInv, RequestSound
  <1> QED
    BY <1>7, <1>8

\* A request whose sectors are done is answered.
LEMMA FinishKeeps ==
    ASSUME DriverInv, Finish
    PROVE  DriverInv'
  <1>1. Running /\ at = "chunk"
    BY DEF DriverInv, RequestSound, Finish
  <1>2. RingTypes' /\ Ring'
    BY DEF DriverInv, RingTypes, Ring, Finish, deviceVars
  <1>3. /\ at' = "idle" /\ disk' = disk
        /\ request' = [type |-> "answered", of |-> request.type, first |-> request.first,
                       data |-> request.data, done |-> request.done, error |-> FALSE]
    BY DEF Finish, Answered, deviceVars
  <1>4. Told'
    BY <1>1, <1>3 DEF Told, Running
  <1> QED
    BY <1>2, <1>3, <1>4 DEF DriverInv, RequestSound

\* The device takes up the request the driver is waiting for, never another.
LEMMA DeviceTakeKeeps ==
    ASSUME DriverInv, DeviceTake
    PROVE  DriverInv'
  <1>1. last_used \in 0 .. IndexModulus - 1
    BY DEF DriverInv, RingTypes
  <1>2. /\ at = "poll" /\ available = Bump(last_used) /\ seen = last_used /\ used = last_used
    BY <1>1, BumpMoves DEF DriverInv, Ring, DeviceTake, Idle
  <1>3. Handed /\ Running
    BY <1>2 DEF DriverInv, RequestSound
  <1>4. /\ seen' = available /\ UNCHANGED <<driverVars, disk, used, status>>
        /\ work' = [busy |-> TRUE, type |-> header.type, first |-> header.first,
                    count |-> header.count, moved |-> 0]
    BY <1>2 DEF DeviceTake, Bump
  <1>5. RingTypes'
    BY <1>4 DEF DriverInv, RingTypes, driverVars
  <1>6. header.count \in Nat /\ Len(bounce) \in Nat
    BY <1>3, ChunkFits, LenProperties DEF Handed, DriverInv, RingTypes
  <1>7. Moved(work.moved)' /\ work'.moved \in 0 .. header'.count
    BY <1>4, <1>6 DEF Moved, driverVars
  <1>8. Ring'
    BY Zenon, <1>2, <1>4, <1>7 DEF Ring, driverVars, Bump
  <1>9. RequestSound'
    BY <1>4 DEF DriverInv, RequestSound, Running, Handed, Told, Chunk, driverVars
  <1> QED
    BY <1>5, <1>8, <1>9 DEF DriverInv

\* While the device is at a request the driver polls, and the work is the request's.
LEMMA AtWork ==
    ASSUME DriverInv, work.busy
    PROVE  /\ at = "poll" /\ available = Bump(last_used) /\ seen = available /\ used = last_used
           /\ Running /\ Handed
           /\ work.moved \in 0 .. header.count /\ Moved(work.moved)
           /\ work = [busy |-> TRUE, type |-> header.type, first |-> header.first,
                      count |-> header.count, moved |-> work.moved]
           /\ Chunk \in Nat \ {0} /\ request.done + Chunk <= request.count
           /\ header.count = Chunk /\ header.first = request.first + request.done
           /\ header.type = request.type
  <1>1. at = "poll" /\ work # Idle
    BY DEF DriverInv, Ring, Idle
  <1>2. Running /\ Handed
    BY <1>1 DEF DriverInv, RequestSound
  <1>3. Chunk \in Nat \ {0} /\ request.done + Chunk <= request.count
    BY <1>2, ChunkFits DEF Handed
  <1>4. header.count = Chunk /\ header.first = request.first + request.done
        /\ header.type = request.type
    BY <1>2 DEF Handed
  <1>5. /\ work = [busy |-> TRUE, type |-> header.type, first |-> header.first,
                   count |-> header.count, moved |-> work.moved]
        /\ work.moved \in 0 .. header.count /\ Moved(work.moved)
    BY <1>1 DEF DriverInv, Ring
  <1>6. available = Bump(last_used) /\ seen = available /\ used = last_used
    BY Zenon, <1>1 DEF DriverInv, Ring
  <1> QED
    BY <1>1, <1>2, <1>3, <1>4, <1>5, <1>6

\* A sector moves only for the request under way; only a write changes the disk, at
\* the sector whose turn it is, to what the request holds for it.
LEMMA MoveIs ==
    ASSUME DriverInv, DeviceMove
    PROVE  /\ work.moved + 1 \in 1 .. header.count
           /\ header.first + work.moved \in 0 .. Sectors - 1
           /\ request.type = "read" =>
                 /\ bounce' = Filled(work.moved + 1, disk[header.first + work.moved])
                 /\ disk' = disk
           /\ request.type = "write" =>
                 /\ disk' = [disk EXCEPT ![header.first + work.moved] =
                                           request.data[request.done + work.moved + 1]]
                 /\ bounce' = bounce
                 /\ bounce[work.moved + 1] = request.data[request.done + work.moved + 1]
                 /\ bounce[work.moved + 1] \in Content
  <1>1. work.busy /\ work.moved < work.count
    BY DEF DeviceMove
  <1>2. /\ Running /\ Handed /\ Chunk \in Nat \ {0} /\ request.done + Chunk <= request.count
        /\ work.moved \in 0 .. header.count /\ header.count = Chunk
        /\ header.first = request.first + request.done /\ header.type = request.type
        /\ work.type = header.type /\ work.first = header.first /\ work.count = header.count
    BY <1>1, AtWork
  <1>3. work.moved + 1 \in 1 .. header.count
    BY <1>1, <1>2
  <1>4. header.first + work.moved \in 0 .. Sectors - 1
    <2>1. /\ request.first \in Nat /\ request.done \in Nat /\ request.count \in Nat
          /\ request.first + request.count <= Sectors /\ work.moved \in Nat
          /\ work.moved + 1 <= Chunk
      BY <1>2, <1>3 DEF Running
    <2> QED
      BY <1>2, <2>1, VirtioAssumption
  <1>5. request.type = "read" =>
          /\ bounce' = Filled(work.moved + 1, disk[header.first + work.moved])
          /\ disk' = disk
    BY <1>2 DEF DeviceMove
  <1>6. request.type = "write" =>
          /\ disk' = [disk EXCEPT ![header.first + work.moved] = bounce[work.moved + 1]]
          /\ bounce' = bounce
    BY <1>2 DEF DeviceMove
  <1>7. ASSUME request.type = "write"
        PROVE  /\ bounce[work.moved + 1] = request.data[request.done + work.moved + 1]
               /\ bounce[work.moved + 1] \in Content
    <2>1. bounce[work.moved + 1] = request.data[request.done + (work.moved + 1)]
      BY <1>2, <1>3, <1>7 DEF Handed
    <2>2. request.done + (work.moved + 1) = request.done + work.moved + 1
      BY <1>2 DEF Running
    <2>3. bounce[work.moved + 1] \in Content
      BY Zenon, <1>2, <1>3, <1>7, ElementOfSeq DEF Handed, DriverInv, RingTypes
    <2> QED
      BY <2>1, <2>2, <2>3
  <1> QED
    BY <1>3, <1>4, <1>5, <1>6, <1>7

\* The bounce buffer with one more sector in it.
LEMMA FilledIs ==
    ASSUME bounce \in Seq(Content), NEW n \in Nat, n <= Len(bounce), NEW v \in Content
    PROVE  /\ Filled(n + 1, v) \in Seq(Content)
           /\ n + 1 <= Len(Filled(n + 1, v))
           /\ \A i \in 1 .. n : Filled(n + 1, v)[i] = bounce[i]
           /\ Filled(n + 1, v)[n + 1] = v
  <1>0. Len(bounce) \in Nat
    BY LenProperties
  <1>1. CASE n + 1 <= Len(bounce)
    <2>1. Filled(n + 1, v) = [bounce EXCEPT ![n + 1] = v] /\ n + 1 \in 1 .. Len(bounce)
      BY <1>0, <1>1 DEF Filled
    <2>2. /\ Filled(n + 1, v) \in Seq(Content) /\ Len(Filled(n + 1, v)) = Len(bounce)
          /\ \A j \in 1 .. Len(bounce) : Filled(n + 1, v)[j] = IF j = n + 1 THEN v ELSE bounce[j]
      BY <2>1, ExceptSeq
    <2> QED
      BY <1>0, <1>1, <2>1, <2>2
  <1>2. CASE ~ (n + 1 <= Len(bounce))
    <2>1. Filled(n + 1, v) = Append(bounce, v) /\ n = Len(bounce)
      BY <1>0, <1>2 DEF Filled
    <2> QED
      BY <1>0, <2>1, AppendProperties
  <1> QED
    BY Zenon, <1>1, <1>2

\* One more sector of the chunk is on both sides, and what was done stays so.
LEMMA DeviceMoveKeeps ==
    ASSUME DriverInv, DeviceMove
    PROVE  DriverInv'
  <1> DEFINE m == work.moved  sector == header.first + m
  <1>1. work.busy
    BY DEF DeviceMove
  <1>2. /\ at = "poll" /\ available = Bump(last_used) /\ seen = available /\ used = last_used
        /\ Running /\ Handed /\ m \in 0 .. header.count /\ Moved(m)
        /\ work = [busy |-> TRUE, type |-> header.type, first |-> header.first,
                   count |-> header.count, moved |-> m]
        /\ Chunk \in Nat \ {0} /\ request.done + Chunk <= request.count
        /\ header.count = Chunk /\ header.first = request.first + request.done
        /\ header.type = request.type
    BY <1>1, AtWork
  <1>3. m + 1 \in 1 .. header.count /\ sector \in 0 .. Sectors - 1
    BY MoveIs
  <1>4. /\ UNCHANGED <<header, available, last_used, request, at, used, seen, status>>
        /\ work' = [busy |-> TRUE, type |-> header.type, first |-> header.first,
                    count |-> header.count, moved |-> m + 1]
    <2>1. work' = [work EXCEPT !.moved = m + 1]
      BY DEF DeviceMove
    <2> HIDE DEF m
    <2> QED
      BY Zenon, <1>2, <2>1 DEF DeviceMove
  <1>5. request.first \in Nat /\ request.done \in Nat /\ header.first \in Nat /\ m \in Nat
    BY SMTT(30), <1>2, <1>3 DEF Running
  <1>6. work'.moved = m + 1 /\ m + 1 \in 0 .. header'.count
    BY <1>3, <1>4
  <1>7. bounce \in Seq(Content) /\ disk \in [0 .. Sectors - 1 -> Content]
    BY DEF DriverInv, RingTypes
  <1>8. CASE request.type = "read"
    <2>1. bounce' = Filled(m + 1, disk[sector]) /\ disk' = disk
      BY <1>8, MoveIs
    <2>2. disk[sector] \in Content /\ m <= Len(bounce)
      BY <1>2, <1>3, <1>7 DEF Moved
    <2>3. /\ bounce' \in Seq(Content) /\ m + 1 <= Len(bounce')
          /\ \A i \in 1 .. m : bounce'[i] = bounce[i]
          /\ bounce'[m + 1] = disk[sector]
      <3> HIDE DEF m, sector
      <3> QED
        BY Zenon, <1>5, <1>7, <2>1, <2>2, FilledIs
    <2>4. \A i \in 1 .. m + 1 : bounce'[i] = disk[header.first + i - 1]
      <3> TAKE i \in 1 .. m + 1
      <3>1. CASE i \in 1 .. m
        BY <1>2, <2>3, <3>1 DEF Moved
      <3>2. CASE i = m + 1
        <4>1. header.first + i - 1 = sector
          BY <1>5, <3>2
        <4> QED
          BY <2>3, <3>2, <4>1
      <3> QED
        BY <1>5, <3>1, <3>2
    <2>5. Moved(work.moved)'
      BY ZenonT(40), <1>6, <1>4, <2>1, <2>3, <2>4 DEF Moved
    <2>6. RingTypes'
      BY <1>4, <1>7, <2>1, <2>3 DEF DriverInv, RingTypes
    <2>7. Ring'
      <3>1. work' = [busy |-> TRUE, type |-> header'.type, first |-> header'.first,
                     count |-> header'.count, moved |-> work'.moved]
        BY ZenonT(40), <1>4, <1>6
      <3> QED
        BY <1>2, <1>4, <1>6, <2>5, <3>1 DEF Ring, Bump
    <2>8. Running' /\ Handed'
      BY <1>2, <1>4, <1>8, <2>1 DEF Running, Handed, Chunk
    <2> QED
      BY <1>2, <1>4, <2>6, <2>7, <2>8 DEF DriverInv, RequestSound
  <1>9. CASE request.type = "write"
    <2> DEFINE c == bounce[m + 1]
    <2>1. disk' = [disk EXCEPT ![sector] = c] /\ bounce' = bounce /\ c \in Content
      BY <1>9, MoveIs
    <2>2. m + 1 <= Len(bounce)
      BY <1>2, <1>3, <1>9 DEF Handed
    <2> HIDE DEF c
    <2>3. disk' \in [0 .. Sectors - 1 -> Content]
      BY <1>3, <1>7, <2>1
    <2>4. \A s \in 0 .. Sectors - 1 : disk'[s] = IF s = sector THEN c ELSE disk[s]
      BY <1>3, <1>7, <2>1
    <2>5. \A i \in 1 .. m + 1 : bounce'[i] = disk'[header.first + i - 1]
      <3> TAKE i \in 1 .. m + 1
      <3>1. header.first + i - 1 \in 0 .. Sectors - 1
        BY <1>3, <1>5, VirtioAssumption
      <3>2. CASE i \in 1 .. m
        <4>1. header.first + i - 1 # sector
          BY <1>5, <3>2
        <4>2. disk'[header.first + i - 1] = disk[header.first + i - 1]
          BY <2>4, <3>1, <4>1
        <4> QED
          BY <1>2, <2>1, <3>2, <4>2 DEF Moved
      <3>3. CASE i = m + 1
        <4>1. header.first + i - 1 = sector
          BY <1>5, <3>3
        <4> QED
          BY Zenon, <2>1, <2>4, <3>1, <3>3, <4>1 DEF c
      <3> QED
        BY <1>5, <3>2, <3>3
    <2>6. Moved(work.moved)'
      BY Zenon, <1>6, <1>4, <2>1, <2>2, <2>5 DEF Moved
    <2>7. RingTypes'
      BY ZenonT(40), <1>4, <1>7, <2>1, <2>3 DEF DriverInv, RingTypes
    <2>8. Ring'
      <3>1. work' = [busy |-> TRUE, type |-> header'.type, first |-> header'.first,
                     count |-> header'.count, moved |-> work'.moved]
        BY <1>4, <1>6
      <3> QED
        BY <1>2, <1>4, <1>6, <2>6, <3>1 DEF Ring, Bump
    <2>9. \A i \in 1 .. request.done : disk'[request.first + i - 1] = disk[request.first + i - 1]
      <3> TAKE i \in 1 .. request.done
      <3>1. request.first + i - 1 \in 0 .. Sectors - 1 /\ request.first + i - 1 # sector
        BY <1>2, <1>3, <1>5, VirtioAssumption
      <3> QED
        BY <2>4, <3>1
    <2>10. Running'
      BY Zenon, <1>2, <1>4, <2>9 DEF Running
    <2>11. Handed'
      BY <1>2, <1>4, <2>1 DEF Handed, Chunk
    <2> QED
      BY Zenon, <1>2, <1>4, <2>7, <2>8, <2>10, <2>11 DEF DriverInv, RequestSound
  <1> QED
    BY <1>2, <1>8, <1>9 DEF Running

\* The answer is to the request the driver waits for.
LEMMA DeviceAnswerKeeps ==
    ASSUME DriverInv, NEW s \in {"ok", "error"}, DeviceAnswer(s)
    PROVE  DriverInv'
  <1>1. work.busy /\ (s = "ok" => work.moved = work.count)
    BY DEF DeviceAnswer
  <1>2. /\ at = "poll" /\ available = Bump(last_used) /\ seen = available /\ used = last_used
        /\ Moved(work.moved) /\ work.count = header.count
    BY <1>1, AtWork
  <1>3. used' = available /\ status' = s /\ work' = Idle /\ UNCHANGED <<driverVars, disk, seen>>
    BY <1>2 DEF DeviceAnswer, Bump
  <1>4. RingTypes'
    BY <1>3 DEF DriverInv, RingTypes, driverVars
  <1>5. s = "ok" => Moved(header.count)'
    BY <1>1, <1>2, <1>3 DEF Moved, driverVars
  <1>6. Ring'
    BY Zenon, <1>2, <1>3, <1>5 DEF Ring, Bump, driverVars
  <1>7. RequestSound'
    BY ZenonT(40), <1>3 DEF DriverInv, RequestSound, Running, Handed, Told, Chunk, driverVars
  <1> QED
    BY <1>4, <1>6, <1>7 DEF DriverInv

\* Steps that leave the driver and the device alone.
LEMMA StillKeeps ==
    ASSUME DriverInv, UNCHANGED virtioVars
    PROVE  DriverInv'
  BY DEF DriverInv, RingTypes, Ring, Moved, RequestSound, Running, Handed, Told, Chunk, Bump,
         virtioVars, driverVars, deviceVars

-------------------------------------------------------------------------------
(* Where the bytes of a call are. *)

\* A function on 1 .. n is a sequence of n elements.
LEMMA SeqOfFunction ==
    ASSUME NEW n \in Nat, NEW f \in [1 .. n -> Byte]
    PROVE  f \in Seq(Byte) /\ Len(f) = n
  OBVIOUS

\* A call with bytes left is inside the device, and so are the bytes it moves next.
LEMMA Place ==
    ASSUME CallTypes, call.state # "none", call.moved < call.length
    PROVE  /\ Position \in Nat /\ Inside \in 0 .. BlockBytes - 1 /\ Block \in 0 .. Sectors - 1
           /\ Amount \in 1 .. BlockBytes /\ Inside + Amount <= BlockBytes
           /\ call.moved + Amount <= call.length
  <1>1. /\ call.offset \in Nat /\ call.length \in Nat /\ call.moved \in Nat
        /\ call.offset + call.length <= Capacity /\ BlockBytes \in Nat \ {0}
    BY DevFsAssumption DEF CallTypes
  <1>2. Capacity = Sectors * BlockBytes /\ Capacity \in Nat /\ Sectors \in Nat
    BY DevFsAssumption, VirtioAssumption DEF Capacity
  <1>3. Position \in Nat /\ Position < Capacity
    BY <1>1, <1>2 DEF Position
  <1>4. Position \in 0 .. (Sectors * BlockBytes) - 1
    BY <1>2, <1>3
  <1>5. Block \in 0 .. Sectors - 1
    BY Zenon, <1>1, <1>2, <1>4, BlockInRange DEF Block
  <1>6. Inside \in 0 .. BlockBytes - 1
    BY <1>1, <1>3, DivMod DEF Inside
  <1>7. /\ Amount \in 1 .. BlockBytes /\ Inside + Amount <= BlockBytes
        /\ call.moved + Amount <= call.length
    BY <1>1, <1>6 DEF Amount, Min2
  <1> QED
    BY Zenon, <1>3, <1>5, <1>6, <1>7

\* The bytes moved next are in the block, one after the other.
LEMMA NextBytes ==
    ASSUME CallTypes, call.state # "none", call.moved < call.length, NEW d,
           NEW i \in call.moved + 1 .. call.moved + Amount
    PROVE  /\ ByteAt(d, call.offset + i - 1) = d[Block][Inside + i - call.moved]
           /\ Inside + i - call.moved \in Inside + 1 .. Inside + Amount
           /\ Inside + i - call.moved \in 1 .. BlockBytes
  <1>1. /\ Position \in Nat /\ Inside \in 0 .. BlockBytes - 1
        /\ Amount \in 1 .. BlockBytes /\ Inside + Amount <= BlockBytes
    BY Place
  <1>2. call.offset \in Nat /\ call.moved \in Nat /\ BlockBytes \in Nat \ {0}
    BY DevFsAssumption DEF CallTypes
  <1> DEFINE j == i - call.moved - 1
  <1>3. j \in Int /\ Inside + j \in 0 .. BlockBytes - 1
        /\ call.offset + i - 1 = Position + j /\ Inside + j + 1 = Inside + i - call.moved
    BY <1>1, <1>2 DEF Position
  <1> HIDE DEF j
  <1>4. (Position + j) \div BlockBytes = Block /\ (Position + j) % BlockBytes = Inside + j
    BY Zenon, <1>1, <1>2, <1>3, Within DEF Block, Inside
  <1>5. ByteAt(d, call.offset + i - 1) = d[Block][Inside + i - call.moved]
    BY <1>3, <1>4 DEF ByteAt
  <1>6. /\ Inside + i - call.moved \in Inside + 1 .. Inside + Amount
        /\ Inside + i - call.moved \in 1 .. BlockBytes
    BY <1>1, <1>2
  <1> QED
    BY <1>5, <1>6

\* A byte of that block at one of their places is one of them.
LEMMA OtherBytes ==
    ASSUME CallTypes, call.state # "none", call.moved < call.length,
           NEW o \in Nat, o \div BlockBytes = Block
    PROVE  /\ (o % BlockBytes) + 1 \in 1 .. BlockBytes
           /\ (o % BlockBytes) + 1 \in Inside + 1 .. Inside + Amount =>
                 o \in Position .. Position + Amount - 1
  <1>1. /\ Position \in Nat /\ Inside \in 0 .. BlockBytes - 1
        /\ Amount \in 1 .. BlockBytes /\ BlockBytes \in Nat \ {0}
    BY Place, DevFsAssumption
  <1> DEFINE r == o % BlockBytes  k == BlockBytes * Block
  <1>2. o = k + r /\ r \in 0 .. BlockBytes - 1 /\ Block \in Nat
    BY Zenon, <1>1, DivMod
  <1>3. Position = k + Inside
    BY <1>1, DivMod DEF Block, Inside
  <1>4. k \in Nat
    BY <1>1, <1>2
  <1> HIDE DEF r, k
  <1> QED
    BY <1>1, <1>2, <1>3, <1>4 DEF r

-------------------------------------------------------------------------------
(* The driver and the device keep what the call relies on. *)

\* With the call, the scratch buffer and the disk as they were, what is said of the
\* call's bytes stays true.
LEMMA SameBytes ==
    ASSUME CallInv, UNCHANGED <<position, call, scratch, before, disk>>
    PROVE  CallTypes' /\ ScratchSound' /\ BytesSound'
  <1>1. CallTypes'
    BY ZenonT(40) DEF CallInv, CallTypes
  <1>2. ScratchSound'
    BY SMTT(30) DEF CallInv, ScratchSound, NeedsBlock, Amount, Inside, Block, Position
  <1>3. BytesSound'
    BY DEF CallInv, BytesSound, ByteAt
  <1> QED
    BY Zenon, <1>1, <1>2, <1>3

\* A step of the driver within a request leaves the request the call's.
LEMMA SameRequest ==
    ASSUME CallInv, UNCHANGED <<call, scratch>>, at # "idle", at' # "idle",
           request'.type = request.type, request'.first = request.first,
           request'.count = request.count, request.type = "write" => request'.data = request.data
    PROVE  CallRequest'
  <1>1. Block' = Block
    BY DEF Block, Position
  <1> QED
    BY <1>1 DEF CallInv, CallRequest

\* The driver changes no byte, and answers the call what became of its request.
LEMMA DriverKeepsCall ==
    ASSUME DriverInv, CallInv, Driver, ~ broken', UNCHANGED <<position, call, scratch, before>>
    PROVE  CallInv'
  <1>1. disk' = disk
    BY Zenon DEF Driver, Fill, Publish, PollLimit, Complete, Finish, deviceVars
  <1>2. CallTypes' /\ ScratchSound' /\ BytesSound'
    BY <1>1, SameBytes
  <1>3. Block' = Block
    BY DEF Block, Position
  <1>4. CASE Fill \/ Publish
    BY <1>2, <1>4, SameRequest DEF Fill, Publish, CallInv
  <1>5. CASE PollLimit
    BY <1>5 DEF PollLimit
  <1>6. CASE Complete
    <2>1. Running /\ at = "poll"
      BY <1>6 DEF DriverInv, RequestSound, Complete
    <2>2. CASE status # "ok"
      <3>1. /\ at' = "idle"
            /\ request' = [type |-> "answered", of |-> request.type, first |-> request.first,
                           data |-> request.data, done |-> request.done, error |-> TRUE]
        BY ZenonT(40), <1>6, <2>2 DEF Complete, Answered
      <3>2. CallRequest'
        BY <1>3, <2>1, <3>1 DEF CallInv, CallRequest
      <3> QED
        BY <1>2, <3>2 DEF CallInv
    <2>3. CASE status = "ok"
      <3> DEFINE new == IF request.type = "read" THEN request.data \o SubSeq(bounce, 1, Chunk)
                                                 ELSE request.data
      <3>1. at' = "chunk" /\ request' = [request EXCEPT !.done = request.done + Chunk, !.data = new]
        BY <1>6, <2>3 DEF Complete
      <3>2. request.type = "write" => new = request.data
        OBVIOUS
      <3> HIDE DEF new
      <3>3. /\ request'.type = request.type /\ request'.first = request.first
            /\ request'.count = request.count /\ request'.data = new
        BY Zenon, <2>1, <3>1 DEF Running
      <3> QED
        BY <1>2, <2>1, <3>1, <3>2, <3>3, SameRequest DEF CallInv
    <2> QED
      BY <2>2, <2>3
  <1>7. CASE Finish
    <2>1. Running /\ at = "chunk" /\ request.done = request.count
      BY <1>7 DEF DriverInv, RequestSound, Finish
    <2>2. /\ at' = "idle"
          /\ request' = [type |-> "answered", of |-> request.type, first |-> request.first,
                         data |-> request.data, done |-> request.done, error |-> FALSE]
      BY <1>7 DEF Finish, Answered
    <2>3. ASSUME call.state = "storing"
          PROVE  disk[Block] = scratch
      <3>1. request.first = Block /\ request.count = 1 /\ request.data = <<scratch>>
        BY <2>1, <2>3 DEF CallInv, CallRequest
      <3>2. 1 \in 1 .. request.done /\ request.data[1] = scratch /\ request.first \in Nat
        BY <2>1, <3>1 DEF Running
      <3>3. request.data[1] = disk[request.first + 1 - 1]
        BY ZenonT(40), <2>1, <3>2 DEF Running
      <3> QED
        BY <3>1, <3>2, <3>3
    <2>4. CallRequest'
      BY SMTT(30), <1>1, <1>3, <2>1, <2>2, <2>3 DEF CallInv, CallRequest
    <2> QED
      BY <1>2, <2>4 DEF CallInv
  <1> QED
    BY <1>4, <1>5, <1>6, <1>7 DEF Driver

\* When the device changes the disk it is for the call, whose block becomes the
\* scratch buffer.
LEMMA WriteIs ==
    ASSUME DriverInv, CallInv, DeviceMove, request.type = "write"
    PROVE  /\ call.state = "storing" /\ call.op = "write" /\ call.moved < call.length
           /\ disk' = [disk EXCEPT ![Block] = scratch]
  <1>1. work.busy
    BY DEF DeviceMove
  <1>2. /\ at = "poll" /\ Running /\ Chunk \in Nat \ {0} /\ request.done + Chunk <= request.count
        /\ work.moved \in 0 .. header.count /\ header.count = Chunk
        /\ header.first = request.first + request.done
    BY Zenon, <1>1, AtWork
  <1>3. call.state = "storing"
    BY ZenonT(40), <1>2 DEF CallInv, CallTypes, CallRequest
  <1>4. request.first = Block /\ request.count = 1 /\ request.data = <<scratch>> /\ call.op = "write"
    BY SMTT(30), <1>2, <1>3 DEF CallInv, CallRequest
  <1>5. work.moved + 1 \in 1 .. header.count
    BY MoveIs
  <1>6. request.done = 0 /\ work.moved = 0 /\ request.first \in Nat
    BY <1>2, <1>4, <1>5 DEF Running
  <1>7. header.first + work.moved = Block /\ request.data[request.done + work.moved + 1] = scratch
    BY <1>2, <1>4, <1>6
  <1> QED
    BY <1>3, <1>4, <1>7, MoveIs DEF CallInv, CallTypes

\* Storing the block changes none of the bytes moved before, and none outside the
\* call's range.
LEMMA WriteKeepsCall ==
    ASSUME DriverInv, CallInv, DeviceMove, request.type = "write",
           UNCHANGED <<position, call, scratch, before>>
    PROVE  ScratchSound' /\ BytesSound'
  <1>1. /\ call.state = "storing" /\ call.op = "write" /\ call.moved < call.length
        /\ disk' = [disk EXCEPT ![Block] = scratch]
    BY Zenon, WriteIs
  <1>2. CallTypes /\ disk \in [0 .. Sectors - 1 -> Content] /\ scratch \in Content
    BY ZenonT(40) DEF CallInv, CallTypes, DriverInv, RingTypes
  <1>3. /\ Position \in Nat /\ Inside \in 0 .. BlockBytes - 1 /\ Block \in 0 .. Sectors - 1
        /\ Amount \in 1 .. BlockBytes /\ call.moved + Amount <= call.length
        /\ call.offset \in Nat /\ call.moved \in Nat /\ call.length \in Nat
    BY <1>1, <1>2, Place DEF CallTypes
  <1>4. disk'[Block] = scratch /\ \A s \in 0 .. Sectors - 1 : s # Block => disk'[s] = disk[s]
    BY <1>1, <1>2, <1>3
  <1>5. /\ Block' = Block /\ Inside' = Inside /\ Amount' = Amount
    BY DEF Block, Inside, Amount, Position
  <1>6. \A i \in 1 .. BlockBytes :
          scratch[i] = IF i \in Inside + 1 .. Inside + Amount
                         THEN call.data[call.moved + i - Inside] ELSE disk[Block][i]
    BY <1>1 DEF CallInv, ScratchSound
  <1>7. ScratchSound'
    <2>1. \A i \in 1 .. BlockBytes :
            scratch[i] = IF i \in Inside + 1 .. Inside + Amount
                           THEN call.data[call.moved + i - Inside] ELSE disk'[Block][i]
      BY <1>4, <1>6
    <2> QED
      BY ZenonT(40), <1>1, <1>5, <2>1 DEF ScratchSound
  <1>8. ASSUME NEW o \in 0 .. Capacity - 1, o \notin Position .. Position + Amount - 1
        PROVE  ByteAt(disk', o) = ByteAt(disk, o)
    <2>1. o \in Nat /\ o \div BlockBytes \in 0 .. Sectors - 1
      <3>1. o \in Nat /\ o \in 0 .. (Sectors * BlockBytes) - 1
        BY <1>8, DevFsAssumption, VirtioAssumption DEF Capacity
      <3> QED
        BY <3>1, BlockInRange, DevFsAssumption, VirtioAssumption
    <2>2. CASE o \div BlockBytes = Block
      <3> DEFINE i == (o % BlockBytes) + 1
      <3>1. i \in 1 .. BlockBytes /\ i \notin Inside + 1 .. Inside + Amount
        BY Zenon, <1>1, <1>2, <1>8, <2>1, <2>2, OtherBytes
      <3>2. ByteAt(disk', o) = scratch[i] /\ ByteAt(disk, o) = disk[Block][i]
        BY Zenon, <1>4, <2>2 DEF ByteAt
      <3> HIDE DEF i
      <3> QED
        BY Zenon, <1>6, <3>1, <3>2
    <2>3. CASE o \div BlockBytes # Block
      BY ZenonT(40), <1>4, <2>1, <2>3 DEF ByteAt
    <2> QED
      BY <2>2, <2>3
  <1>9. Capacity \in Nat /\ call.offset + call.length <= Capacity
    <2>1. Capacity \in Nat
      BY DevFsAssumption, VirtioAssumption DEF Capacity
    <2> QED
      BY <1>1, <1>2, <1>3, <2>1 DEF CallTypes
  <1>10. \A i \in 1 .. call.moved : call.data[i] = ByteAt(disk', call.offset + i - 1)
    <2> TAKE i \in 1 .. call.moved
    <2> DEFINE o == call.offset + i - 1
    <2>1. o \in 0 .. Capacity - 1 /\ o \notin Position .. Position + Amount - 1
      BY <1>1, <1>3, <1>9 DEF Position
    <2>2. call.data[i] = ByteAt(disk, o)
      BY Zenon, <1>1 DEF CallInv, BytesSound
    <2> HIDE DEF o
    <2>3. call.data[i] = ByteAt(disk', o)
      BY <1>8, <2>1, <2>2
    <2> QED
      BY <2>3 DEF o
  <1>11. ASSUME NEW o \in 0 .. Capacity - 1,
                o \notin call.offset .. call.offset + call.length - 1
         PROVE  ByteAt(disk', o) = ByteAt(before, o)
    <2>1. o \notin Position .. Position + Amount - 1
      BY <1>3, <1>9, <1>11 DEF Position
    <2>2. ByteAt(disk, o) = ByteAt(before, o)
      BY ZenonT(40), <1>1, <1>11 DEF CallInv, BytesSound
    <2> QED
      BY <1>8, <2>1, <2>2
  <1>12. BytesSound'
    BY <1>1, <1>10, <1>11 DEF BytesSound, ByteAt
  <1> QED
    BY <1>7, <1>12

\* The device works for the call, or leaves it alone.
LEMMA DeviceKeepsCall ==
    ASSUME DriverInv, CallInv, Device, UNCHANGED <<position, call, scratch, before>>
    PROVE  CallInv'
  <1>1. CallTypes'
    BY DEF CallInv, CallTypes
  <1>2. CASE DeviceTake \/ \E s \in {"ok", "error"} : DeviceAnswer(s)
    <2>1. UNCHANGED <<disk, at, request>>
      BY ZenonT(40), <1>2 DEF DeviceTake, DeviceAnswer, driverVars
    <2>2. CallRequest'
      BY <2>1 DEF CallInv, CallRequest, Block, Position
    <2> QED
      BY Zenon, <2>1, <2>2, SameBytes DEF CallInv
  <1>3. CASE DeviceMove
    <2>1. work.busy /\ UNCHANGED <<at, request>>
      BY <1>3 DEF DeviceMove
    <2>2. at = "poll" /\ Running
      BY <2>1, AtWork
    <2>3. CallRequest'
      BY <2>1, <2>2, SameRequest
    <2>4. CASE request.type = "read"
      <3>1. disk' = disk
        BY <1>3, <2>4, MoveIs
      <3> QED
        BY Zenon, <2>3, <3>1, SameBytes DEF CallInv
    <2>5. CASE request.type = "write"
      BY <1>1, <1>3, <2>3, <2>5, WriteKeepsCall DEF CallInv
    <2> QED
      BY <2>2, <2>4, <2>5 DEF Running
  <1> QED
    BY ZenonT(40), <1>2, <1>3 DEF Device

-------------------------------------------------------------------------------
(* read(), write() and seek(). *)

\* A call begins with nothing moved, on the disk as it is.
LEMMA CallKeeps ==
    ASSUME DriverInv, CallInv, NEW op \in {"read", "write"}, NEW data \in Seq(Byte), Call(op, data)
    PROVE  CallInv' /\ DriverInv'
  <1>1. at = "idle" /\ DriverInv'
    BY Zenon, ForgetKeeps DEF Call
  <1>2. /\ call' = [state |-> "loop", op |-> op, offset |-> position, length |-> Cut(Len(data)),
                    data |-> data, moved |-> 0, error |-> op = "write" /\ position >= Capacity]
        /\ before' = disk /\ disk' = disk /\ at' = "idle" /\ UNCHANGED <<position, scratch>>
    BY ZenonT(40), <1>1 DEF Call, Forget, deviceVars
  <1>3. position \in Nat /\ scratch \in Content /\ disk \in [0 .. Sectors - 1 -> Content]
    BY DEF CallInv, CallTypes, DriverInv, RingTypes
  <1>4. Capacity \in Nat
    BY DevFsAssumption, VirtioAssumption DEF Capacity
  <1>5. /\ Cut(Len(data)) \in Nat /\ Cut(Len(data)) <= Len(data)
        /\ Cut(Len(data)) > 0 => position + Cut(Len(data)) <= Capacity
    BY <1>3, <1>4, LenProperties DEF Cut, Min2
  <1>6. CallTypes'
    BY <1>2, <1>3, <1>5 DEF CallTypes, Capacity
  <1> DEFINE c == call'
  <1>7. c.state = "loop" /\ c.moved = 0 /\ c = call'
    BY Zenon, <1>2
  <1> HIDE DEF c
  <1>8. CallRequest' /\ ScratchSound'
    BY Zenon, <1>2, <1>7 DEF CallRequest, ScratchSound
  <1>9. BytesSound'
    <2>1. \A i \in 1 .. c.moved : FALSE
      BY <1>7
    <2>2. disk' = before'
      BY <1>2
    <2>3. \A o : ByteAt(disk, o)' = ByteAt(before, o)'
      BY <2>2 DEF ByteAt
    <2> QED
      BY <1>7, <2>1, <2>2, <2>3 DEF BytesSound
  <1> QED
    BY Zenon, <1>1, <1>6, <1>8, <1>9 DEF CallInv

\* Whole blocks are read past the scratch buffer and change nothing.
LEMMA BlockReadKeeps ==
    ASSUME DriverInv, CallInv, ~ broken, NEW first \in Nat, NEW count \in Nat,
           BlockRead(first, count)
    PROVE  CallInv' /\ DriverInv'
  <1>1. Start("read", first, count, <<>>)
    BY DEF BlockRead
  <1>2. DriverInv' /\ disk' = disk /\ (at' # "idle" => request'.type = "read")
    BY Zenon, <1>1, ReadStarts
  <1>3. /\ call' = [state |-> "none"] /\ before' = disk /\ disk' = disk
        /\ UNCHANGED <<position, scratch>>
        /\ at' # "idle" => request'.type = "read"
    BY Zenon, <1>2 DEF BlockRead, NoCall
  <1>4. CallTypes'
    BY ZenonT(40), <1>3 DEF CallInv, CallTypes, DriverInv, RingTypes
  <1>5. CallRequest' /\ ScratchSound' /\ BytesSound'
    BY <1>3 DEF CallRequest, ScratchSound, BytesSound
  <1> QED
    BY <1>2, <1>4, <1>5 DEF CallInv

\* seek() moves the position only.
LEMMA seekKeeps ==
    ASSUME DriverInv, CallInv, NEW o \in Nat, seek(o)
    PROVE  CallInv' /\ DriverInv'
  <1>1. DriverInv'
    BY ForgetKeeps DEF seek
  <1>2. /\ call' = [state |-> "none"] /\ before' = disk /\ disk' = disk /\ at' = "idle"
        /\ position' = o /\ scratch' = scratch
    BY Zenon DEF seek, NoCall, Forget, deviceVars
  <1>3. CallTypes'
    BY ZenonT(40), <1>2 DEF CallInv, CallTypes, DriverInv, RingTypes
  <1>4. CallRequest' /\ ScratchSound' /\ BytesSound'
    BY <1>2 DEF CallRequest, ScratchSound, BytesSound
  <1> QED
    BY <1>1, <1>3, <1>4 DEF CallInv

\* A call of which only the state changes, on the same disk.
LEMMA StateOnly ==
    ASSUME CallInv, call.state # "none",
           NEW st \in {"loop", "fetching", "copy", "storing", "returned"},
           call' = [call EXCEPT !.state = st],
           st \in {"fetching", "copy", "storing"} => call.moved < call.length,
           scratch' \in Content, position' \in Nat, UNCHANGED <<before, disk>>
    PROVE  /\ CallTypes' /\ BytesSound'
           /\ Block' = Block /\ Inside' = Inside /\ Amount' = Amount /\ NeedsBlock' = NeedsBlock
           /\ call'.state = st /\ call'.op = call.op /\ call'.data = call.data
           /\ call'.moved = call.moved
  <1>1. call' = [state |-> st, op |-> call.op, offset |-> call.offset, length |-> call.length,
                 data |-> call.data, moved |-> call.moved, error |-> call.error]
    BY DEF CallInv, CallTypes
  <1>2. CallTypes'
    BY Zenon, <1>1 DEF CallInv, CallTypes, Capacity
  <1>3. BytesSound'
    BY <1>1 DEF CallInv, BytesSound, ByteAt, Capacity
  <1>4. /\ Block' = Block /\ Inside' = Inside /\ Amount' = Amount
        /\ NeedsBlock' = NeedsBlock
    BY <1>1 DEF Block, Inside, Amount, Position, NeedsBlock
  <1> QED
    BY <1>1, <1>2, <1>3, <1>4

\* The block the call is at is asked for.
LEMMA LoopFetchKeeps ==
    ASSUME DriverInv, CallInv, ~ broken, LoopFetch
    PROVE  CallInv' /\ DriverInv'
  <1>1. call.state = "loop" /\ call.moved < call.length /\ at = "idle"
    BY DEF LoopFetch, More, block_read, Start
  <1>2. Block \in 0 .. Sectors - 1 /\ Block \in Nat
    BY <1>1, Place DEF CallInv
  <1>3. Start("read", Block, 1, <<>>)
    BY DEF LoopFetch, block_read
  <1>4. /\ DriverInv' /\ disk' = disk
        /\ \/ at' = "idle" /\ request'.type = "answered" /\ request'.of = "read"
              /\ request'.first = Block /\ request'.error = TRUE
           \/ at' = "chunk" /\ request'.type = "read" /\ request'.first = Block
              /\ request'.count = 1
    BY Zenon, <1>2, <1>3, ReadStarts
  <1>5. /\ call' = [call EXCEPT !.state = "fetching"]
        /\ UNCHANGED <<position, scratch, before, disk>>
    BY <1>4 DEF LoopFetch
  <1>6. scratch' \in Content /\ position' \in Nat
    BY <1>5 DEF CallInv, CallTypes
  <1>7. CallTypes' /\ BytesSound' /\ Block' = Block /\ call'.state = "fetching"
    BY ZenonT(40), <1>1, <1>5, <1>6, StateOnly
  <1>8. CallRequest' /\ ScratchSound'
    BY <1>4, <1>7 DEF CallRequest, ScratchSound
  <1> QED
    BY <1>4, <1>7, <1>8 DEF CallInv

\* A write of a whole block needs none.
LEMMA LoopSkipFetchKeeps ==
    ASSUME DriverInv, CallInv, LoopSkipFetch
    PROVE  CallInv' /\ DriverInv'
  <1>1. /\ call.state = "loop" /\ call.moved < call.length /\ ~ NeedsBlock
        /\ call' = [call EXCEPT !.state = "copy"]
        /\ UNCHANGED <<position, scratch, before, disk, at, request>>
    BY DEF LoopSkipFetch, More, virtioVars, driverVars, deviceVars
  <1>2. DriverInv'
    BY StillKeeps DEF LoopSkipFetch
  <1>3. scratch' \in Content /\ position' \in Nat
    BY <1>1 DEF CallInv, CallTypes
  <1>4. CallTypes' /\ BytesSound' /\ NeedsBlock' = NeedsBlock /\ call'.state = "copy"
    BY <1>1, <1>3, StateOnly
  <1>5. CallRequest' /\ ScratchSound'
    BY <1>1, <1>4 DEF CallInv, CallRequest, ScratchSound
  <1> QED
    BY <1>2, <1>4, <1>5 DEF CallInv

\* A call that returns what it moved.
LEMMA ReturnKeeps ==
    ASSUME CallInv, call.state # "none", NEW error \in BOOLEAN, Return(call.moved, error),
           at' = "idle", UNCHANGED <<scratch, before, disk>>
    PROVE  CallInv'
  <1>1. call' = [state |-> "returned", op |-> call.op, offset |-> call.offset,
                 length |-> call.length, data |-> call.data, moved |-> call.moved,
                 error |-> error]
    BY ZenonT(40) DEF CallInv, CallTypes, Return
  <1>2. position \in Nat /\ call.moved \in Nat
    BY DEF CallInv, CallTypes
  <1>3. position' \in Nat
    BY <1>2 DEF Return
  <1>4. CallTypes'
    BY Zenon, <1>1, <1>3 DEF CallInv, CallTypes, Capacity
  <1>5. CallRequest' /\ ScratchSound'
    BY ZenonT(40), <1>1 DEF CallRequest, ScratchSound
  <1>6. BytesSound'
    BY <1>1 DEF CallInv, BytesSound, ByteAt, Capacity
  <1> QED
    BY <1>4, <1>5, <1>6 DEF CallInv

\* The scratch buffer becomes the block, or the call fails.
LEMMA FetchedKeeps ==
    ASSUME DriverInv, CallInv, Fetched
    PROVE  CallInv' /\ DriverInv'
  <1>1. call.state = "fetching" /\ at = "idle" /\ at' = "idle" /\ disk' = disk /\ before' = before
    BY DEF Fetched, Forget, deviceVars
  <1>2. DriverInv'
    BY ZenonT(40), <1>1, ForgetKeeps DEF Fetched
  <1>3. /\ request.type = "answered" /\ request.of = "read" /\ request.first = Block
        /\ request.error \/ request.done = 1
    BY <1>1 DEF CallInv, CallRequest
  <1>4. Told
    BY <1>1 DEF DriverInv, RequestSound
  <1>5. CASE request.error
    <2>1. Return(call.moved, TRUE) /\ UNCHANGED scratch
      BY Zenon, <1>5 DEF Fetched
    <2> QED
      BY Zenon, <1>1, <1>2, <2>1, ReturnKeeps
  <1>6. CASE ~ request.error
    <2>1. scratch' = request.data[1] /\ call' = [call EXCEPT !.state = "copy"] /\ UNCHANGED position
      BY ZenonT(40), <1>6 DEF Fetched
    <2>2. call.moved < call.length /\ position \in Nat
      BY <1>1 DEF CallInv, CallTypes
    <2>3. Block \in 0 .. Sectors - 1
      BY <1>1, <2>2, Place DEF CallInv
    <2>4. 1 \in 1 .. request.done /\ Block + 1 - 1 = Block
      BY <1>3, <1>6, <2>3
    <2>5. request.data[1] = disk[Block]
      BY Zenon, <1>3, <1>4, <2>4 DEF Told
    <2>6. disk[Block] \in Content
      BY <2>3 DEF DriverInv, RingTypes
    <2>7. CallTypes' /\ BytesSound' /\ Block' = Block /\ call'.state = "copy"
      BY <1>1, <2>1, <2>2, <2>5, <2>6, StateOnly
    <2>8. CallRequest' /\ ScratchSound'
      BY <1>1, <2>1, <2>5, <2>7 DEF CallRequest, ScratchSound
    <2> QED
      BY <1>2, <2>7, <2>8 DEF CallInv
  <1> QED
    BY <1>5, <1>6

\* A call that moved the bytes of its block goes on behind them.
LEMMA MovedOn ==
    ASSUME CallInv, call.state # "none", call.moved < call.length,
           NEW data \in Seq(Byte), Len(data) = Len(call.data),
           call' = [call EXCEPT !.state = "loop", !.moved = call.moved + Amount, !.data = data],
           \A i \in 1 .. call.moved : data[i] = call.data[i],
           \A i \in call.moved + 1 .. call.moved + Amount :
               data[i] = disk[Block][Inside + i - call.moved],
           at' = "idle", UNCHANGED <<position, scratch, before, disk>>
    PROVE  CallInv'
  <1>1. Amount \in 1 .. BlockBytes /\ call.moved + Amount <= call.length
    BY Place DEF CallInv
  <1>2. call' = [state |-> "loop", op |-> call.op, offset |-> call.offset,
                 length |-> call.length, data |-> data, moved |-> call.moved + Amount,
                 error |-> call.error]
    BY Zenon DEF CallInv, CallTypes
  <1>3. call.moved \in Nat /\ call.length \in Nat /\ Amount \in Nat
    BY <1>1, DevFsAssumption DEF CallInv, CallTypes
  <1>4. CallTypes'
    <2>1. call.moved + Amount \in 0 .. call.length /\ Capacity' = Capacity
      BY <1>1, <1>3 DEF Capacity
    <2> QED
      BY Zenon, <1>2, <2>1 DEF CallInv, CallTypes
  <1>5. CallRequest' /\ ScratchSound'
    BY <1>2 DEF CallRequest, ScratchSound
  <1>6. \A i \in 1 .. call.moved + Amount : data[i] = ByteAt(disk, call.offset + i - 1)
    <2> TAKE i \in 1 .. call.moved + Amount
    <2>1. CASE i \in 1 .. call.moved
      BY <2>1 DEF CallInv, BytesSound
    <2>2. CASE i \in call.moved + 1 .. call.moved + Amount
      BY ZenonT(40), <2>2, NextBytes DEF CallInv
    <2> QED
      BY <1>3, <2>1, <2>2
  <1>7. BytesSound'
    BY <1>2, <1>6 DEF CallInv, BytesSound, ByteAt, Capacity
  <1> QED
    BY <1>4, <1>5, <1>7 DEF CallInv

\* What is copied out of the scratch buffer are the bytes of the device.
LEMMA CopyOutKeeps ==
    ASSUME DriverInv, CallInv, CopyOut
    PROVE  CallInv' /\ DriverInv'
  <1> DEFINE data == [i \in DOMAIN call.data |->
                        IF i \in call.moved + 1 .. call.moved + Amount
                          THEN scratch[Inside + i - call.moved] ELSE call.data[i]]
  <1>1. /\ call.state = "copy" /\ call.op = "read" /\ call.moved < call.length
        /\ call' = [call EXCEPT !.state = "loop", !.moved = call.moved + Amount, !.data = data]
    BY DEF CopyOut, CallInv, CallTypes
  <1>2. at' = "idle" /\ UNCHANGED <<position, scratch, before, disk>>
    BY <1>1 DEF CopyOut, CallInv, CallRequest, virtioVars, driverVars, deviceVars
  <1>3. DriverInv'
    BY StillKeeps DEF CopyOut
  <1>4. scratch = disk[Block] /\ scratch \in [1 .. BlockBytes -> Byte]
    BY <1>1, DevFsAssumption DEF CallInv, ScratchSound, NeedsBlock, CallTypes
  <1>5. CallTypes /\ Amount \in Nat /\ call.moved + Amount <= call.length
    BY <1>1, Place, DevFsAssumption DEF CallInv
  <1>6. /\ call.data \in Seq(Byte) /\ call.length <= Len(call.data) /\ Len(call.data) \in Nat
        /\ DOMAIN call.data = 1 .. Len(call.data)
        /\ call.moved \in Nat /\ call.length \in Nat
    BY <1>1, <1>5, LenProperties DEF CallTypes
  <1>7. \A i \in 1 .. Len(call.data) : data[i] \in Byte
    <2> TAKE i \in 1 .. Len(call.data)
    <2>1. CASE i \in call.moved + 1 .. call.moved + Amount
      BY Zenon, <1>1, <1>4, <1>5, <1>6, <2>1, NextBytes
    <2>2. CASE i \notin call.moved + 1 .. call.moved + Amount
      BY Zenon, <1>6, <2>2, ElementOfSeq
    <2> QED
      BY ZenonT(40), <2>1, <2>2
  <1>8. data \in Seq(Byte) /\ Len(data) = Len(call.data)
    <2>1. data \in [1 .. Len(call.data) -> Byte]
      BY ZenonT(40), <1>6, <1>7
    <2> HIDE DEF data
    <2> QED
      BY Zenon, <1>6, <2>1, SeqOfFunction
  <1>9. \A i \in 1 .. call.moved : data[i] = call.data[i]
    BY SMTT(30), <1>5, <1>6
  <1>10. \A i \in call.moved + 1 .. call.moved + Amount :
           data[i] = disk[Block][Inside + i - call.moved]
    BY SMTT(30), <1>4, <1>5, <1>6
  <1> HIDE DEF data
  <1>11. CallInv'
    BY Zenon, <1>1, <1>2, <1>8, <1>9, <1>10, MovedOn
  <1> QED
    BY <1>3, <1>11

\* The block with the call's bytes in it is handed to the driver.
LEMMA CopyInKeeps ==
    ASSUME DriverInv, CallInv, ~ broken, CopyIn
    PROVE  CallInv' /\ DriverInv'
  <1>1. /\ call.state = "copy" /\ call.op = "write" /\ call.moved < call.length
        /\ call' = [call EXCEPT !.state = "storing"] /\ UNCHANGED <<position, before>>
        /\ Start("write", Block, 1, <<scratch'>>)
    BY DEF CopyIn, CallInv, CallTypes, block_write
  <1>2. /\ CallTypes /\ Inside \in 0 .. BlockBytes - 1 /\ Block \in 0 .. Sectors - 1
        /\ Amount \in 1 .. BlockBytes /\ Inside + Amount <= BlockBytes
        /\ call.moved + Amount <= call.length /\ BlockBytes \in Nat \ {0}
    BY <1>1, Place, DevFsAssumption DEF CallInv
  <1>3. /\ call.data \in Seq(Byte) /\ call.length <= Len(call.data) /\ Len(call.data) \in Nat
        /\ call.moved \in Nat /\ call.length \in Nat
        /\ scratch \in [1 .. BlockBytes -> Byte] /\ position \in Nat
    BY <1>1, <1>2, LenProperties, DevFsAssumption DEF CallTypes
  <1>4. scratch' = [i \in 1 .. BlockBytes |->
                      IF i \in Inside + 1 .. Inside + Amount
                        THEN call.data[call.moved + i - Inside] ELSE scratch[i]]
    BY DEF CopyIn
  <1>5. \A i \in 1 .. BlockBytes :
          scratch'[i] = IF i \in Inside + 1 .. Inside + Amount
                          THEN call.data[call.moved + i - Inside] ELSE scratch[i]
    BY <1>4
  <1>6. \A i \in 1 .. BlockBytes : scratch'[i] \in Byte
    <2> TAKE i \in 1 .. BlockBytes
    <2>1. CASE i \in Inside + 1 .. Inside + Amount
      <3>1. call.moved + i - Inside \in 1 .. Len(call.data)
        BY SMTT(30), <1>2, <1>3, <2>1
      <3> QED
        BY <1>3, <1>5, <2>1, <3>1, ElementOfSeq
    <2>2. CASE i \notin Inside + 1 .. Inside + Amount
      BY <1>3, <1>5, <2>2
    <2> QED
      BY <2>1, <2>2
  <1>7. scratch' \in Content
    BY <1>4, <1>6, DevFsAssumption
  <1>8. /\ DriverInv' /\ disk' = disk
        /\ \/ at' = "idle" /\ request'.type = "answered" /\ request'.of = "write"
              /\ request'.error = TRUE
           \/ at' = "chunk" /\ request'.type = "write" /\ request'.first = Block
              /\ request'.count = 1 /\ request'.data = <<scratch'>>
    <2>1. Block \in Nat
      BY <1>2
    <2> QED
      BY Zenon, <1>1, <1>7, <2>1, WriteStarts
  <1>9. /\ CallTypes' /\ BytesSound' /\ Block' = Block /\ Inside' = Inside /\ Amount' = Amount
        /\ call'.state = "storing" /\ call'.op = "write" /\ call'.data = call.data
        /\ call'.moved = call.moved
    BY ZenonT(40), <1>1, <1>3, <1>7, <1>8, StateOnly
  <1>10. \A i \in 1 .. BlockBytes :
           i \notin Inside + 1 .. Inside + Amount => scratch[i] = disk[Block][i]
    <2>1. CASE NeedsBlock
      BY ZenonT(40), <1>1, <2>1 DEF CallInv, ScratchSound
    <2>2. CASE ~ NeedsBlock
      <3>1. Amount = BlockBytes /\ Inside = 0
        BY <1>1, <1>2, <2>2 DEF NeedsBlock
      <3> QED
        BY <1>2, <3>1
    <2> QED
      BY <2>1, <2>2
  <1>11. ScratchSound'
    <2>1. \A i \in 1 .. BlockBytes :
            scratch'[i] = IF i \in Inside + 1 .. Inside + Amount
                            THEN call.data[call.moved + i - Inside] ELSE disk[Block][i]
      BY ZenonT(40), <1>5, <1>10
    <2> QED
      BY Zenon, <1>8, <1>9, <2>1 DEF ScratchSound
  <1>12. CallRequest'
    BY <1>8, <1>9 DEF CallRequest
  <1> QED
    BY <1>8, <1>9, <1>11, <1>12 DEF CallInv

\* The block is on the disk, so the call's bytes are; or the call fails.
LEMMA StoredKeeps ==
    ASSUME DriverInv, CallInv, Stored
    PROVE  CallInv' /\ DriverInv'
  <1>1. /\ call.state = "storing" /\ at = "idle" /\ at' = "idle" /\ disk' = disk
        /\ UNCHANGED <<before, scratch>>
    BY DEF Stored, Forget, deviceVars
  <1>2. DriverInv'
    BY ZenonT(40), <1>1, ForgetKeeps DEF Stored
  <1>3. request.error \/ disk[Block] = scratch
    BY <1>1 DEF CallInv, CallRequest
  <1>4. CASE request.error
    <2>1. Return(call.moved, TRUE)
      BY Zenon, <1>4 DEF Stored
    <2> QED
      BY Zenon, <1>1, <1>2, <2>1, ReturnKeeps
  <1>5. CASE ~ request.error
    <2>1. CallTypes /\ call.moved < call.length
      BY ZenonT(40), <1>1 DEF CallInv, CallTypes
    <2> DEFINE data == call.data
    <2>2. data \in Seq(Byte) /\ call.moved \in Nat
      BY <1>1, <2>1 DEF CallTypes
    <2>3. /\ call' = [call EXCEPT !.state = "loop", !.moved = call.moved + Amount, !.data = data]
          /\ UNCHANGED position
      BY Zenon, <1>1, <1>5, <2>1 DEF Stored, CallTypes
    <2>4. \A i \in call.moved + 1 .. call.moved + Amount :
            data[i] = disk[Block][Inside + i - call.moved]
      <3> TAKE i \in call.moved + 1 .. call.moved + Amount
      <3> DEFINE k == Inside + i - call.moved
      <3>1. k \in Inside + 1 .. Inside + Amount /\ k \in 1 .. BlockBytes
        BY Zenon, <1>1, <2>1, NextBytes
      <3>2. scratch[k] = call.data[call.moved + k - Inside]
        BY Zenon, <1>1, <3>1 DEF CallInv, ScratchSound
      <3>3. Inside \in Int /\ Amount \in Int
        BY <1>1, <2>1, Place, DevFsAssumption
      <3>4. call.moved + k - Inside = i
        BY <2>2, <3>3
      <3>5. disk[Block] = scratch
        BY Zenon, <1>3, <1>5
      <3> HIDE DEF k
      <3>6. disk[Block][k] = data[i]
        BY <3>2, <3>4, <3>5
      <3> QED
        BY <3>6 DEF k
    <2> HIDE DEF data
    <2>5. Len(data) = Len(call.data) /\ \A i \in 1 .. call.moved : data[i] = call.data[i]
      BY Zenon DEF data
    <2>6. CallInv'
      BY Zenon, <1>1, <2>1, <2>2, <2>3, <2>4, <2>5, MovedOn
    <2> QED
      BY <1>2, <2>6
  <1> QED
    BY <1>4, <1>5

\* The loop is done.
LEMMA LoopEndKeeps ==
    ASSUME DriverInv, CallInv, LoopEnd
    PROVE  CallInv' /\ DriverInv'
  <1>1. DriverInv'
    BY ZenonT(40), StillKeeps DEF LoopEnd
  <1>2. /\ call.state = "loop" /\ Return(call.moved, call.error) /\ at' = "idle"
        /\ UNCHANGED <<scratch, before, disk>> /\ call.error \in BOOLEAN
    BY DEF LoopEnd, CallInv, CallTypes, CallRequest, virtioVars, driverVars, deviceVars
  <1>3. CallInv'
    BY <1>2, ReturnKeeps
  <1> QED
    BY <1>1, <1>3

-------------------------------------------------------------------------------
(* The invariant and what follows from it. *)

\* A driver that has just been initialised, and no call.
LEMMA InitIInv == Init => IInv
  <1> SUFFICES ASSUME Init PROVE IInv
    BY Zenon
  <1>1. /\ disk \in [0 .. Sectors - 1 -> Content] /\ before = disk
        /\ available = 0 /\ used = 0 /\ last_used = 0 /\ seen = 0 /\ bounce = <<>>
        /\ broken = FALSE /\ work = Idle /\ at = "idle" /\ request.type = "none"
        /\ position = 0 /\ call.state = "none"
    BY ZenonT(40) DEF Init, InitVirtio, NoRequest, NoCall
  <1>2. DriverInv
    BY <1>1, VirtioAssumption, EmptySeq DEF DriverInv, RingTypes, Ring, RequestSound, Told
  <1>3. scratch \in Content
    <2>1. PICK c \in Content : TRUE
      BY VirtioAssumption
    <2>2. c[1] \in Byte
      BY <2>1, DevFsAssumption
    <2>3. (CHOOSE b \in Byte : TRUE) \in Byte
      BY Zenon, <2>2
    <2> QED
      BY <2>3, DevFsAssumption DEF Init
  <1>4. CallInv
    BY ZenonT(40), <1>1, <1>3 DEF CallInv, CallTypes, CallRequest, ScratchSound, BytesSound
  <1> QED
    BY Zenon, <1>1, <1>2, <1>4 DEF IInv

\* Every step of the driver, the device, the partition scan and devfs keeps it.
LEMMA NextIInv == IInv /\ [Next]_vars => IInv'
  <1> SUFFICES ASSUME IInv, [Next]_vars PROVE IInv'
    OBVIOUS
  <1>1. broken' \in BOOLEAN /\ (broken => broken')
    BY Zenon DEF IInv, Next, Users, Code, Disk, Loop, Driver, Device, Call, BlockRead, seek, LoopFetch,
           LoopSkipFetch, Fetched, CopyOut, CopyIn, Stored, LoopEnd, block_read, block_write,
           Start, Forget, Fill, Publish, PollLimit, Complete, Finish, DeviceTake, DeviceMove,
           DeviceAnswer, vars, virtioVars, driverVars
  <1> SUFFICES ASSUME ~ broken' PROVE DriverInv' /\ CallInv'
    BY <1>1 DEF IInv
  <1>2. ~ broken /\ DriverInv /\ CallInv
    BY <1>1 DEF IInv
  <1>3. CASE Users
    <2>1. ASSUME NEW n \in 0 .. MaxLength, Call("read", [i \in 1 .. n |-> CHOOSE b \in Byte : TRUE])
          PROVE  DriverInv' /\ CallInv'
      <3> DEFINE data == [i \in 1 .. n |-> CHOOSE b \in Byte : TRUE]
      <3>1. (CHOOSE b \in Byte : TRUE) \in Byte
        <4>1. PICK c \in Content : TRUE
          BY VirtioAssumption
        <4>2. c[1] \in Byte
          BY <4>1, DevFsAssumption
        <4> QED
          BY <4>2
      <3>2. n \in Nat /\ data \in [1 .. n -> Byte] /\ Call("read", data)
        BY <2>1, <3>1, DevFsAssumption
      <3> HIDE DEF data
      <3>3. data \in Seq(Byte)
        BY <3>2, SeqOfFunction
      <3> QED
        BY <1>2, <3>2, <3>3, CallKeeps
    <2>2. ASSUME NEW data \in Payloads, Call("write", data)
          PROVE  DriverInv' /\ CallInv'
      BY Zenon, <1>2, <2>2, CallKeeps, DevFsAssumption
    <2>3. ASSUME NEW first \in 0 .. Sectors, NEW count \in 0 .. Sectors, BlockRead(first, count)
          PROVE  DriverInv' /\ CallInv'
      <3>1. first \in Nat /\ count \in Nat
        OBVIOUS
      <3> QED
        BY <1>2, <2>3, <3>1, BlockReadKeeps
    <2>4. ASSUME NEW o \in 0 .. Capacity, seek(o)
          PROVE  DriverInv' /\ CallInv'
      <3>1. o \in Nat
        OBVIOUS
      <3> QED
        BY <1>2, <2>4, <3>1, seekKeeps
    <2> QED
      BY Zenon, <1>3, <2>1, <2>2, <2>3, <2>4 DEF Users
  <1>4. CASE Loop
    BY Zenon, <1>2, <1>4, LoopFetchKeeps, LoopSkipFetchKeeps, FetchedKeeps, CopyOutKeeps, CopyInKeeps,
       StoredKeeps, LoopEndKeeps DEF Loop
  <1>5. CASE Driver /\ UNCHANGED <<position, call, scratch, before>>
    <2>1. CallInv'
      BY <1>2, <1>5, DriverKeepsCall
    <2>2. CASE PollLimit
      BY <2>2 DEF PollLimit
    <2> QED
      BY <1>2, <1>5, <2>1, <2>2, FillKeeps, PublishKeeps, CompleteKeeps, FinishKeeps DEF Driver
  <1>6. CASE Disk
    <2>1. Device /\ UNCHANGED <<position, call, scratch, before>>
      BY <1>6 DEF Disk
    <2>2. CallInv'
      BY Zenon, <1>2, <2>1, DeviceKeepsCall
    <2> QED
      BY <1>2, <2>1, <2>2, DeviceTakeKeeps, DeviceMoveKeeps, DeviceAnswerKeeps DEF Device
  <1>7. CASE UNCHANGED vars
    <2>1. UNCHANGED <<virtioVars, position, call, scratch, before, disk, at, request>>
      BY ZenonT(40), <1>7 DEF vars, virtioVars, driverVars, deviceVars
    <2>2. CallRequest'
      BY <1>2, <2>1 DEF CallInv, CallRequest, Block, Position
    <2> QED
      BY Zenon, <1>2, <2>1, <2>2, StillKeeps, SameBytes DEF CallInv
  <1> QED
    BY <1>3, <1>4, <1>5, <1>6, <1>7 DEF Next, Code

\* The ring, the request and the call fit together in every reachable state.
THEOREM IInvHolds == Spec => []IInv
  BY InitIInv, NextIInv, PTL DEF Spec

\* What a read() or write() of a device file says it moved is what the device holds,
\* and so is what a read of whole blocks says it read: for every block size, ring
\* size and bounce buffer (devfs.cpp:66-121, block.cpp:214-241).
THEOREM TransfersTrue == Spec => []TransferredIsTrue
  <1>1. IInv => TransferredIsTrue
    BY ZenonT(40) DEF IInv, DriverInv, RingTypes, RequestSound, Running, Told, CallInv, BytesSound, TransferredIsTrue
  <1> QED
    BY <1>1, IInvHolds, PTL

\* A write() changes no byte outside its range, also when it fails half way
\* (devfs.cpp:105-119).
THEOREM OutsideKept == Spec => []OnlyItsBytes
  <1>1. IInv => OnlyItsBytes
    BY DEF IInv, CallInv, CallTypes, BytesSound, OnlyItsBytes
  <1> QED
    BY <1>1, IInvHolds, PTL
==============================================================================
