-------------------------- MODULE DeviceMountsProof --------------------------
(***************************************************************************)
(* What device_mount.cpp promises, for every set of machines, number of    *)
(* slots and table of mounts: the mount table and the slots agree, one     *)
(* mount at most writes to a device, and unmount_device() tells the truth. *)
(* And what a disk's arrival, its leaving and the mounting of the root     *)
(* keep of its partitions: the devices registered for them are the slots   *)
(* in use, and each shows blocks the disk's table gives it.                *)
(***************************************************************************)
EXTENDS DeviceMounts, PartitionsProof

-----------------------------------------------------------------------------
(* The inductive invariant. *)

\* Types, as equations the provers can rewrite with.
VolumeShape(v) ==
    /\ v = [format |-> v.format, fails |-> v.fails, dirty |-> v.dirty, nodes |-> v.nodes]
    /\ v.format \in {"none", "ext4", "exfat"} /\ v.fails \in BOOLEAN /\ v.dirty \in BOOLEAN

MediaShape(m) ==
    /\ m = [name \in DOMAIN m |-> m[name]]
    /\ \A name \in DOMAIN m : VolumeShape(m[name])

SlotShape(r) ==
    /\ r = [used |-> r.used, path |-> r.path, device |-> r.device, ready |-> r.ready,
            pending |-> r.pending]
    /\ r.used \in BOOLEAN /\ r.ready \in BOOLEAN

SlotsShape(sl) == sl = [s \in Slots |-> sl[s]] /\ \A s \in Slots : SlotShape(sl[s])

VolumesShape(vs) ==
    /\ vs = [s \in Slots |-> vs[s]]
    /\ \A s \in Slots : vs[s] = [writable |-> vs[s].writable, nodes |-> vs[s].nodes]
                        /\ vs[s].writable \in BOOLEAN

Shapes == MediaShape(media) /\ SlotsShape(slots) /\ VolumesShape(volumes)

\* A volume that a mount may write is an exFAT one marked in use, and nothing but
\* unmounting clears the mark, on a device that does not fail.
Marked ==
    \A s \in Slots : slots[s].used =>
        /\ slots[s].device \in DOMAIN media
        /\ volumes[s].writable => media[slots[s].device].format = "exfat"
        /\ ~ media[slots[s].device].fails =>
              /\ "clean" \notin slots[s].pending
              /\ volumes[s].writable => media[slots[s].device].dirty

\* An entry of the mount table.
MountRecords == [path : Paths \cup FewPaths \cup {<<>>, <<"dev">>}, fs : FileSystems]

\* No file system is mounted twice, and none before the root.
Mounted ==
    /\ mounts \in Seq(MountRecords)
    /\ \A i, j \in DOMAIN mounts : mounts[i].fs = mounts[j].fs => i = j
    /\ up \in BOOLEAN
    /\ ~ up => mounts = <<>>

\* Inductive, with the types it needs.
IInv == Shapes /\ Marked /\ OneWriter /\ Mounted /\ MountsAgree

-----------------------------------------------------------------------------
(* Sequences, as the tables of mounts and of devices are. *)

\* A sequence is a table of its elements.
LEMMA SeqIs ==
    ASSUME NEW S, NEW q \in Seq(S)
    PROVE  Len(q) \in Nat /\ DOMAIN q = 1 .. Len(q) /\ \A k \in 1 .. Len(q) : q[k] \in S
  OBVIOUS

\* One entry more.
LEMMA SeqAppend ==
    ASSUME NEW S, NEW q \in Seq(S), NEW e \in S
    PROVE  /\ Append(q, e) \in Seq(S) /\ Len(Append(q, e)) = Len(q) + 1
           /\ DOMAIN Append(q, e) = 1 .. Len(q) + 1 /\ Append(q, e)[Len(q) + 1] = e
           /\ \A k \in 1 .. Len(q) : Append(q, e)[k] = q[k]
  OBVIOUS

\* One entry written.
LEMMA SeqSet ==
    ASSUME NEW S, NEW q \in Seq(S), NEW i \in DOMAIN q, NEW v \in S
    PROVE  /\ [q EXCEPT ![i] = v] \in Seq(S) /\ Len([q EXCEPT ![i] = v]) = Len(q)
           /\ \A j \in 1 .. Len(q) : [q EXCEPT ![i] = v][j] = IF j = i THEN v ELSE q[j]
  OBVIOUS

\* The last entry dropped.
LEMMA SeqFront ==
    ASSUME NEW S, NEW q \in Seq(S), NEW l \in Nat, l + 1 = Len(q)
    PROVE  /\ SubSeq(q, 1, l) \in Seq(S) /\ Len(SubSeq(q, 1, l)) = l
           /\ \A k \in 1 .. l : SubSeq(q, 1, l)[k] = q[k]
  OBVIOUS

-----------------------------------------------------------------------------
(* The calls of the VFS change trees only. *)

\* Nodes may change; which volumes can be written may not.
SameWritable(vs, ws) ==
    VolumesShape(ws) /\ \A s \in Slots : ws[s].writable = vs[s].writable

\* Writing a volume's tree leaves whether it can be written.
LEMMA NodesOnly ==
    ASSUME VolumesShape(volumes), NEW fs \in Slots, NEW x,
           volumes' = [volumes EXCEPT ![fs].nodes = x]
    PROVE  SameWritable(volumes, volumes')
  <1> DEFINE r == volumes[fs]  v == [r EXCEPT !.nodes = x]
  <1>1. r = [writable |-> r.writable, nodes |-> r.nodes] /\ r.writable \in BOOLEAN
    BY DEF VolumesShape
  <1>2. volumes' = [volumes EXCEPT ![fs] = v]
    OBVIOUS
  <1>3. v = [writable |-> r.writable, nodes |-> x]
    <2> HIDE DEF r
    <2> QED
      BY <1>1
  <1>4. v.writable = r.writable /\ v = [writable |-> v.writable, nodes |-> v.nodes]
    BY <1>3
  <1> HIDE DEF v
  <1>5. volumes' = [s \in Slots |-> IF s = fs THEN v ELSE volumes[s]]
    BY <1>2 DEF VolumesShape
  <1>6. /\ volumes' = [s \in Slots |-> volumes'[s]]
        /\ \A s \in Slots : volumes'[s] = IF s = fs THEN v ELSE volumes[s]
    BY Zenon, <1>5
  <1> QED
    BY <1>1, <1>4, <1>6 DEF VolumesShape, SameWritable

\* FileSystem::create() writes the tree of one volume.
LEMMA createNodes ==
    ASSUME VolumesShape(volumes), NEW fs, NEW id, NEW name, NEW parent, NEW directory,
           create(fs, id, name, parent, directory)
    PROVE  SameWritable(volumes, volumes')
  <1>1. fs \in Slots
    BY DEF create, writable
  <1>2. \E x : volumes' = [volumes EXCEPT ![fs].nodes = x]
    BY Zenon DEF create
  <1> QED
    BY Zenon, <1>1, <1>2, NodesOnly

\* remove() writes the tree of one volume.
LEMMA removeNodes ==
    ASSUME VolumesShape(volumes), NEW path, remove(path)
    PROVE  SameWritable(volumes, volumes')
  <1>1. PICK parent \in parent_of(path) :
          /\ writable(parent.fs)
          /\ \E id \in lookup(parent.fs, parent.id, leaf(path)) :
                volumes' = [volumes EXCEPT ![parent.fs].nodes = [n \in DOMAIN @ \ {id} |-> @[n]]]
    BY DEF remove
  <1>2. parent.fs \in Slots
    BY <1>1 DEF writable
  <1>3. \E x : volumes' = [volumes EXCEPT ![parent.fs].nodes = x]
    BY Zenon, <1>1
  <1> QED
    BY Zenon, <1>2, <1>3, NodesOnly

\* rename() writes the tree of one volume.
LEMMA renameNodes ==
    ASSUME VolumesShape(volumes), NEW from, NEW to, rename(from, to)
    PROVE  SameWritable(volumes, volumes')
  <1>1. PICK from_parent \in parent_of(from), to_parent \in parent_of(to) :
          /\ writable(from_parent.fs)
          /\ \E id \in lookup(from_parent.fs, from_parent.id, leaf(from)) :
                volumes' = [volumes EXCEPT ![from_parent.fs].nodes =
                              [@ EXCEPT ![id].parent = to_parent.id, ![id].name = leaf(to)]]
    BY Zenon DEF rename
  <1>2. from_parent.fs \in Slots
    BY <1>1 DEF writable
  <1>3. \E x : volumes' = [volumes EXCEPT ![from_parent.fs].nodes = x]
    BY Zenon, <1>1
  <1> QED
    BY Zenon, <1>2, <1>3, NodesOnly

\* No call of the VFS mounts, unmounts or makes a volume writable.
LEMMA OperationsNodes ==
    ASSUME VolumesShape(volumes), Operations
    PROVE  SameWritable(volumes, volumes') /\ mounts' = mounts
  <1>1. ASSUME volumes' = volumes PROVE SameWritable(volumes, volumes')
    BY <1>1 DEF SameWritable
  <1>2. ASSUME NEW path \in Paths, open(path)
        PROVE  SameWritable(volumes, volumes') /\ mounts' = mounts
    BY <1>1, <1>2 DEF open
  <1>3. ASSUME NEW path \in Paths, open_create(path)
        PROVE  SameWritable(volumes, volumes') /\ mounts' = mounts
    <2>1. \E parent \in parent_of(path), id \in Room :
             create(parent.fs, id, leaf(path), parent.id, FALSE)
      BY Zenon, <1>3 DEF open_create
    <2> QED
      BY Zenon, <1>3, <2>1, createNodes DEF open_create
  <1>4. ASSUME NEW path \in Paths, make_directory(path)
        PROVE  SameWritable(volumes, volumes') /\ mounts' = mounts
    <2>1. \E parent \in parent_of(path), id \in Room :
             create(parent.fs, id, leaf(path), parent.id, TRUE)
      BY Zenon, <1>4 DEF make_directory
    <2> QED
      BY Zenon, <1>4, <2>1, createNodes DEF make_directory
  <1>5. ASSUME NEW path \in Paths, remove(path)
        PROVE  SameWritable(volumes, volumes') /\ mounts' = mounts
    BY Zenon, <1>5, removeNodes DEF remove
  <1>6. ASSUME NEW d \in Descriptors, close(d)
        PROVE  SameWritable(volumes, volumes') /\ mounts' = mounts
    BY <1>1, <1>6 DEF close
  <1>7. ASSUME NEW from, NEW to, rename(from, to)
        PROVE  SameWritable(volumes, volumes') /\ mounts' = mounts
    BY Zenon, <1>7, renameNodes DEF rename
  <1> QED
    BY ZenonT(40), <1>2, <1>3, <1>4, <1>5, <1>6, <1>7 DEF Operations

-----------------------------------------------------------------------------
(* What is on the devices, and the slots, one at a time. *)

\* Writing what is on one device.
LEMMA MediaSet ==
    ASSUME NEW m, MediaShape(m), NEW name \in DOMAIN m, NEW v, VolumeShape(v),
           NEW n, n = [m EXCEPT ![name] = v]
    PROVE  /\ MediaShape(n) /\ DOMAIN n = DOMAIN m
           /\ \A o \in DOMAIN m : n[o] = IF o = name THEN v ELSE m[o]
  <1>1. n = [o \in DOMAIN m |-> IF o = name THEN v ELSE m[o]]
    BY Zenon DEF MediaShape
  <1>2. DOMAIN n = DOMAIN m /\ \A o \in DOMAIN m : n[o] = IF o = name THEN v ELSE m[o]
    BY <1>1
  <1>3. n = [o \in DOMAIN n |-> n[o]]
    BY Zenon, <1>1
  <1>4. \A o \in DOMAIN n : VolumeShape(n[o])
    <2> TAKE o \in DOMAIN n
    <2>1. n[o] = v \/ (o \in DOMAIN m /\ n[o] = m[o])
      BY <1>2
    <2> QED
      BY <2>1 DEF MediaShape
  <1> QED
    BY <1>2, <1>3, <1>4 DEF MediaShape

\* Writing one slot.
LEMMA SlotSet ==
    ASSUME SlotsShape(slots), NEW s \in Slots, NEW v, SlotShape(v), slots' = [slots EXCEPT ![s] = v]
    PROVE  SlotsShape(slots') /\ \A o \in Slots : slots'[o] = IF o = s THEN v ELSE slots[o]
  <1> DEFINE m == slots  n == slots'
  <1>1. n = [o \in Slots |-> IF o = s THEN v ELSE m[o]]
    BY DEF SlotsShape
  <1>2. n = [o \in Slots |-> n[o]] /\ \A o \in Slots : n[o] = IF o = s THEN v ELSE m[o]
    BY Zenon, <1>1
  <1>3. \A o \in Slots : SlotShape(n[o])
    <2> TAKE o \in Slots
    <2>1. n[o] = v \/ n[o] = m[o]
      BY <1>2
    <2> QED
      BY <2>1 DEF SlotsShape
  <1> QED
    BY <1>2, <1>3 DEF SlotsShape

\* What writing blocks back does to the volume on a device.
LEMMA OnDeviceIs ==
    ASSUME NEW v, VolumeShape(v), NEW written, NEW nodes, NEW w, w = OnDevice(v, written, nodes)
    PROVE  /\ VolumeShape(w) /\ w.format = v.format /\ w.fails = v.fails
           /\ "clean" \in written => ~ w.dirty
           /\ "clean" \notin written => w.dirty = v.dirty
           /\ "data" \in written => w.nodes = nodes
  <1> DEFINE d == IF "clean" \in written THEN FALSE ELSE v.dirty
             k == IF "data" \in written THEN nodes ELSE v.nodes
  <1>1. d \in BOOLEAN
    BY Zenon DEF VolumeShape
  <1>2. w = [v EXCEPT !.nodes = k, !.dirty = d]
    BY DEF OnDevice
  <1> HIDE DEF d, k
  <1>3. w = [format |-> v.format, fails |-> v.fails, dirty |-> d, nodes |-> k]
    BY Zenon, <1>2 DEF VolumeShape
  <1>4. VolumeShape(w) /\ w.format = v.format /\ w.fails = v.fails /\ w.dirty = d /\ w.nodes = k
    BY <1>1, <1>3 DEF VolumeShape
  <1> QED
    BY Zenon, <1>4 DEF d, k

\* Marking the volume of a device.
LEMMA DirtySet ==
    ASSUME NEW v, VolumeShape(v), NEW d \in BOOLEAN
    PROVE  LET w == [v EXCEPT !.dirty = d]
           IN  VolumeShape(w) /\ w.format = v.format /\ w.fails = v.fails /\ w.dirty = d
  <1> DEFINE w == [v EXCEPT !.dirty = d]
  <1>1. w = [format |-> v.format, fails |-> v.fails, dirty |-> d, nodes |-> v.nodes]
    BY DEF VolumeShape
  <1> HIDE DEF w
  <1>2. VolumeShape(w) /\ w.format = v.format /\ w.fails = v.fails /\ w.dirty = d
    BY <1>1 DEF VolumeShape
  <1> QED
    BY <1>2 DEF w

\* How a mount may turn out: it is writable only where the mark was not set and now
\* is; a device that does not fail leaves nothing behind and no mark cleared.
LEMMA Outcome ==
    ASSUME Shapes, NEW name, NEW outcome \in mount_volume(name), outcome.ok
    PROVE  /\ name \in DOMAIN media
           /\ outcome.writable \in BOOLEAN /\ outcome.dirty \in BOOLEAN
           /\ outcome.writable =>
                 /\ media[name].format = "exfat" /\ ~ media[name].dirty
                 /\ outcome.dirty /\ outcome.pending = {}
           /\ ~ media[name].fails =>
                 /\ outcome.pending = {}
                 /\ media[name].format = "exfat" /\ media[name].dirty => outcome.dirty
  <1> DEFINE v == media[name]
             failed == [ok |-> FALSE]
             M(rw, dirty, pending) == [ok |-> TRUE, writable |-> rw, dirty |-> dirty, pending |-> pending]
             read_only == M(FALSE, v.format = "exfat" /\ v.dirty, {})
  <1>0. outcome # failed
    OBVIOUS
  <1>1. name \in DOMAIN media /\ v.format \in {"ext4", "exfat"}
    <2>1. ASSUME Format(name) = "none" PROVE FALSE
      BY <1>0, <2>1 DEF mount_volume
    <2>2. name \in DOMAIN media /\ Format(name) = v.format /\ v.format # "none"
      BY <2>1 DEF Format
    <2> QED
      BY <2>2 DEF Shapes, MediaShape, VolumeShape
  <1>2. Format(name) = v.format /\ Fails(name) = v.fails /\ v.fails \in BOOLEAN /\ v.dirty \in BOOLEAN
    BY <1>1 DEF Format, Fails, Shapes, MediaShape, VolumeShape
  <1>3. CASE v.format = "ext4"
    <2>1. outcome = read_only
      BY <1>0, <1>2, <1>3 DEF mount_volume
    <2> QED
      BY ZenonT(40), <1>1, <1>3, <2>1
  <1>4. CASE v.format = "exfat" /\ ~ v.dirty
    <2>1. \/ outcome = M(TRUE, TRUE, {})
          \/ v.fails /\ \E d \in BOOLEAN, p \in SUBSET {"clean"} : outcome = M(FALSE, d, p)
      BY <1>0, <1>2, <1>4 DEF mount_volume, Clean
    <2>2. CASE outcome = M(TRUE, TRUE, {})
      BY ZenonT(40), <1>1, <1>2, <1>4, <2>2
    <2>3. CASE v.fails /\ \E d \in BOOLEAN, p \in SUBSET {"clean"} : outcome = M(FALSE, d, p)
      <3>1. outcome.writable = FALSE /\ outcome.dirty \in BOOLEAN
        BY <2>3
      <3> QED
        BY ZenonT(40), <1>1, <2>3, <3>1
    <2> QED
      BY ZenonT(40), <2>1, <2>2, <2>3
  <1>5. CASE v.format = "exfat" /\ v.dirty
    <2>1. outcome = read_only
      BY <1>0, <1>2, <1>5 DEF mount_volume, Clean
    <2> QED
      BY Zenon, <1>1, <1>2, <1>5, <2>1
  <1> QED
    BY ZenonT(40), <1>1, <1>2, <1>3, <1>4, <1>5

-----------------------------------------------------------------------------
(* The steps that leave the mounts as they are. *)

\* From the volumes m on the devices to n: no device is another, and no mark of one
\* that does not fail is cleared.
Kept(m, n) ==
    /\ MediaShape(n) /\ DOMAIN n = DOMAIN m
    /\ \A name \in DOMAIN m :
          /\ n[name].format = m[name].format /\ n[name].fails = m[name].fails
          /\ ~ m[name].fails /\ m[name].format = "exfat" /\ m[name].dirty => n[name].dirty

\* From the slots sl to tl: the same are used, for the same mounts.
SameMounts(sl, tl) ==
    /\ SlotsShape(tl)
    /\ \A s \in Slots :
          /\ tl[s].used = sl[s].used
          /\ sl[s].used => /\ tl[s].path = sl[s].path /\ tl[s].device = sl[s].device
                           /\ tl[s].ready = sl[s].ready
                           /\ "clean" \in tl[s].pending => "clean" \in sl[s].pending

\* A step that mounts and unmounts nothing, and clears no mark.
LEMMA Quiet ==
    ASSUME IInv, Kept(media, media'), SameMounts(slots, slots'), SameWritable(volumes, volumes'),
           mounts' = mounts, up' = up
    PROVE  IInv'
  <1>1. Shapes'
    BY Zenon DEF Shapes, Kept, SameMounts, SameWritable
  <1>2. Marked'
    <2> SUFFICES ASSUME NEW s \in Slots, slots'[s].used
                 PROVE  /\ slots'[s].device \in DOMAIN media'
                        /\ volumes'[s].writable => media'[slots'[s].device].format = "exfat"
                        /\ ~ media'[slots'[s].device].fails =>
                              /\ "clean" \notin slots'[s].pending
                              /\ volumes'[s].writable => media'[slots'[s].device].dirty
      BY DEF Marked
    <2> DEFINE name == slots[s].device
    <2>1. /\ slots[s].used /\ slots'[s].device = name
          /\ "clean" \in slots'[s].pending => "clean" \in slots[s].pending
          /\ volumes'[s].writable = volumes[s].writable
      BY Zenon DEF SameMounts, SameWritable
    <2>2. /\ name \in DOMAIN media
          /\ volumes[s].writable => media[name].format = "exfat"
          /\ ~ media[name].fails => /\ "clean" \notin slots[s].pending
                                    /\ volumes[s].writable => media[name].dirty
      BY Zenon, <2>1 DEF IInv, Marked
    <2>3. /\ name \in DOMAIN media'
          /\ media'[name].format = media[name].format /\ media'[name].fails = media[name].fails
          /\ ~ media[name].fails /\ media[name].format = "exfat" /\ media[name].dirty
                => media'[name].dirty
      BY <2>2 DEF Kept
    <2> QED
      BY Zenon, <2>1, <2>2, <2>3
  <1>3. OneWriter'
    <2> SUFFICES ASSUME NEW s \in Slots, NEW t \in Slots, slots'[s].used, slots'[t].used,
                        slots'[s].device = slots'[t].device,
                        volumes'[s].writable, volumes'[t].writable, ~ Fails(slots[s].device)'
                 PROVE  s = t
      BY DEF OneWriter
    <2>1. /\ slots[s].used /\ slots[t].used
          /\ slots'[s].device = slots[s].device /\ slots'[t].device = slots[t].device
          /\ volumes[s].writable /\ volumes[t].writable
      BY DEF SameMounts, SameWritable
    <2>2. ~ Fails(slots[s].device)
      BY <2>1 DEF Fails, Kept
    <2> QED
      BY Zenon, <2>1, <2>2 DEF IInv, OneWriter
  <1>4. Mounted'
    BY DEF IInv, Mounted
  <1>5. MountsAgree'
    <2> SUFFICES ASSUME NEW s \in Slots
                 PROVE  /\ slots'[s].used <=> \E i \in DOMAIN mounts' : mounts'[i].fs = s
                        /\ slots'[s].used => slots'[s].ready /\ \E i \in DOMAIN mounts' :
                                                mounts'[i] = [path |-> slots'[s].path, fs |-> s]
      BY DEF MountsAgree
    <2>1. /\ slots[s].used <=> \E i \in DOMAIN mounts : mounts[i].fs = s
          /\ slots[s].used => slots[s].ready /\ \E i \in DOMAIN mounts :
                                 mounts[i] = [path |-> slots[s].path, fs |-> s]
      BY DEF IInv, MountsAgree
    <2>2. /\ slots'[s].used = slots[s].used
          /\ slots[s].used => slots'[s].path = slots[s].path /\ slots'[s].ready = slots[s].ready
      BY DEF SameMounts
    <2> QED
      BY Zenon, <2>1, <2>2
  <1> QED
    BY ZenonT(40), <1>1, <1>2, <1>3, <1>4, <1>5 DEF IInv

\* Nothing changes.
LEMMA Same ==
    ASSUME IInv
    PROVE  Kept(media, media) /\ SameMounts(slots, slots) /\ SameWritable(volumes, volumes)
  BY DEF IInv, Shapes, Kept, SameMounts, SameWritable

\* Writing what a slot's cache has pending.
LEMMA PendingSet ==
    ASSUME NEW r, SlotShape(r), NEW p
    PROVE  LET q == [r EXCEPT !.pending = p]
           IN  /\ SlotShape(q) /\ q.pending = p
               /\ q.used = r.used /\ q.path = r.path /\ q.device = r.device /\ q.ready = r.ready
  <1> DEFINE q == [r EXCEPT !.pending = p]
  <1>1. q = [used |-> r.used, path |-> r.path, device |-> r.device, ready |-> r.ready, pending |-> p]
    BY DEF SlotShape
  <1> HIDE DEF q
  <1>2. /\ SlotShape(q) /\ q.pending = p
        /\ q.used = r.used /\ q.path = r.path /\ q.device = r.device /\ q.ready = r.ready
    BY <1>1 DEF SlotShape
  <1> QED
    BY <1>2 DEF q

\* vfs::sync() writes what is pending; only unmounting makes a mark's clearing so.
LEMMA syncIInv ==
    ASSUME IInv, sync
    PROVE  IInv'
  <1>1. PICK written \in [Slots -> SUBSET {"data", "clean"}] :
          /\ \A s \in Slots : written[s] \in
                IF slots[s].used /\ volumes[s].writable
                  THEN WrittenBack(slots[s].device, slots[s].pending) ELSE {{}}
          /\ slots' = [s \in Slots |-> [slots[s] EXCEPT !.pending = @ \ written[s]]]
          /\ media' = [name \in DOMAIN media |->
                         LET on == {s \in Slots : written[s] # {} /\ slots[s].device = name}
                             s == CHOOSE s \in on : TRUE
                         IN  IF on = {} THEN media[name]
                             ELSE OnDevice(media[name], written[s], volumes[s].nodes)]
    BY Zenon DEF sync
  <1>2. SameMounts(slots, slots')
    <2>1. \A s \in Slots : slots'[s] = [slots[s] EXCEPT !.pending = slots[s].pending \ written[s]]
      BY <1>1
    <2>2. slots' = [s \in Slots |-> slots'[s]]
      BY <1>1
    <2>3. ASSUME NEW s \in Slots
          PROVE  /\ SlotShape(slots'[s]) /\ slots'[s].pending = slots[s].pending \ written[s]
                 /\ slots'[s].used = slots[s].used /\ slots'[s].path = slots[s].path
                 /\ slots'[s].device = slots[s].device /\ slots'[s].ready = slots[s].ready
      <3> DEFINE r == slots[s]  p == r.pending \ written[s]
      <3>1. SlotShape(r)
        BY DEF IInv, Shapes, SlotsShape
      <3>2. slots'[s] = [r EXCEPT !.pending = p]
        BY <2>1
      <3> HIDE DEF r, p
      <3>3. /\ SlotShape(slots'[s]) /\ slots'[s].pending = p
            /\ slots'[s].used = r.used /\ slots'[s].path = r.path
            /\ slots'[s].device = r.device /\ slots'[s].ready = r.ready
        BY <3>1, <3>2, PendingSet
      <3> QED
        BY <3>3 DEF r, p
    <2> QED
      BY ZenonT(40), <2>2, <2>3 DEF SameMounts, SlotsShape
  <1>3. Kept(media, media')
    <2>1. DOMAIN media' = DOMAIN media /\ media' = [name \in DOMAIN media' |-> media'[name]]
      BY <1>1
    <2>2. ASSUME NEW name \in DOMAIN media
          PROVE  /\ VolumeShape(media'[name])
                 /\ media'[name].format = media[name].format /\ media'[name].fails = media[name].fails
                 /\ ~ media[name].fails => media'[name].dirty = media[name].dirty
      <3> DEFINE on == {s \in Slots : written[s] # {} /\ slots[s].device = name}
                 s == CHOOSE s \in on : TRUE
      <3>1. VolumeShape(media[name])
        BY DEF IInv, Shapes, MediaShape
      <3>2. CASE on = {}
        <4>1. media'[name] = media[name]
          BY ZenonT(40), <1>1, <3>2
        <4> QED
          BY Zenon, <3>1, <4>1
      <3>3. CASE on # {}
        <4>1. media'[name] = OnDevice(media[name], written[s], volumes[s].nodes)
          BY Zenon, <1>1, <3>3
        <4>2. s \in Slots /\ written[s] # {} /\ slots[s].device = name
          BY Zenon, <3>3
        <4> HIDE DEF s
        <4>3. slots[s].used /\ written[s] \in WrittenBack(slots[s].device, slots[s].pending)
          BY Zenon, <1>1, <4>2
        <4>4. ~ media[name].fails => "clean" \notin written[s]
          <5> SUFFICES ASSUME ~ media[name].fails PROVE "clean" \notin written[s]
            OBVIOUS
          <5>1. ~ Fails(name)
            BY DEF Fails
          <5>2. written[s] = slots[s].pending
            BY ZenonT(40), <4>2, <4>3, <5>1 DEF WrittenBack
          <5> QED
            BY ZenonT(40), <4>2, <4>3, <5>2 DEF IInv, Marked
        <4> DEFINE v == media[name]  w == media'[name]  moved == written[s]  nodes == volumes[s].nodes
        <4>5. VolumeShape(v) /\ w = OnDevice(v, moved, nodes) /\ (~ v.fails => "clean" \notin moved)
          BY ZenonT(40), <3>1, <4>1, <4>4
        <4> HIDE DEF v, w, moved, nodes
        <4>6. /\ VolumeShape(w) /\ w.format = v.format /\ w.fails = v.fails
              /\ "clean" \notin moved => w.dirty = v.dirty
          BY <4>5, OnDeviceIs
        <4> QED
          BY ZenonT(40), <4>5, <4>6 DEF v, w
      <3> QED
        BY Zenon, <3>2, <3>3
    <2> QED
      BY Zenon, <2>1, <2>2 DEF Kept, MediaShape
  <1>4. SameWritable(volumes, volumes') /\ mounts' = mounts /\ up' = up
    BY Same DEF sync, vfs
  <1> QED
    BY ZenonT(40), <1>2, <1>3, <1>4, Quiet

\* A call of the VFS changes what is in a volume, not its mark.
LEMMA FileOperationIInv ==
    ASSUME IInv, FileOperation
    PROVE  IInv'
  <1>1. SameWritable(volumes, volumes') /\ mounts' = mounts /\ up' = up
    BY OperationsNodes DEF IInv, Shapes, FileOperation
  <1>2. SameMounts(slots, slots')
    <2>1. /\ slots' = [s \in Slots |-> slots'[s]]
          /\ \A s \in Slots : \/ slots'[s] = slots[s]
                              \/ slots'[s] = [slots[s] EXCEPT !.pending = slots[s].pending \cup {"data"}]
      BY DEF FileOperation
    <2>2. ASSUME NEW s \in Slots
          PROVE  /\ SlotShape(slots'[s])
                 /\ "clean" \in slots'[s].pending => "clean" \in slots[s].pending
                 /\ slots'[s].used = slots[s].used /\ slots'[s].path = slots[s].path
                 /\ slots'[s].device = slots[s].device /\ slots'[s].ready = slots[s].ready
      <3> DEFINE r == slots[s]  p == r.pending \cup {"data"}
      <3>1. SlotShape(r)
        BY DEF IInv, Shapes, SlotsShape
      <3>2. slots'[s] = r \/ slots'[s] = [r EXCEPT !.pending = p]
        BY <2>1
      <3>3. "clean" \in p => "clean" \in r.pending
        OBVIOUS
      <3> HIDE DEF r, p
      <3>4. /\ SlotShape(slots'[s]) /\ (slots'[s].pending = p \/ slots'[s].pending = r.pending)
            /\ slots'[s].used = r.used /\ slots'[s].path = r.path
            /\ slots'[s].device = r.device /\ slots'[s].ready = r.ready
        <4>1. CASE slots'[s] = r
          BY <3>1, <4>1
        <4>2. CASE slots'[s] = [r EXCEPT !.pending = p]
          BY <3>1, <4>2, PendingSet
        <4> QED
          BY ZenonT(40), <3>2, <4>1, <4>2
      <3> QED
        BY Zenon, <3>3, <3>4 DEF r
    <2> QED
      BY Zenon, <2>1, <2>2 DEF SameMounts, SlotsShape
  <1>3. Kept(media, media')
    <2> DEFINE on(name) == {s \in Slots : volumes'[s] # volumes[s] /\ slots[s].device = name}
               tree(name) == volumes'[CHOOSE s \in on(name) : TRUE].nodes
    <2>1. /\ DOMAIN media' = DOMAIN media /\ media' = [name \in DOMAIN media' |-> media'[name]]
          /\ \A name \in DOMAIN media : \/ media'[name] = media[name]
                                        \/ media'[name] = OnDevice(media[name], {"data"}, tree(name))
      BY DEF FileOperation
    <2> HIDE DEF tree
    <2>2. ASSUME NEW name \in DOMAIN media
          PROVE  /\ VolumeShape(media'[name])
                 /\ media'[name].format = media[name].format /\ media'[name].fails = media[name].fails
                 /\ media'[name].dirty = media[name].dirty
      <3>1. VolumeShape(media[name])
        BY DEF IInv, Shapes, MediaShape
      <3> DEFINE v == media[name]  w == media'[name]  moved == {"data"}  nodes == tree(name)
      <3>2. VolumeShape(v) /\ (w = v \/ w = OnDevice(v, moved, nodes)) /\ "clean" \notin moved
        BY Zenon, <2>1, <3>1
      <3> HIDE DEF v, w, moved, nodes
      <3>3. VolumeShape(w) /\ w.format = v.format /\ w.fails = v.fails /\ w.dirty = v.dirty
        <4>1. CASE w = v
          BY Zenon, <3>2, <4>1
        <4>2. CASE w = OnDevice(v, moved, nodes)
          BY <3>2, <4>2, OnDeviceIs
        <4> QED
          BY ZenonT(40), <3>2, <4>1, <4>2
      <3> QED
        BY <3>3 DEF v, w
    <2> QED
      BY ZenonT(40), <2>1, <2>2 DEF Kept, MediaShape
  <1> QED
    BY ZenonT(40), <1>1, <1>2, <1>3, Quiet

-----------------------------------------------------------------------------
(* Bringing the machine up. *)

\* Nothing is mounted before kernel_main mounts the root.
LEMMA InitIInv ==
    Init => IInv
  <1> SUFFICES ASSUME Init PROVE IInv
    OBVIOUS
  <1>1. /\ slots = [s \in Slots |-> FreeSlot] /\ volumes = [s \in Slots |-> NoVolume]
        /\ mounts = <<>> /\ up = FALSE
    BY DEF Init, InitVfs
  <1>2. \A s \in Slots : slots[s] = FreeSlot /\ ~ slots[s].used
    BY Zenon, <1>1 DEF FreeSlot
  <1>3. MediaShape(media)
    <2>1. PICK m \in Machines : media = m.media
      BY DEF Init
    <2> QED
      BY <2>1, MachinesAssumption DEF MediaShape, VolumeShape
  <1>4. SlotsShape(slots)
    <2>1. SlotShape(FreeSlot)
      BY DEF SlotShape, FreeSlot
    <2>2. slots = [s \in Slots |-> slots[s]]
      BY <1>1
    <2> QED
      BY ZenonT(40), <1>2, <2>1, <2>2 DEF SlotsShape
  <1>5. VolumesShape(volumes)
    <2>1. NoVolume = [writable |-> NoVolume.writable, nodes |-> NoVolume.nodes] /\ NoVolume.writable \in BOOLEAN
      BY DEF NoVolume
    <2>2. volumes = [s \in Slots |-> volumes[s]] /\ \A s \in Slots : volumes[s] = NoVolume
      BY <1>1
    <2> QED
      BY <2>1, <2>2 DEF VolumesShape
  <1>6. Mounted
    <2>1. mounts \in Seq(MountRecords) /\ DOMAIN mounts = {}
      BY <1>1
    <2> QED
      BY Zenon, <1>1, <2>1 DEF Mounted
  <1>7. MountsAgree
    BY <1>1, <1>2 DEF MountsAgree
  <1> QED
    BY ZenonT(40), <1>2, <1>3, <1>4, <1>5, <1>6, <1>7 DEF IInv, Shapes, Marked, OneWriter

\* kernel_main: the root and "/dev" come first, and are not slots.
LEMMA MountRootIInv ==
    ASSUME IInv, MountRoot
    PROVE  IInv'
  <1>1. mounts = <<>> /\ up' = TRUE /\ media' = media /\ slots' = slots /\ volumes' = volumes
    BY DEF MountRoot, IInv, Mounted
  <1>2. \A s \in Slots : ~ slots[s].used
    BY <1>1 DEF IInv, MountsAgree
  <1>3. Shapes' /\ Marked' /\ OneWriter'
    BY <1>1, <1>2 DEF IInv, Shapes, Marked, OneWriter
  <1> DEFINE a == [path |-> <<>>, fs |-> RootFs]
             b == [path |-> <<"dev">>, fs |-> DevFs]
  <1>4. mounts' = <<a, b>> \/ mounts' = <<>>
    BY <1>1 DEF MountRoot
  <1>5. a \in MountRecords /\ b \in MountRecords
    BY DEF MountRecords, FileSystems
  <1>6. a.fs = RootFs /\ b.fs = DevFs /\ RootFs # DevFs /\ RootFs \notin Slots /\ DevFs \notin Slots
    BY VfsAssumption
  <1> HIDE DEF a, b
  <1>7. /\ mounts' \in Seq(MountRecords)
        /\ DOMAIN mounts' \subseteq {1, 2}
        /\ 1 \in DOMAIN mounts' => mounts'[1] = a
        /\ 2 \in DOMAIN mounts' => mounts'[2] = b
    <2>1. CASE mounts' = <<>>
      BY <2>1
    <2>2. CASE mounts' = <<a, b>>
      BY <1>5, <2>2
    <2> QED
      BY ZenonT(40), <1>4, <2>1, <2>2
  <1>8. Mounted'
    <2>1. ASSUME NEW i \in DOMAIN mounts', NEW j \in DOMAIN mounts', mounts'[i].fs = mounts'[j].fs
          PROVE  i = j
      <3>1. (i = 1 \/ i = 2) /\ (j = 1 \/ j = 2)
        BY <1>7
      <3>2. i = 1 => mounts'[i].fs = RootFs
        BY ZenonT(40), <1>6, <1>7
      <3>3. i = 2 => mounts'[i].fs = DevFs
        BY ZenonT(40), <1>6, <1>7
      <3>4. j = 1 => mounts'[j].fs = RootFs
        BY Zenon, <1>6, <1>7
      <3>5. j = 2 => mounts'[j].fs = DevFs
        BY ZenonT(40), <1>6, <1>7
      <3> QED
        BY <1>6, <2>1, <3>1, <3>2, <3>3, <3>4, <3>5
    <2> QED
      BY ZenonT(40), <1>1, <1>7, <2>1 DEF Mounted
  <1>9. MountsAgree'
    <2>1. \A i \in DOMAIN mounts' : mounts'[i].fs \notin Slots
      BY <1>6, <1>7
    <2> QED
      BY ZenonT(40), <1>1, <1>2, <2>1 DEF MountsAgree
  <1> QED
    BY ZenonT(40), <1>3, <1>8, <1>9 DEF IInv

-----------------------------------------------------------------------------
(* mount_device() *)

\* Binding a slot's view to a device.
LEMMA DeviceSet ==
    ASSUME NEW r, SlotShape(r), NEW name
    PROVE  LET q == [r EXCEPT !.device = name]
           IN  SlotShape(q) /\ q.used = r.used /\ q.ready = r.ready /\ q.path = r.path
  <1> DEFINE q == [r EXCEPT !.device = name]
  <1>1. q = [used |-> r.used, path |-> r.path, device |-> name, ready |-> r.ready, pending |-> r.pending]
    BY DEF SlotShape
  <1> HIDE DEF q
  <1>2. SlotShape(q) /\ q.used = r.used /\ q.ready = r.ready /\ q.path = r.path
    BY Zenon, <1>1 DEF SlotShape
  <1> QED
    BY <1>2 DEF q

\* A slot that is not used may be written without a mount changing.
LEMMA FreeSlotSet ==
    ASSUME IInv, NEW s \in Slots, ~ slots[s].used, NEW r, SlotShape(r), ~ r.used,
           slots' = [slots EXCEPT ![s] = r]
    PROVE  SameMounts(slots, slots')
  <1>1. SlotsShape(slots') /\ \A o \in Slots : slots'[o] = IF o = s THEN r ELSE slots[o]
    BY Zenon, SlotSet DEF IInv, Shapes
  <1>2. r.used = slots[s].used
    BY DEF IInv, Shapes, SlotsShape, SlotShape
  <1> QED
    BY <1>1, <1>2 DEF SameMounts

\* When vfs::mount() refuses, the volume is unmounted again: a mark this mount put
\* on the device is cleared, one that was there before is not.
LEMMA RefusedIInv ==
    ASSUME IInv, NEW s \in Slots, ~ slots[s].used, NEW name, NEW path,
           NEW outcome \in mount_volume(name), outcome.ok, ~ Mountable(path),
           MountOn(s, name, path, outcome), up' = up
    PROVE  IInv'
  <1> DEFINE v == media[name]
             u == [v EXCEPT !.dirty = outcome.dirty]
             started == [media EXCEPT ![name] = u]
             pending == AtUnmount(outcome.pending, outcome.writable)
             bound == [slots[s] EXCEPT !.device = name]
  <1>1. PICK written \in WrittenBack(name, pending) :
          /\ media' = [started EXCEPT ![name] = OnDevice(started[name], written, <<>>)]
          /\ slots' = [slots EXCEPT ![s] = [bound EXCEPT !.ready = written # pending,
                                                         !.pending = pending \ written]]
    BY Zenon DEF MountOn
  <1>2. mounts' = mounts /\ volumes' = volumes
    BY Zenon DEF MountOn, vfs
  <1>3. /\ name \in DOMAIN media /\ VolumeShape(v)
        /\ outcome.writable \in BOOLEAN /\ outcome.dirty \in BOOLEAN
        /\ outcome.writable => v.format = "exfat" /\ ~ v.dirty
        /\ ~ v.fails => /\ outcome.pending = {}
                        /\ v.format = "exfat" /\ v.dirty => outcome.dirty
    BY Outcome DEF IInv, Shapes, MediaShape
  <1>4. VolumeShape(u) /\ u.format = v.format /\ u.fails = v.fails /\ u.dirty = outcome.dirty
    <2> HIDE DEF v
    <2> QED
      BY Zenon, <1>3, DirtySet
  <1>5. /\ MediaShape(started) /\ DOMAIN started = DOMAIN media
        /\ \A o \in DOMAIN media : started[o] = IF o = name THEN u ELSE media[o]
    <2> HIDE DEF u
    <2> QED
      BY ZenonT(40), <1>3, <1>4, MediaSet DEF IInv, Shapes
  <1>6. ~ v.fails /\ "clean" \in written => outcome.writable
    <2> SUFFICES ASSUME ~ v.fails, "clean" \in written PROVE outcome.writable
      BY Zenon
    <2>1. ~ Fails(name) /\ outcome.pending = {}
      BY <1>3 DEF Fails
    <2>2. written = pending
      BY ZenonT(40), <1>1, <2>1 DEF WrittenBack
    <2> QED
      BY ZenonT(40), <2>1, <2>2 DEF AtUnmount
  <1>7. Kept(media, media')
    <2> DEFINE w == OnDevice(u, written, <<>>)  nodes == <<>>
    <2>1. started[name] = u /\ media' = [started EXCEPT ![name] = w]
      BY ZenonT(40), <1>1, <1>3, <1>5
    <2> HIDE DEF u, v, started, w
    <2>2. /\ VolumeShape(w) /\ w.format = u.format /\ w.fails = u.fails
          /\ "clean" \notin written => w.dirty = u.dirty
      <3>1. w = OnDevice(u, written, nodes)
        BY DEF w
      <3> HIDE DEF nodes
      <3> QED
        BY ZenonT(40), <1>4, <3>1, OnDeviceIs
    <2>3. /\ MediaShape(media') /\ DOMAIN media' = DOMAIN started
          /\ \A o \in DOMAIN started : media'[o] = IF o = name THEN w ELSE started[o]
      BY Zenon, <1>3, <1>5, <2>1, <2>2, MediaSet
    <2>4. DOMAIN media' = DOMAIN media /\ \A o \in DOMAIN media : media'[o] = IF o = name THEN w ELSE media[o]
      BY ZenonT(40), <1>5, <2>3
    <2>5. /\ w.format = v.format /\ w.fails = v.fails
          /\ ~ v.fails /\ v.format = "exfat" /\ v.dirty => w.dirty
      BY ZenonT(40), <1>3, <1>4, <1>6, <2>2
    <2>6. v = media[name]
      BY DEF v
    <2> QED
      BY ZenonT(40), <1>3, <2>3, <2>4, <2>5, <2>6 DEF Kept
  <1>8. SameMounts(slots, slots')
    <2> DEFINE r == [bound EXCEPT !.ready = written # pending, !.pending = pending \ written]
               ready == written # pending
    <2>1. SlotShape(bound) /\ bound.used = slots[s].used
      <3> DEFINE old == slots[s]
      <3>1. SlotShape(old) /\ bound = [old EXCEPT !.device = name]
        BY DEF IInv, Shapes, SlotsShape
      <3> HIDE DEF old, bound
      <3>2. SlotShape(bound) /\ bound.used = old.used
        BY Zenon, <3>1, DeviceSet
      <3> QED
        BY <3>2 DEF old
    <2>2. SlotShape(r) /\ ~ r.used
      <3> DEFINE rest == pending \ written
      <3>1. r = [bound EXCEPT !.ready = ready, !.pending = rest]
        OBVIOUS
      <3>2. ready \in BOOLEAN
        OBVIOUS
      <3> HIDE DEF bound, pending, ready, rest, r
      <3>3. r = [used |-> bound.used, path |-> bound.path, device |-> bound.device,
                 ready |-> ready, pending |-> rest]
        BY Zenon, <2>1, <3>1 DEF SlotShape
      <3> QED
        BY ZenonT(40), <2>1, <3>2, <3>3 DEF SlotShape
    <2>3. slots' = [slots EXCEPT ![s] = r]
      BY Zenon, <1>1
    <2> HIDE DEF r
    <2> QED
      BY Zenon, <2>2, <2>3, FreeSlotSet
  <1> QED
    BY ZenonT(40), <1>2, <1>7, <1>8, Quiet, Same

\* A mount that succeeds: it is writable only if no other mount of the device is.
LEMMA MountedIInv ==
    ASSUME IInv, NEW s \in Slots, ~ slots[s].used, NEW name, NEW path \in Paths \cup FewPaths,
           NEW outcome \in mount_volume(name), outcome.ok, Mountable(path),
           MountOn(s, name, path, outcome), up, up' = up
    PROVE  IInv'
  <1> DEFINE v == media[name]
             u == [v EXCEPT !.dirty = outcome.dirty]
             r == [used |-> TRUE, path |-> path, device |-> name, ready |-> TRUE, pending |-> outcome.pending]
             x == [writable |-> outcome.writable, nodes |-> Shown(name, outcome.writable)]
             e == [path |-> path, fs |-> s]
  <1>1. /\ media' = [media EXCEPT ![name] = u]
        /\ slots' = [slots EXCEPT ![s] = r]
        /\ volumes' = [volumes EXCEPT ![s] = x]
        /\ mounts' = Append(mounts, e)
    BY Zenon DEF MountOn
  <1>2. /\ name \in DOMAIN media /\ VolumeShape(v)
        /\ outcome.writable \in BOOLEAN /\ outcome.dirty \in BOOLEAN
        /\ outcome.writable => v.format = "exfat" /\ ~ v.dirty /\ outcome.dirty
        /\ ~ v.fails => /\ outcome.pending = {}
                        /\ v.format = "exfat" /\ v.dirty => outcome.dirty
    BY Outcome DEF IInv, Shapes, MediaShape
  <1>3. VolumeShape(u) /\ u.format = v.format /\ u.fails = v.fails /\ u.dirty = outcome.dirty
    <2> HIDE DEF v
    <2> QED
      BY Zenon, <1>2, DirtySet
  <1>4. /\ MediaShape(media') /\ DOMAIN media' = DOMAIN media
        /\ \A o \in DOMAIN media : media'[o] = IF o = name THEN u ELSE media[o]
    <2> DEFINE m == media  n == media'
    <2>1. MediaShape(m) /\ n = [m EXCEPT ![name] = u] /\ name \in DOMAIN m
      BY Zenon, <1>1, <1>2 DEF IInv, Shapes
    <2> HIDE DEF u, m, n
    <2>2. /\ MediaShape(n) /\ DOMAIN n = DOMAIN m
          /\ \A o \in DOMAIN m : n[o] = IF o = name THEN u ELSE m[o]
      BY Zenon, <1>3, <2>1, MediaSet
    <2> QED
      BY Zenon, <2>2 DEF m, n
  <1>5. SlotsShape(slots') /\ \A o \in Slots : slots'[o] = IF o = s THEN r ELSE slots[o]
    <2>1. SlotsShape(slots) /\ SlotShape(r)
      BY Zenon DEF IInv, Shapes, SlotShape
    <2> HIDE DEF r
    <2> QED
      BY Zenon, <1>1, <2>1, SlotSet
  <1>6. /\ r.used /\ r.path = path /\ r.device = name /\ r.ready /\ r.pending = outcome.pending
        /\ x.writable = outcome.writable /\ x = [writable |-> x.writable, nodes |-> x.nodes]
        /\ e.fs = s /\ e \in MountRecords
    BY Zenon DEF MountRecords, FileSystems
  <1> HIDE DEF r, x, e, u
  <1>7. VolumesShape(volumes') /\ \A o \in Slots : volumes'[o] = IF o = s THEN x ELSE volumes[o]
    <2>1. volumes' = [o \in Slots |-> IF o = s THEN x ELSE volumes[o]]
      BY Zenon, <1>1 DEF IInv, Shapes, VolumesShape
    <2>2. volumes' = [o \in Slots |-> volumes'[o]] /\ \A o \in Slots : volumes'[o] = IF o = s THEN x ELSE volumes[o]
      BY Zenon, <2>1
    <2> QED
      BY ZenonT(40), <1>2, <1>6, <2>2 DEF IInv, Shapes, VolumesShape
  <1>8. Shapes'
    BY ZenonT(40), <1>4, <1>5, <1>7 DEF Shapes
  <1>9. Marked'
    <2> SUFFICES ASSUME NEW t \in Slots, slots'[t].used
                 PROVE  /\ slots'[t].device \in DOMAIN media'
                        /\ volumes'[t].writable => media'[slots'[t].device].format = "exfat"
                        /\ ~ media'[slots'[t].device].fails =>
                              /\ "clean" \notin slots'[t].pending
                              /\ volumes'[t].writable => media'[slots'[t].device].dirty
      BY Zenon DEF Marked
    <2>1. CASE t = s
      BY ZenonT(40), <1>2, <1>3, <1>4, <1>5, <1>6, <1>7, <2>1
    <2>2. CASE t # s
      <3> DEFINE d == slots[t].device
      <3>1. /\ slots[t].used /\ slots'[t] = slots[t] /\ volumes'[t] = volumes[t]
        BY ZenonT(40), <1>5, <1>7, <2>2
      <3>2. /\ d \in DOMAIN media
            /\ volumes[t].writable => media[d].format = "exfat"
            /\ ~ media[d].fails => /\ "clean" \notin slots[t].pending
                                   /\ volumes[t].writable => media[d].dirty
        BY Zenon, <3>1 DEF IInv, Marked
      <3>3. media'[d] = IF d = name THEN u ELSE media[d]
        BY ZenonT(40), <1>4, <3>2
      <3> QED
        BY Zenon, <1>2, <1>3, <1>4, <3>1, <3>2, <3>3
    <2> QED
      BY ZenonT(40), <2>1, <2>2
  <1>10. ASSUME NEW t \in Slots, slots[t].used, slots[t].device = name, volumes[t].writable, ~ v.fails
         PROVE  ~ outcome.writable
    <2>1. v.dirty
      BY Zenon, <1>10 DEF IInv, Marked
    <2> QED
      BY ZenonT(40), <1>2, <2>1
  <1>11. OneWriter'
    <2> SUFFICES ASSUME NEW a \in Slots, NEW b \in Slots, slots'[a].used, slots'[b].used,
                        slots'[a].device = slots'[b].device,
                        volumes'[a].writable, volumes'[b].writable, ~ Fails(slots[a].device)', a # b
                 PROVE  FALSE
      BY Zenon DEF OneWriter
    <2>1. ASSUME NEW t \in Slots, t # s
          PROVE  slots'[t] = slots[t] /\ volumes'[t] = volumes[t]
      BY ZenonT(40), <1>5, <1>7, <2>1
    <2>2. slots'[s] = r /\ volumes'[s] = x
      BY ZenonT(40), <1>5, <1>7
    <2>3. \A d : Fails(d)' <=> Fails(d)
      BY ZenonT(40), <1>3, <1>4 DEF Fails
    <2>4. Fails(name) <=> v.fails
      BY Zenon, <1>2 DEF Fails
    <2>5. ~ Fails(slots'[a].device)
      BY Zenon, <2>3
    <2>6. CASE a = s
      BY ZenonT(40), <1>6, <1>10, <2>1, <2>2, <2>4, <2>5, <2>6
    <2>7. CASE b = s
      BY ZenonT(40), <1>6, <1>10, <2>1, <2>2, <2>4, <2>5, <2>7
    <2>8. CASE a # s /\ b # s
      BY ZenonT(40), <2>1, <2>5, <2>8 DEF IInv, OneWriter
    <2> QED
      BY ZenonT(40), <2>6, <2>7, <2>8
  <1>12. /\ mounts \in Seq(MountRecords) /\ Len(mounts) \in Nat /\ DOMAIN mounts = 1 .. Len(mounts)
         /\ mounts' \in Seq(MountRecords) /\ DOMAIN mounts' = 1 .. Len(mounts) + 1
         /\ \A i \in 1 .. Len(mounts) : mounts'[i] = mounts[i]
         /\ mounts'[Len(mounts) + 1] = e
    BY <1>1, <1>6, SeqIs, SeqAppend DEF IInv, Mounted
  <1>13. \A i \in DOMAIN mounts : mounts[i].fs # s
    BY Zenon DEF IInv, MountsAgree
  <1>14. \A i \in DOMAIN mounts' : (i \in DOMAIN mounts /\ mounts'[i] = mounts[i]) \/ (i = Len(mounts) + 1 /\ mounts'[i] = e)
    BY <1>12
  <1>15. Mounted'
    <2>1. ASSUME NEW i \in DOMAIN mounts', NEW j \in DOMAIN mounts', mounts'[i].fs = mounts'[j].fs
          PROVE  i = j
      <3>1. CASE i \in DOMAIN mounts /\ j \in DOMAIN mounts
        BY ZenonT(40), <1>12, <2>1, <3>1 DEF IInv, Mounted
      <3>2. CASE i \notin DOMAIN mounts
        BY ZenonT(40), <1>6, <1>13, <1>14, <2>1, <3>2
      <3>3. CASE j \notin DOMAIN mounts
        BY ZenonT(40), <1>6, <1>13, <1>14, <2>1, <3>3
      <3> QED
        BY ZenonT(40), <3>1, <3>2, <3>3
    <2> QED
      BY Zenon, <1>12, <2>1 DEF IInv, Mounted
  <1>16. MountsAgree'
    <2> SUFFICES ASSUME NEW t \in Slots
                 PROVE  /\ slots'[t].used <=> \E i \in DOMAIN mounts' : mounts'[i].fs = t
                        /\ slots'[t].used => slots'[t].ready /\ \E i \in DOMAIN mounts' :
                                                mounts'[i] = [path |-> slots'[t].path, fs |-> t]
      BY Zenon DEF MountsAgree
    <2>1. Len(mounts) + 1 \in DOMAIN mounts'
      BY <1>12
    <2>2. CASE t = s
      <3>1. slots'[t] = r /\ e = [path |-> path, fs |-> s]
        BY ZenonT(40), <1>5, <2>2 DEF e
      <3> QED
        BY ZenonT(40), <1>6, <1>12, <2>1, <2>2, <3>1
    <2>3. CASE t # s
      <3>1. slots'[t] = slots[t]
        BY ZenonT(40), <1>5, <2>3
      <3>2. /\ slots[t].used <=> \E i \in DOMAIN mounts : mounts[i].fs = t
            /\ slots[t].used => slots[t].ready /\ \E i \in DOMAIN mounts :
                                   mounts[i] = [path |-> slots[t].path, fs |-> t]
        BY Zenon DEF IInv, MountsAgree
      <3>3. \A i \in DOMAIN mounts : i \in DOMAIN mounts' /\ mounts'[i] = mounts[i]
        BY <1>12
      <3>4. \A i \in DOMAIN mounts' : mounts'[i].fs = t => i \in DOMAIN mounts /\ mounts[i].fs = t
        BY ZenonT(40), <1>6, <1>14, <2>3
      <3> QED
        BY ZenonT(40), <3>1, <3>2, <3>3, <3>4
    <2> QED
      BY ZenonT(40), <2>2, <2>3
  <1> QED
    BY ZenonT(40), <1>8, <1>9, <1>11, <1>15, <1>16 DEF IInv

\* mount_device() as a whole.
LEMMA mount_deviceIInv ==
    ASSUME IInv, NEW name, NEW path \in Paths \cup FewPaths, mount_device(name, path)
    PROVE  IInv'
  <1>1. PICK s \in Slots :
          /\ ~ slots[s].used
          /\ IF slots[s].ready
               THEN slots' = [slots EXCEPT ![s].device = name] /\ UNCHANGED <<vfs, media>>
               ELSE \E outcome \in mount_volume(name) : MountOn(s, name, path, outcome)
    BY Zenon DEF mount_device
  <1>2. up' = up
    BY DEF mount_device
  <1>3. up
    <2>1. PICK node \in stat(<<"dev", name>>) : TRUE
      BY DEF mount_device
    <2>2. mounts # <<>>
      BY <2>1 DEF stat, mount_for
    <2> QED
      BY <2>2 DEF IInv, Mounted
  <1> DEFINE r == [slots[s] EXCEPT !.device = name]
  <1>4. ASSUME slots' = [slots EXCEPT ![s] = r], UNCHANGED <<vfs, media>>
        PROVE  IInv'
    <2>1. SlotShape(r) /\ ~ r.used
      <3> DEFINE old == slots[s]
      <3>1. SlotShape(old) /\ ~ old.used /\ r = [old EXCEPT !.device = name]
        BY <1>1 DEF IInv, Shapes, SlotsShape
      <3> HIDE DEF old, r
      <3> QED
        BY ZenonT(40), <3>1, DeviceSet
    <2> HIDE DEF r
    <2>2. SameMounts(slots, slots')
      BY Zenon, <1>1, <1>4, <2>1, FreeSlotSet
    <2> QED
      BY ZenonT(40), <1>2, <1>4, <2>2, Quiet, Same DEF vfs
  <1>5. CASE slots[s].ready
    BY ZenonT(40), <1>1, <1>4, <1>5
  <1>6. CASE ~ slots[s].ready
    <2>1. PICK outcome \in mount_volume(name) : MountOn(s, name, path, outcome)
      BY ZenonT(40), <1>1, <1>6
    <2>2. CASE ~ outcome.ok
      BY ZenonT(40), <1>4, <2>1, <2>2 DEF MountOn
    <2>3. CASE outcome.ok /\ ~ Mountable(path)
      BY ZenonT(40), <1>1, <1>2, <2>1, <2>3, RefusedIInv
    <2>4. CASE outcome.ok /\ Mountable(path)
      BY ZenonT(40), <1>1, <1>2, <1>3, <2>1, <2>4, MountedIInv
    <2> QED
      BY ZenonT(40), <2>2, <2>3, <2>4
  <1> QED
    BY ZenonT(40), <1>5, <1>6

-----------------------------------------------------------------------------
(* unmount_device() *)

\* The mount table without a file system.
LEMMA UnmountedIs ==
    ASSUME Mounted, NEW s, NEW n, n = Unmounted(s), \E i \in DOMAIN mounts : mounts[i].fs = s
    PROVE  /\ n \in Seq(MountRecords)
           /\ \A a, b \in DOMAIN n : n[a].fs = n[b].fs => a = b
           /\ \A k \in DOMAIN n : n[k].fs # s /\ \E j \in DOMAIN mounts : n[k] = mounts[j]
           /\ \A j \in DOMAIN mounts : mounts[j].fs # s => \E k \in DOMAIN n : n[k] = mounts[j]
  <1> DEFINE i == CHOOSE i \in DOMAIN mounts : mounts[i].fs = s
             l == Len(mounts)
  <1>1. i \in DOMAIN mounts /\ mounts[i].fs = s
    OBVIOUS
  <1>2. n = SubSeq([mounts EXCEPT ![i] = mounts[Len(mounts)]], 1, Len(mounts) - 1)
    BY DEF Unmounted
  <1> HIDE DEF i
  <1>3. mounts \in Seq(MountRecords) /\ l \in Nat /\ DOMAIN mounts = 1 .. l
    BY Zenon, SeqIs DEF Mounted
  <1>4. /\ n \in Seq(MountRecords) /\ Len(n) = l - 1
        /\ \A k \in 1 .. l - 1 : n[k] = IF k = i THEN mounts[l] ELSE mounts[k]
    <2> DEFINE e == [mounts EXCEPT ![i] = mounts[l]]
               h == l - 1
    <2>1. mounts[l] \in MountRecords /\ h \in Nat /\ h + 1 = l
      BY <1>1, <1>3, SeqIs
    <2>2. /\ e \in Seq(MountRecords) /\ Len(e) = l
          /\ \A j \in 1 .. l : e[j] = IF j = i THEN mounts[l] ELSE mounts[j]
      BY ZenonT(40), <1>1, <1>3, <2>1, SeqSet
    <2>3. n = SubSeq(e, 1, h)
      BY Zenon, <1>2
    <2> HIDE DEF e, l
    <2>4. /\ n \in Seq(MountRecords) /\ Len(n) = h
          /\ \A k \in 1 .. h : n[k] = e[k]
      BY <2>1, <2>2, <2>3, SeqFront
    <2> QED
      BY <1>3, <2>1, <2>2, <2>4
  <1>5. DOMAIN n = 1 .. l - 1
    BY ZenonT(40), <1>4, SeqIs
  <1> HIDE DEF l
  <1> DEFINE from(k) == IF k = i THEN l ELSE k
  <1>6. /\ l \in DOMAIN mounts
        /\ \A k \in DOMAIN n : from(k) \in DOMAIN mounts /\ from(k) # i /\ n[k] = mounts[from(k)]
    BY <1>1, <1>3, <1>4, <1>5
  <1>7. \A a, b \in DOMAIN n : from(a) = from(b) => a = b
    BY <1>3, <1>5
  <1>8. \A j \in DOMAIN mounts : j # i => \E k \in DOMAIN n : from(k) = j
    <2> SUFFICES ASSUME NEW j \in DOMAIN mounts, j # i PROVE \E k \in DOMAIN n : from(k) = j
      OBVIOUS
    <2>1. CASE j = l
      <3>1. i \in DOMAIN n /\ from(i) = j
        BY <1>1, <1>3, <1>5, <2>1
      <3> QED
        BY <3>1
    <2>2. CASE j # l
      <3>1. j \in DOMAIN n /\ from(j) = j
        BY <1>3, <1>5, <2>2
      <3> QED
        BY <3>1
    <2> QED
      BY Zenon, <2>1, <2>2
  <1> HIDE DEF from
  <1>9. \A a, b \in DOMAIN mounts : mounts[a].fs = mounts[b].fs => a = b
    BY Zenon DEF Mounted
  <1> QED
    BY <1>1, <1>4, <1>6, <1>7, <1>8, <1>9

\* The device after unmount_device() holds what was written, and nothing else on it
\* changes; when everything was written it holds all of it.
LEMMA unmount_deviceMedia ==
    ASSUME IInv, NEW s \in Slots, unmount_device(s)
    PROVE  /\ slots[s].used /\ slots[s].device \in DOMAIN media
           /\ MediaShape(media') /\ DOMAIN media' = DOMAIN media
           /\ \A o \in DOMAIN media : o # slots[s].device => media'[o] = media[o]
           /\ media'[slots[s].device].format = media[slots[s].device].format
           /\ media'[slots[s].device].fails = media[slots[s].device].fails
           /\ ~ volumes[s].writable /\ ~ media[slots[s].device].fails =>
                 media'[slots[s].device].dirty = media[slots[s].device].dirty
           /\ told' = "unmounted" =>
                 /\ "data" \in slots[s].pending =>
                       media'[slots[s].device].nodes = volumes[s].nodes
                 /\ volumes[s].writable => ~ media'[slots[s].device].dirty
  <1> DEFINE name == slots[s].device
             v == media[name]
             rw == volumes[s].writable
             nodes == volumes[s].nodes
             pending == AtUnmount(slots[s].pending, rw)
  <1>1. PICK written \in WrittenBack(name, pending) :
          /\ media' = [media EXCEPT ![name] = OnDevice(v, written, nodes)]
          /\ told' = Report(written = pending)
    BY Zenon DEF unmount_device
  <1>2. slots[s].used
    BY Zenon DEF unmount_device
  <1>3. name \in DOMAIN media /\ (~ v.fails => "clean" \notin slots[s].pending) /\ VolumeShape(v)
    BY <1>2 DEF IInv, Marked, Shapes, MediaShape
  <1>4. ~ rw /\ ~ v.fails => "clean" \notin written
    BY Zenon, <1>1, <1>3 DEF WrittenBack, Fails, AtUnmount
  <1>5. told' = "unmounted" => /\ "data" \in slots[s].pending => "data" \in written
                               /\ rw => "clean" \in written
    <2>1. told' = "unmounted" => written = pending
      BY Zenon, <1>1 DEF Report
    <2> QED
      BY Zenon, <2>1 DEF AtUnmount
  <1> DEFINE w == OnDevice(v, written, nodes)
  <1> HIDE DEF v, nodes, w
  <1>6. /\ VolumeShape(w) /\ w.format = v.format /\ w.fails = v.fails
        /\ "clean" \in written => ~ w.dirty
        /\ "clean" \notin written => w.dirty = v.dirty
        /\ "data" \in written => w.nodes = nodes
    <2>1. w = OnDevice(v, written, nodes)
      BY Zenon DEF w
    <2> QED
      BY <1>3, <2>1, OnDeviceIs
  <1>7. /\ MediaShape(media') /\ DOMAIN media' = DOMAIN media
        /\ \A o \in DOMAIN media : media'[o] = IF o = name THEN w ELSE media[o]
    <2> DEFINE m == media  n == media'
    <2>1. MediaShape(m) /\ n = [m EXCEPT ![name] = w] /\ name \in DOMAIN m
      BY <1>1, <1>3 DEF IInv, Shapes, v, w
    <2> HIDE DEF m, n, name
    <2>2. /\ MediaShape(n) /\ DOMAIN n = DOMAIN m
          /\ \A o \in DOMAIN m : n[o] = IF o = name THEN w ELSE m[o]
      BY Zenon, <1>6, <2>1, MediaSet
    <2> QED
      BY Zenon, <2>2 DEF m, n
  <1>8. media'[name] = w /\ \A o \in DOMAIN media : o # name => media'[o] = media[o]
    BY Zenon, <1>3, <1>7
  <1> QED
    BY ZenonT(40), <1>2, <1>3, <1>4, <1>5, <1>6, <1>7, <1>8 DEF v, nodes

\* The last writer of a device that does not fail is the one that clears its mark.
LEMMA unmount_deviceIInv ==
    ASSUME IInv, NEW s \in Slots, unmount_device(s)
    PROVE  IInv'
  <1> DEFINE r == [FreeSlot EXCEPT !.device = slots[s].device]
  <1>1. /\ mounts' = Unmounted(s) /\ up' = up
        /\ volumes' = [volumes EXCEPT ![s] = NoVolume]
        /\ slots' = [slots EXCEPT ![s] = r]
    BY DEF unmount_device, Released
  <1>2. SlotShape(r) /\ ~ r.used
    <2>1. SlotShape(FreeSlot) /\ ~ FreeSlot.used
      BY DEF FreeSlot, SlotShape
    <2> QED
      BY Zenon, <2>1, DeviceSet
  <1> HIDE DEF r
  <1>3. SlotsShape(slots') /\ \A o \in Slots : slots'[o] = IF o = s THEN r ELSE slots[o]
    BY Zenon, <1>1, <1>2, SlotSet DEF IInv, Shapes
  <1>4. VolumesShape(volumes') /\ \A o \in Slots : volumes'[o] = IF o = s THEN NoVolume ELSE volumes[o]
    <2>1. volumes' = [o \in Slots |-> IF o = s THEN NoVolume ELSE volumes[o]]
      BY <1>1 DEF IInv, Shapes, VolumesShape
    <2>2. volumes' = [o \in Slots |-> volumes'[o]] /\ \A o \in Slots : volumes'[o] = IF o = s THEN NoVolume ELSE volumes[o]
      BY <2>1
    <2>3. NoVolume = [writable |-> NoVolume.writable, nodes |-> NoVolume.nodes] /\ NoVolume.writable \in BOOLEAN
      BY Zenon DEF NoVolume
    <2> QED
      BY ZenonT(40), <2>2, <2>3 DEF IInv, Shapes, VolumesShape
  <1>5. Shapes'
    BY ZenonT(40), <1>3, <1>4, unmount_deviceMedia DEF Shapes
  <1>6. ASSUME NEW t \in Slots, slots'[t].used
        PROVE  t # s /\ slots[t].used /\ slots'[t] = slots[t] /\ volumes'[t] = volumes[t]
    BY ZenonT(40), <1>2, <1>3, <1>4, <1>6
  <1>7. ASSUME NEW t \in Slots, slots'[t].used
        PROVE  /\ slots[t].device \in DOMAIN media
               /\ media'[slots[t].device].format = media[slots[t].device].format
               /\ media'[slots[t].device].fails = media[slots[t].device].fails
               /\ ~ media[slots[t].device].fails /\ volumes[t].writable =>
                     media'[slots[t].device].dirty
    <2> DEFINE d == slots[t].device
    <2>1. /\ d \in DOMAIN media
          /\ ~ media[d].fails /\ volumes[t].writable => media[d].dirty
      BY Zenon, <1>6, <1>7 DEF IInv, Marked
    <2>2. CASE d # slots[s].device
      BY ZenonT(40), <2>1, <2>2, unmount_deviceMedia
    <2>3. CASE d = slots[s].device
      <3>1. slots[s].used
        BY Zenon, unmount_deviceMedia
      <3>2. ~ media[d].fails /\ volumes[t].writable => ~ volumes[s].writable
        BY ZenonT(40), <1>6, <1>7, <2>3, <3>1 DEF IInv, OneWriter, Fails
      <3> QED
        BY ZenonT(40), <2>1, <2>3, <3>2, unmount_deviceMedia
    <2> QED
      BY ZenonT(40), <2>2, <2>3
  <1>8. Marked'
    <2> SUFFICES ASSUME NEW t \in Slots, slots'[t].used
                 PROVE  /\ slots'[t].device \in DOMAIN media'
                        /\ volumes'[t].writable => media'[slots'[t].device].format = "exfat"
                        /\ ~ media'[slots'[t].device].fails =>
                              /\ "clean" \notin slots'[t].pending
                              /\ volumes'[t].writable => media'[slots'[t].device].dirty
      BY Zenon DEF Marked
    <2>1. DOMAIN media' = DOMAIN media
      BY Zenon, unmount_deviceMedia
    <2> QED
      BY Zenon, <1>6, <1>7, <2>1 DEF IInv, Marked
  <1>9. OneWriter'
    <2> SUFFICES ASSUME NEW a \in Slots, NEW b \in Slots, slots'[a].used, slots'[b].used,
                        slots'[a].device = slots'[b].device,
                        volumes'[a].writable, volumes'[b].writable, ~ Fails(slots[a].device)'
                 PROVE  a = b
      BY Zenon DEF OneWriter
    <2>1. /\ slots[a].used /\ slots[b].used /\ slots[a].device = slots[b].device
          /\ volumes[a].writable /\ volumes[b].writable /\ slots'[a].device = slots[a].device
      BY Zenon, <1>6
    <2>2. ~ Fails(slots[a].device)
      BY ZenonT(40), <1>7, <2>1, unmount_deviceMedia DEF Fails
    <2> QED
      BY ZenonT(40), <2>1, <2>2 DEF IInv, OneWriter
  <1> DEFINE n == mounts'
  <1>10. \E i \in DOMAIN mounts : mounts[i].fs = s
    BY Zenon, unmount_deviceMedia DEF IInv, MountsAgree
  <1>11. /\ n \in Seq(MountRecords)
         /\ \A a, b \in DOMAIN n : n[a].fs = n[b].fs => a = b
         /\ \A k \in DOMAIN n : n[k].fs # s /\ \E j \in DOMAIN mounts : n[k] = mounts[j]
         /\ \A j \in DOMAIN mounts : mounts[j].fs # s => \E k \in DOMAIN n : n[k] = mounts[j]
    <2>1. Mounted /\ n = Unmounted(s)
      BY Zenon, <1>1 DEF IInv
    <2> HIDE DEF n
    <2> QED
      BY <1>10, <2>1, UnmountedIs
  <1>12. Mounted'
    <2>1. up
      BY <1>10 DEF IInv, Mounted
    <2> QED
      BY ZenonT(40), <1>1, <1>11, <2>1 DEF Mounted
  <1>13. MountsAgree'
    <2> SUFFICES ASSUME NEW t \in Slots
                 PROVE  /\ slots'[t].used <=> \E i \in DOMAIN n : n[i].fs = t
                        /\ slots'[t].used => slots'[t].ready /\ \E i \in DOMAIN n :
                                                n[i] = [path |-> slots'[t].path, fs |-> t]
      BY Zenon DEF MountsAgree
    <2> HIDE DEF n
    <2>1. CASE t = s
      BY ZenonT(40), <1>2, <1>3, <1>11, <2>1
    <2>2. CASE t # s
      <3>1. slots'[t] = slots[t]
        BY Zenon, <1>3, <2>2
      <3>2. /\ slots[t].used <=> \E i \in DOMAIN mounts : mounts[i].fs = t
            /\ slots[t].used => slots[t].ready /\ \E i \in DOMAIN mounts :
                                   mounts[i] = [path |-> slots[t].path, fs |-> t]
        BY Zenon DEF IInv, MountsAgree
      <3> QED
        BY <1>11, <2>2, <3>1, <3>2
    <2> QED
      BY ZenonT(40), <2>1, <2>2
  <1> QED
    BY ZenonT(40), <1>5, <1>8, <1>9, <1>12, <1>13 DEF IInv

-----------------------------------------------------------------------------
(* The disks, their partitions and the registry. *)

\* The storage layer starts with the console alone registered.
LEMMA InitStorageInv ==
    Init => StorageInv
  <1> SUFFICES ASSUME Init PROVE StorageInv
    OBVIOUS
  <1>1. \A d \in DOMAIN hardware : DiskShape(hardware[d])
    BY Zenon, MachinesAssumption DEF Init
  <1>2. attached \in Seq(DOMAIN hardware)
    BY DEF Init
  <1>3. windows = [w \in Windows |-> NoWindow] /\ \A w \in Windows : windows[w].used = FALSE
    BY DEF Init, NoWindow
  <1>4. registry = <<<<"other", "console">>>>
    BY DEF Init
  <1>5. DOMAIN registry = {1} /\ registry[1] = <<"other", "console">>
    BY <1>4
  <1>6. registry \in Seq(Refs)
    <2>1. <<"other", "console">> \in Refs
      BY DEF Refs
    <2> QED
      BY <1>4, <2>1
  <1>7. \A w \in Windows : ~ Registered(registry, w)
    BY <1>5 DEF Registered
  <1>8. OneName(registry, windows)
    BY <1>5 DEF OneName
  <1>9. RegistryInv(registry, windows)
    BY Zenon, <1>3, <1>6, <1>7, <1>8 DEF RegistryInv
  <1> QED
    BY ZenonT(40), <1>1, <1>2, <1>3, <1>9 DEF StorageInv, WindowsIn

\* mount_rootfs() registers the RAM disk.
LEMMA mount_rootfsStorageInv ==
    ASSUME StorageInv, mount_rootfs, UNCHANGED <<hardware, attached, windows>>
    PROVE  StorageInv'
  <1> DEFINE new == Append(registry, <<"other", "ram0">>)
  <1>1. registry' = registry \/ (registry' = new /\ Registers(registry, windows, "ram0"))
    BY Zenon DEF mount_rootfs
  <1>2. ASSUME Registers(registry, windows, "ram0") PROVE RegistryInv(new, windows)
    <2>1. <<"other", "ram0">> \in Refs /\ <<"other", "ram0">>[1] # "window"
      BY DEF Refs
    <2>2. NameIn(<<"other", "ram0">>, windows) = "ram0"
      BY DEF NameIn
    <2>3. RegistryInv(registry, windows)
      BY DEF StorageInv
    <2> QED
      BY ZenonT(40), <1>2, <2>1, <2>2, <2>3, Appended
  <1> HIDE DEF new
  <1> QED
    BY Zenon, <1>1, <1>2 DEF StorageInv

\* Every step of the machine keeps what is known of its disks and devices.
LEMMA NextStorageInv ==
    StorageInv /\ [Next]_vars => StorageInv'
  <1> SUFFICES ASSUME StorageInv, [Next]_vars PROVE StorageInv'
    OBVIOUS
  <1>1. ASSUME UNCHANGED disks PROVE StorageInv'
    BY Zenon, <1>1 DEF disks, StorageInv
  <1>2. ASSUME NEW starts, NEW memory, AttachDisk(starts, memory) PROVE StorageInv'
    BY Zenon, <1>2, attach_blockStorageInv DEF AttachDisk
  <1>3. ASSUME MountRoot PROVE StorageInv'
    BY Zenon, <1>3, mount_rootfsStorageInv DEF MountRoot
  <1>4. ASSUME NEW slot, Unpublish(slot) PROVE StorageInv'
    BY <1>4, unpublishStorageInv DEF Unpublish
  <1>5. ASSUME NEW name, NEW path, mount_device(name, path) PROVE UNCHANGED disks
    BY <1>5 DEF mount_device
  <1>6. ASSUME NEW s, unmount_device(s) PROVE UNCHANGED disks
    BY <1>6 DEF unmount_device
  <1>7. ASSUME sync PROVE UNCHANGED disks
    BY <1>7 DEF sync
  <1>8. ASSUME FileOperation PROVE UNCHANGED disks
    BY <1>8 DEF FileOperation
  <1>9. ASSUME UNCHANGED vars PROVE UNCHANGED disks
    BY Zenon, <1>9 DEF vars
  <1> HIDE DEF disks
  <1> QED
    BY Zenon, <1>1, <1>2, <1>3, <1>4, <1>5, <1>6, <1>7, <1>8, <1>9 DEF Next

-----------------------------------------------------------------------------
(* Every step, and the theorems. *)

\* Every step of the machine keeps the invariant.
LEMMA NextIInv ==
    IInv /\ [Next]_vars => IInv'
  <1> SUFFICES ASSUME IInv, [Next]_vars PROVE IInv'
    OBVIOUS
  <1>1. ASSUME media' = media, slots' = slots, volumes' = volumes, mounts' = mounts, up' = up
        PROVE  IInv'
    BY ZenonT(40), <1>1, Quiet, Same
  <1>2. ASSUME NEW starts, NEW memory, AttachDisk(starts, memory) PROVE IInv'
    BY Zenon, <1>1, <1>2 DEF AttachDisk, vfs
  <1>3. ASSUME NEW slot, Unpublish(slot) PROVE IInv'
    BY Zenon, <1>1, <1>3 DEF Unpublish, vfs
  <1>4. ASSUME NEW name, NEW path \in IF Fails(name) THEN FewPaths ELSE Paths, mount_device(name, path)
        PROVE  IInv'
    <2>1. path \in Paths \cup FewPaths
      OBVIOUS
    <2> QED
      BY ZenonT(40), <1>4, <2>1, mount_deviceIInv
  <1>5. CASE UNCHANGED vars
    BY <1>1, <1>5 DEF vars, vfs
  <1> QED
    BY ZenonT(40), <1>2, <1>3, <1>4, <1>5, MountRootIInv, unmount_deviceIInv, syncIInv, FileOperationIInv DEF Next

\* The inductive invariant holds throughout.
THEOREM IInvHolds == Spec => []IInv
  BY InitIInv, NextIInv, PTL DEF Spec

\* At most one mount writes to a device that does not fail, though nothing keeps a
\* device from being mounted twice (mount_device, mount_volume).
THEOREM OneWriterHolds == Spec => []OneWriter
  <1>1. IInv => OneWriter
    BY Zenon DEF IInv
  <1> QED
    BY <1>1, IInvHolds, PTL

\* A slot of device_mount.cpp is used exactly while the VFS has its volume mounted,
\* at the slot's path and through a cache that is ready, whatever failed on the way.
THEOREM MountsAgreeHolds == Spec => []MountsAgree
  <1>1. IInv => MountsAgree
    BY DEF IInv
  <1> QED
    BY <1>1, IInvHolds, PTL

\* When unmount_device() reports no failure, the device holds every change of the
\* mount and, if it was writable, is marked clean.
THEOREM UnmountTrue == Spec => UnmountTold
  <1> DEFINE Told ==
        told' = "unmounted" =>
          \A s \in Slots : slots[s].used /\ ~ slots'[s].used =>
             LET volume == media'[slots[s].device]
             IN  /\ "data" \in slots[s].pending => volume.nodes = volumes[s].nodes
                 /\ volumes[s].writable => ~ volume.dirty
  <1>1. ASSUME IInv, [Next]_vars PROVE [Told]_vars
    <2> SUFFICES ASSUME told' = "unmounted", NEW s \in Slots, slots[s].used, ~ slots'[s].used
                 PROVE  /\ "data" \in slots[s].pending =>
                              media'[slots[s].device].nodes = volumes[s].nodes
                        /\ volumes[s].writable => ~ media'[slots[s].device].dirty
      OBVIOUS
    <2>1. \E t \in Slots : unmount_device(t)
      BY Zenon, <1>1 DEF Next, vars, AttachDisk, MountRoot, Unpublish, mount_device, sync, FileOperation
    <2>2. PICK t \in Slots : unmount_device(t)
      BY <2>1
    <2>3. t = s
      BY <2>2 DEF unmount_device
    <2> QED
      BY ZenonT(30), <1>1, <2>2, <2>3, unmount_deviceMedia
  <1>2. Spec => [][Told]_vars
    BY <1>1, IInvHolds, PTL DEF Spec
  <1> QED
    BY <1>2 DEF UnmountTold

\* What is known of the disks and devices holds throughout.
THEOREM StorageInvHolds == Spec => []StorageInv
  BY InitStorageInv, NextStorageInv, PTL DEF Spec

\* The registry agrees with the partition slots and the mount table with the device
\* slots: a partition's device is registered exactly while its slot is used, once,
\* and no two devices have one name (publish, unpublish, register_device), whatever
\* tables the disks have and however full the registry is.
THEOREM TablesAgreeHolds == Spec => []TablesAgree
  <1>1. StorageInv /\ IInv => TablesAgree
    BY RegistryInvSound DEF IInv, TablesAgree
  <1> QED
    BY <1>1, StorageInvHolds, IInvHolds, PTL

\* Every partition is one that its disk's table gives, whatever is on the disk and
\* whatever of it cannot be read (read, read_gpt, read_logical, publish): within the
\* disk, of a GPT copy whose checksums hold, or within its extended partition.
THEOREM WindowsTrueHolds == Spec => []WindowsTrue
  BY StorageInvHolds, WindowsInTrue, PTL
==============================================================================
