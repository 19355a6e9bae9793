---------------------------- MODULE DeviceMounts ----------------------------
(***************************************************************************)
(* From the disks to files: kernel_main's order of bringing storage and    *)
(* file systems up, then kernel/fs/device_mount.cpp, which mounts the      *)
(* volume on a block device of /dev and unmounts it again, under the       *)
(* operations of the VFS.                                                  *)
(*                                                                         *)
(* A mount has a cache of its own: what it changes is pending in the cache *)
(* until it is written back.  Of the volume on a device only what mounting *)
(* depends on is kept: its format, exFAT's VolumeDirty and its tree.  A    *)
(* device that fails may refuse any request.                               *)
(***************************************************************************)
EXTENDS Vfs

CONSTANTS
    Machines,   \* the disks found, and what is on the devices
    FewPaths    \* where devices that fail are mounted (a bound)

\* What is on a device, as mount_volume() tells it apart.
ASSUME MachinesAssumption ==
    \A m \in Machines :
        /\ \A d \in DOMAIN m.hardware : DiskShape(m.hardware[d])
        /\ m.media = [name \in DOMAIN m.media |-> m.media[name]]
        /\ \A name \in DOMAIN m.media :
              LET volume == m.media[name]
              IN  /\ volume = [format |-> volume.format, fails |-> volume.fails,
                               dirty |-> volume.dirty, nodes |-> volume.nodes]
                  /\ volume.format \in {"none", "ext4", "exfat"}
                  /\ volume.fails \in BOOLEAN /\ volume.dirty \in BOOLEAN

VARIABLES
    media,   \* device name -> [format, fails, dirty, nodes]
    slots,   \* device_mount's slots: [used, path, device, ready, pending]
    up,      \* the root and /dev have been mounted, or not
    told     \* what unmount_device() said when it has just unmounted

vars == <<disks, image, fs_mounted, vfs, media, slots, up, told>>

FreeSlot == [used |-> FALSE, path |-> <<>>, device |-> "", ready |-> FALSE, pending |-> {}]

Init ==
    /\ \E m \in Machines : hardware = m.hardware /\ media = m.media /\ image = m.image
    /\ probed = 0 /\ attached = <<>>
    /\ windows = [w \in Windows |-> NoWindow]
    /\ registry = <<<<"other", "console">>>>
    /\ InitVfs /\ fs_mounted = FALSE
    /\ slots = [s \in Slots |-> FreeSlot]
    /\ up = FALSE /\ told = "nothing"
-----------------------------------------------------------------------------
\* A transport the driver can use: a legacy device, with an I/O BAR on PCI.
Usable(d) == hardware[d].legacy

\* platform::initialize_storage(): the disks one by one
AttachDisk(starts, memory) ==
    /\ ~ up /\ probed < Len(hardware)
    /\ attach_block(starts /\ Usable(probed + 1), memory)
    /\ UNCHANGED <<image, fs_mounted, vfs, media, slots, up, told>>

\* mount_rootfs(): the RAM disk is registered once it is mounted
mount_rootfs ==
    /\ fs_mounted' = mount_image
    /\ registry' = IF mount_image /\ Registers(registry, windows, "ram0")
                     THEN Append(registry, <<"other", "ram0">>) ELSE registry

\* the root file system, then "/dev"
MountRoot ==
    /\ ~ up /\ probed = Len(hardware)
    /\ up' = TRUE
    /\ mounts' = IF mount_image THEN <<[path |-> <<>>, fs |-> RootFs], [path |-> <<"dev">>, fs |-> DevFs]>>
                                ELSE mounts
    /\ mount_rootfs
    /\ UNCHANGED <<hardware, image, probed, attached, windows, files, volumes, media, slots, told>>

\* unpublish(), while nothing is mounted
Unpublish(slot) ==
    /\ up /\ \A s \in Slots : ~ slots[s].used
    /\ unpublish(slot)
    /\ UNCHANGED <<image, fs_mounted, vfs, media, slots, up, told>>
-----------------------------------------------------------------------------
Format(name) == IF name \in DOMAIN media THEN media[name].format ELSE "none"
Fails(name) == name \in DOMAIN media /\ media[name].fails
Shared(name) == \E s \in Slots : slots[s].used /\ slots[s].device = name

\* A bug: a volume that is marked in use is mounted writable all the same.
Clean_Assumed(name) == TRUE

\* exfat: a volume marked VolumeDirty is not mounted writable
Clean(name) == ~ media[name].dirty

\* mount_volume(): how it may end.  A writable mount puts VolumeDirty on the device
\* at once; when that fails the mount is read-only, and the cache may be left with
\* the flag cleared again.
mount_volume(name) ==
    LET failing(outcomes) == IF Fails(name) THEN outcomes ELSE {}
        Mounted(rw, dirty, pending) ==
            [ok |-> TRUE, writable |-> rw, dirty |-> dirty, pending |-> pending]
        read_only == Mounted(FALSE, Format(name) = "exfat" /\ media[name].dirty, {})
        failed == [ok |-> FALSE]
    IN  CASE Format(name) = "none" -> {failed}
          [] Format(name) = "ext4" -> {read_only} \cup failing({failed})
          [] Format(name) = "exfat" /\ Clean(name) ->
                {Mounted(TRUE, TRUE, {})}
                \cup failing({failed} \cup {Mounted(FALSE, d, p) :
                                              d \in BOOLEAN, p \in SUBSET {"clean"}})
          [] OTHER -> {read_only} \cup failing({failed})

\* What of the pending blocks reaches the device when they are written back.
WrittenBack(name, pending) == IF Fails(name) THEN SUBSET pending ELSE {pending}

\* The volume on a device after blocks of a mount of it were written.
OnDevice(volume, written, nodes) ==
    [volume EXCEPT !.nodes = IF "data" \in written THEN nodes ELSE @,
                   !.dirty = IF "clean" \in written THEN FALSE ELSE @]

\* unmount_volume(): a writable exFAT volume's VolumeDirty is cleared last.
AtUnmount(pending, rw) == pending \cup IF rw THEN {"clean"} ELSE {}

\* What a volume that cannot be written shows while another mount may be changing
\* it is left out.
Shown(name, rw) == IF ~ rw /\ Shared(name) THEN <<>> ELSE media[name].nodes

\* mount_device() from the slot on
MountOn(s, name, path, outcome) ==
    LET pending == AtUnmount(outcome.pending, outcome.writable)
        bound == [slots[s] EXCEPT !.device = name]
        started == [media EXCEPT ![name].dirty = outcome.dirty]
    IN  IF ~ outcome.ok
          THEN slots' = [slots EXCEPT ![s] = bound] /\ UNCHANGED <<vfs, media>>
        ELSE IF ~ Mountable(path)
          THEN /\ \E written \in WrittenBack(name, pending) :
                     /\ media' = [started EXCEPT ![name] = OnDevice(@, written, <<>>)]
                     /\ slots' = [slots EXCEPT ![s] = [bound EXCEPT !.ready = written # pending,
                                                                    !.pending = pending \ written]]
               /\ UNCHANGED vfs
          ELSE /\ mounts' = Append(mounts, [path |-> path, fs |-> s])
               /\ volumes' = [volumes EXCEPT ![s] = [writable |-> outcome.writable, nodes |-> Shown(name, outcome.writable)]]
               /\ media' = started
               /\ slots' = [slots EXCEPT ![s] = [used |-> TRUE, path |-> path, device |-> name,
                                                 ready |-> TRUE, pending |-> outcome.pending]]
               /\ UNCHANGED files

\* mount_device(): a slot whose cache is still ready has no memory to give, though
\* its view is bound to the device by then.
mount_device(name, path) ==
    LET unused == {s \in Slots : ~ slots[s].used}
    IN  /\ \E node \in stat(<<"dev", name>>) : node.fs = DevFs
        /\ \A o \in Slots : slots[o].used => slots[o].path # path
        /\ \E s \in unused :
              /\ \A o \in unused : s <= o
              /\ IF slots[s].ready
                   THEN slots' = [slots EXCEPT ![s].device = name] /\ UNCHANGED <<vfs, media>>
                   ELSE \E outcome \in mount_volume(name) : MountOn(s, name, path, outcome)
        /\ told' = "nothing"
        /\ UNCHANGED <<disks, image, fs_mounted, up>>

\* A bug: what could not be written is not reported.
Report_Always(written) == "unmounted"

Report(written) == IF written THEN "unmounted" ELSE "unmounted, not written"

\* A bug: the slot is freed though the VFS keeps the mount.
Released_Always(s) == TRUE

\* vfs::unmount() succeeds
Released(s) == ~ Busy(s)

\* unmount_device(): the slot is free again whatever was written; a cache that
\* could not be written is given up.
unmount_device(s) ==
    LET name == slots[s].device
        pending == AtUnmount(slots[s].pending, volumes[s].writable)
    IN  /\ slots[s].used /\ Released(s)
        /\ mounts' = IF Busy(s) THEN mounts ELSE Unmounted(s)
        /\ \E written \in WrittenBack(name, pending) :
              /\ media' = [media EXCEPT ![name] = OnDevice(@, written, volumes[s].nodes)]
              /\ told' = Report(written = pending)
        /\ volumes' = [volumes EXCEPT ![s] = NoVolume]
        /\ slots' = [slots EXCEPT ![s] = [FreeSlot EXCEPT !.device = name]]
        /\ UNCHANGED <<disks, image, fs_mounted, files, up>>

\* vfs::sync(): every writable volume's cache is flushed.
sync ==
    /\ up
    /\ \E written \in [Slots -> SUBSET {"data", "clean"}] :
          /\ \A s \in Slots : written[s] \in
                IF slots[s].used /\ volumes[s].writable
                  THEN WrittenBack(slots[s].device, slots[s].pending) ELSE {{}}
          /\ slots' = [s \in Slots |-> [slots[s] EXCEPT !.pending = @ \ written[s]]]
          /\ media' = [name \in DOMAIN media |->
                         LET on == {s \in Slots : written[s] # {} /\ slots[s].device = name}
                             s == CHOOSE s \in on : TRUE
                         IN  IF on = {} THEN media[name]
                             ELSE OnDevice(media[name], written[s], volumes[s].nodes)]
    /\ told' = "nothing"
    /\ UNCHANGED <<disks, image, fs_mounted, vfs, up>>

\* Volumes of devices that fail have one node and no open file (a bound).
FewFiles ==
    \A s \in Slots : Fails(slots[s].device) =>
        Cardinality(DOMAIN volumes'[s].nodes) <= 1 /\ \A d \in Descriptors : ~ files'[d].used

\* A call of the VFS; what it changes is pending in the cache of its volume.  On a
\* device that does not fail it makes no difference when it is written, and it is
\* written at once.
FileOperation ==
    /\ up /\ Operations /\ FewFiles
    /\ slots' = [s \in Slots |->
                   IF volumes'[s] = volumes[s] \/ ~ Fails(slots[s].device) THEN slots[s]
                   ELSE [slots[s] EXCEPT !.pending = @ \cup {"data"}]]
    /\ media' = [name \in DOMAIN media |->
                   LET on == {s \in Slots : volumes'[s] # volumes[s] /\ slots[s].device = name}
                   IN  IF on = {} \/ Fails(name) THEN media[name]
                       ELSE OnDevice(media[name], {"data"}, volumes'[CHOOSE s \in on : TRUE].nodes)]
    /\ told' = "nothing"
    /\ UNCHANGED <<disks, image, fs_mounted, up>>

Devices == {NameOf(registry[i]) : i \in DOMAIN registry}

Next ==
    \/ \E starts, memory \in BOOLEAN : AttachDisk(starts, memory)
    \/ MountRoot
    \/ \E slot \in DOMAIN attached : Unpublish(slot)
    \/ \E name \in Devices : \E path \in IF Fails(name) THEN FewPaths ELSE Paths : mount_device(name, path)
    \/ \E s \in Slots : unmount_device(s)
    \/ sync
    \/ FileOperation

Spec == Init /\ [][Next]_vars
-----------------------------------------------------------------------------
\* The mount table agrees with the device slots (mount_device, unmount_device),
\* whatever failed half way: a slot is used exactly while its volume is mounted, at
\* the slot's path, through a cache that is ready.
MountsAgree ==
    \A s \in Slots :
        /\ slots[s].used <=> \E i \in DOMAIN mounts : mounts[i].fs = s
        /\ slots[s].used => slots[s].ready /\ \E i \in DOMAIN mounts :
                               mounts[i] = [path |-> slots[s].path, fs |-> s]

\* The tables agree: the registry with the partition slots (publish, unpublish), and
\* the mount table with the device slots.
TablesAgree == RegistrySound /\ MountsAgree

\* At most one mount writes to a device (exfat: VolumeDirty is put on it before a
\* mount is writable), although nothing keeps a device from being mounted twice.
OneWriter ==
    \A s, t \in Slots :
        /\ slots[s].used /\ slots[t].used /\ slots[s].device = slots[t].device
        /\ volumes[s].writable /\ volumes[t].writable /\ ~ Fails(slots[s].device)
        => s = t

\* What umount says is so (unmount_device): when it reports no failure, the device
\* holds every change the mount made, and is marked clean if it was writable.
UnmountTold ==
    [][told' = "unmounted" =>
         \A s \in Slots : slots[s].used /\ ~ slots'[s].used =>
            LET volume == media'[slots[s].device]
            IN  /\ "data" \in slots[s].pending => volume.nodes = volumes[s].nodes
                /\ volumes[s].writable => ~ volume.dirty]_vars
=============================================================================
