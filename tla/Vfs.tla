--------------------------------- MODULE Vfs ---------------------------------
(***************************************************************************)
(* kernel/fs/vfs.cpp: the mount table, path resolution across it, the      *)
(* table of open files, and the operations that change a directory tree    *)
(* (open with Create, make_directory, remove, rename, mount, unmount).     *)
(*                                                                         *)
(* A path is the sequence of its components.  Below the VFS there is one   *)
(* tree per file system: SHRFS1 at "/", devfs, whose files are the devices *)
(* registered, and a volume for each slot of device_mount.cpp.  exFAT      *)
(* finds a name by its Fold (it compares through the volume's up-case      *)
(* table), while the VFS compares paths as they were typed: an open file   *)
(* keeps the spelling it was opened by.  A node is its identity in its     *)
(* tree; sizes, positions and contents are left out.                       *)
(***************************************************************************)
EXTENDS Partitions, Shrfs

CONSTANTS
    Fold(_),       \* the up-cased form of a name
    RootFs,        \* the file system at "/", which nobody can write (SHRFS1)
    DevFs,
    max_device_mounts,
    Room,          \* the nodes a volume has room for, its root aside
    max_mounts,
    max_open_files,
    Typed,         \* the paths callers give (a bound), "." and ".." included
    Bases          \* the directories they are relative to

Slots == 1 .. max_device_mounts     \* each is a volume to the VFS
FileSystems == {RootFs, DevFs} \cup Slots
Root == 0          \* the root node of every tree

ASSUME VfsAssumption ==
    /\ RootFs # DevFs /\ {RootFs, DevFs} \cap Slots = {}
    /\ Room \subseteq Nat \ {Root}
    /\ max_mounts \in Nat \ {0} /\ max_open_files \in Nat \ {0} /\ max_device_mounts \in Nat

VARIABLES
    mounts,   \* the mount table: a sequence of [path, fs]
    files,    \* the open-file table: descriptor -> node and path, or Closed
    volumes   \* slot -> its volume: whether it can be written, and its nodes,
              \* [parent, name, directory] each

vfs == <<mounts, files, volumes>>

Closed == [used |-> FALSE]
Node(fs, id, path) == [used |-> TRUE, fs |-> fs, id |-> id, path |-> path]
Descriptors == 1 .. max_open_files
Open == {d \in Descriptors : files[d].used}
NoVolume == [writable |-> FALSE, nodes |-> <<>>]
-----------------------------------------------------------------------------
\* Paths

\* component by component: /devices is not under /dev
path_starts_with(path, prefix) ==
    Len(prefix) <= Len(path) /\ \A i \in 1 .. Len(prefix) : path[i] = prefix[i]

remove_last_component(path) == IF path = <<>> THEN <<>> ELSE SubSeq(path, 1, Len(path) - 1)
leaf(path) == path[Len(path)]

\* normalize(): the components of a path in order, from the base
normalize(path, base) ==
    LET upto[n \in 0 .. Len(path)] ==
            IF n = 0 THEN base
            ELSE CASE path[n] = "." -> upto[n - 1]
                   [] path[n] = ".." -> remove_last_component(upto[n - 1])
                   [] OTHER -> Append(upto[n - 1], path[n])
    IN  upto[Len(path)]

Paths == {normalize(path, base) : path \in Typed, base \in Bases}

\* the first mount that covers the path answers for it
mount_for_First(path) ==
    {i \in DOMAIN mounts :
        /\ path_starts_with(path, mounts[i].path)
        /\ \A j \in 1 .. i - 1 : ~ path_starts_with(path, mounts[j].path)}

\* the mount with the longest mount point covering the path, if any
mount_for(path) ==
    {i \in DOMAIN mounts :
        /\ path_starts_with(path, mounts[i].path)
        /\ \A j \in DOMAIN mounts :
              path_starts_with(path, mounts[j].path) => Len(mounts[j].path) <= Len(mounts[i].path)}

\* a file system's own operations, as the VFS calls them
Nodes(fs) ==
    CASE fs = RootFs -> [i \in 1 .. image.count - 1 |-> image.entries[i]]
      [] fs = DevFs -> [i \in DOMAIN registry |->
                          [parent |-> Root, name |-> NameOf(registry[i]), directory |-> FALSE]]
      [] OTHER -> volumes[fs].nodes
IsDirectory(fs, id) == id # Root => Nodes(fs)[id].directory
Children(fs, id) == LET nodes == Nodes(fs) IN {c \in DOMAIN nodes : nodes[c].parent = id}
lookup(fs, id, name) ==
    CASE fs = RootFs -> first_named(id, name)
      [] fs = DevFs -> {c \in Children(fs, id) : Nodes(fs)[c].name = name}
      [] OTHER -> {c \in Children(fs, id) : Fold(Nodes(fs)[c].name) = Fold(name)}
writable(fs) == fs \in Slots /\ volumes[fs].writable

\* the nodes reached from a tree's root along components: one or none
walk(fs, components) ==
    LET at[n \in 0 .. Len(components)] ==
            IF n = 0 THEN {Root}
            ELSE UNION {lookup(fs, id, components[n]) : id \in {i \in at[n - 1] : IsDirectory(fs, i)}}
    IN  at[Len(components)]

\* stat(): the node a path names, with its file system; empty when it fails
stat(path) ==
    UNION {{Node(mounts[i].fs, id, path) :
               id \in walk(mounts[i].fs, SubSeq(path, Len(mounts[i].path) + 1, Len(path)))} :
           i \in mount_for(path)}

Exists(path) == stat(path) # {}

\* nested_mount(): a mount directly inside the directory
nested_mount(path, mount) == path_starts_with(mount.path, path) /\ Len(mount.path) = Len(path) + 1

mount_as_child(mount) == leaf(mount.path)

\* list() of a directory: the names in it, then those of the mounts inside it
list(node) ==
    {Nodes(node.fs)[c].name : c \in Children(node.fs, node.id)}
    \cup {mount_as_child(mounts[i]) : i \in {j \in DOMAIN mounts : nested_mount(node.path, mounts[j])}}

\* parent_of(): the directory a path's last component is in
parent_of(path) ==
    {p \in stat(remove_last_component(path)) : path # <<>> /\ IsDirectory(p.fs, p.id)}

covers_mount(path) == \E i \in DOMAIN mounts : path_starts_with(mounts[i].path, path)

\* only the path itself is looked for, not what is open below it
covers_open_file_Exact(path) == \E d \in Open : files[d].path = path

covers_open_file(path) == \E d \in Open : path_starts_with(files[d].path, path)
-----------------------------------------------------------------------------
\* vfs::initialize()
InitVfs ==
    /\ mounts = <<>>
    /\ files = [d \in Descriptors |-> Closed]
    /\ volumes = [s \in Slots |-> NoVolume]

\* mount(): the first is at "/", every other in a directory that is there
Mountable(path) ==
    /\ Len(mounts) < max_mounts
    /\ \A i \in DOMAIN mounts : mounts[i].path # path
    /\ IF mounts = <<>> THEN path = <<>>
       ELSE \E point \in stat(remove_last_component(path)) : IsDirectory(point.fs, point.id)

Busy(fs) == \E d \in Open : files[d].fs = fs

\* unmount(): the last entry moves into the slot
Unmounted(fs) ==
    LET i == CHOOSE i \in DOMAIN mounts : mounts[i].fs = fs
    IN  SubSeq([mounts EXCEPT ![i] = mounts[Len(mounts)]], 1, Len(mounts) - 1)

\* FileSystem::create(), refused for a name that is there and on a full volume
create(fs, id, name, parent, directory) ==
    /\ writable(fs)
    /\ lookup(fs, parent, name) = {}
    /\ id \in Room \ DOMAIN Nodes(fs)
    /\ volumes' = [volumes EXCEPT ![fs].nodes =
                   [n \in DOMAIN @ \cup {id} |->
                       IF n = id THEN [parent |-> parent, name |-> name, directory |-> directory]
                                 ELSE @[n]]]

\* the first free entry of the table; a full one refuses the descriptor
Allocated(node) ==
    LET free == {d \in Descriptors : ~ files[d].used}
    IN  files' = IF free = {} THEN files
                 ELSE [files EXCEPT ![CHOOSE d \in free : \A e \in free : d <= e] = node]

\* open() of a file that is there
open(path) ==
    \E node \in stat(path) :
        /\ ~ IsDirectory(node.fs, node.id)
        /\ Allocated(node)
        /\ UNCHANGED <<mounts, volumes>>

\* open() with Create of one that is not: it is created before a descriptor
\* is looked for
open_create(path) ==
    /\ ~ Exists(path)
    /\ \E parent \in parent_of(path), id \in Room :
          /\ create(parent.fs, id, leaf(path), parent.id, FALSE)
          /\ Allocated(Node(parent.fs, id, path))
    /\ UNCHANGED mounts

close(d) ==
    /\ files[d].used
    /\ files' = [files EXCEPT ![d] = Closed]
    /\ UNCHANGED <<mounts, volumes>>

make_directory(path) ==
    /\ ~ Exists(path)
    /\ \E parent \in parent_of(path), id \in Room :
          create(parent.fs, id, leaf(path), parent.id, TRUE)
    /\ UNCHANGED <<mounts, files>>

remove(path) ==
    \E parent \in parent_of(path), node \in stat(path) :
        /\ ~ covers_mount(path) /\ ~ covers_open_file(path)
        /\ node.fs = parent.fs
        /\ writable(parent.fs)
        /\ \E id \in lookup(parent.fs, parent.id, leaf(path)) :
              /\ Children(parent.fs, id) = {}
              /\ volumes' = [volumes EXCEPT ![parent.fs].nodes = [n \in DOMAIN @ \ {id} |-> @[n]]]
        /\ UNCHANGED <<mounts, files>>

\* a directory may be moved below itself
Inside_Never(to, from) == FALSE

Inside(to, from) == path_starts_with(to, from)

rename(from, to) ==
    \E from_parent \in parent_of(from), to_parent \in parent_of(to), node \in stat(from) :
        /\ from # to
        /\ ~ Exists(to)
        /\ ~ covers_mount(from) /\ ~ covers_open_file(from)
        /\ node.fs = from_parent.fs /\ to_parent.fs = from_parent.fs
        /\ ~ Inside(to, from)
        /\ writable(from_parent.fs)
        /\ lookup(to_parent.fs, to_parent.id, leaf(to)) = {}
        /\ \E id \in lookup(from_parent.fs, from_parent.id, leaf(from)) :
              volumes' = [volumes EXCEPT ![from_parent.fs].nodes =
                            [@ EXCEPT ![id].parent = to_parent.id, ![id].name = leaf(to)]]
        /\ UNCHANGED <<mounts, files>>

\* The calls that open and close files and change trees.
Operations ==
    \/ \E path \in Paths : open(path) \/ open_create(path) \/ make_directory(path) \/ remove(path)
    \/ \E d \in Descriptors : close(d)
    \/ \E from \in {p \in Paths : Exists(p)}, to \in Paths : rename(from, to)
-----------------------------------------------------------------------------
\* A set of nodes that holds the parent of each of its nodes, the root aside.
UpwardClosed(t, S) == \A id \in S : t[id].parent \in S \cup {Root}

\* What is open stays where it is (covers_open_file): no step deletes, moves
\* or renames the node a descriptor names, nor a directory above it.
OpenNodesStay ==
    [][\A d \in {e \in Open : files[e].fs \in Slots} :
          LET nodes == volumes[files[d].fs].nodes
              after == volumes'[files[d].fs].nodes
              above == CHOOSE S \in SUBSET DOMAIN nodes :
                          /\ files[d].id \in S /\ UpwardClosed(nodes, S)
                          /\ \A T \in SUBSET S :
                                files[d].id \in T /\ UpwardClosed(nodes, T) => T = S
          IN  \A id \in above : id \in DOMAIN after /\ after[id] = nodes[id]]_vfs

\* Nothing is cut off: what a descriptor names is a file of a volume that is still
\* mounted (unmount); and in every volume each parent is a directory of the tree and no
\* set of nodes has all its parents within itself (rename).
TreesWhole ==
    /\ \A d \in Open :
          /\ \E i \in DOMAIN mounts : mounts[i].fs = files[d].fs
          /\ files[d].id \in DOMAIN Nodes(files[d].fs)
          /\ ~ IsDirectory(files[d].fs, files[d].id)
    /\ \A fs \in Slots :
          LET nodes == volumes[fs].nodes
          IN  /\ \A id \in DOMAIN nodes :
                    nodes[id].parent \in DOMAIN nodes \cup {Root} /\ IsDirectory(fs, nodes[id].parent)
              /\ \A S \in SUBSET DOMAIN nodes :
                    S # {} => \E id \in S : nodes[id].parent \notin S

\* A directory lists what can be reached in it (list, mount_for), however many
\* mounts cover it and in whatever order unmounting has left the table: a mount
\* point answers for its own path, every name listed resolves, and every path that
\* resolves is listed by its directory, mounts included.
ListingsTrue ==
    /\ \A i \in DOMAIN mounts : {n.fs : n \in stat(mounts[i].path)} = {mounts[i].fs}
    /\ \A path \in Paths : \A node \in stat(path) :
          /\ IsDirectory(node.fs, node.id) =>
                \A name \in list(node) : Exists(Append(path, name))
          /\ path # <<>> => \A parent \in parent_of(path) : leaf(path) \in list(parent)
==============================================================================
