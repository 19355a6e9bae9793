------------------------------- MODULE MCBoot -------------------------------
(* Pages of two bytes in an address space of 16.  BIOS machines with tables  *)
(* of up to three entries that overlap, touch, nest, are unaligned, empty,   *)
(* invalid or reach past the last address; device trees with one or two      *)
(* banks, odd cell counts, reservations and no memory node; Apple machines;  *)
(* UEFI machines whose kernel has two segments, none, or does not fit.       *)
EXTENDS Boot

Entry(t, s, n, ok) == [type |-> t, base |-> s, length |-> n, valid |-> ok]

UsableEntries == {Entry(1, 0, 14, TRUE), Entry(1, 1, 6, TRUE), Entry(1, 6, 7, TRUE), Entry(1, 8, 8, TRUE), Entry(1, 4, 0, TRUE)}
OtherEntries == {Entry(2, 5, 2, TRUE), Entry(3, 8, 2, TRUE), Entry(4, 0, 4, TRUE), Entry(5, 11, 4, TRUE), Entry(2, 8, 6, FALSE)}
Tables == {<<a, b>> : a \in UsableEntries \cup OtherEntries, b \in UsableEntries \cup OtherEntries}
          \cup {<<a, b, c>> : a \in UsableEntries, b \in OtherEntries, c \in UsableEntries \cup OtherEntries}

Bios(a, entries, e) == [kind |-> "bios", arch |-> a, entries |-> entries, kernel_start |-> 0, kernel_end |-> e]

Begin(n) == [kind |-> "begin_node", name |-> n]
Prop(n, c) == [kind |-> "property", name |-> n, cells |-> c]
EndNode == [kind |-> "end_node"]
Nop == [kind |-> "nop"]
Unknown == [kind |-> "unknown"]
Fdt(tokens, pairs, ok) ==
    [kind |-> "fdt", arch |-> "arm64", tokens |-> tokens, reservations |-> pairs, valid |-> ok,
     blob |-> 12, total_size |-> 2, kernel_start |-> 2, kernel_end |-> 3]

Trees == {
    Fdt(<<Begin(""), Begin("memory"), Prop("reg", <<0, 1, 3, 1>>), EndNode, EndNode>>, <<>>, TRUE),
    Fdt(<<Begin(""), Prop("#address-cells", <<1>>), Prop("#size-cells", <<1>>), Nop, Begin("memory"),
          Prop("reg", <<1, 3, 2, 3>>), Begin("memory"), Prop("reg", <<0, 1>>), EndNode, EndNode,
          Begin("cpus"), Prop("reg", <<0, 3>>), EndNode, EndNode>>, <<<<5, 1>>, <<0, 0>>, <<0, 15>>>>, TRUE),
    Fdt(<<Begin(""), Prop("#size-cells", <<3>>), Begin("memory"), Prop("reg", <<0, 1, 3>>), EndNode, EndNode>>, <<>>, TRUE),
    Fdt(<<Begin(""), Begin("memory"), Prop("reg", <<0, 1, 0, 0, 0, 1, 3, 0>>), EndNode, EndNode, EndNode,
          Begin(""), Begin("memory"), Prop("reg", <<0, 1, 3, 1>>)>>, <<>>, TRUE),
    Fdt(<<Begin(""), Unknown, Begin("memory"), Prop("reg", <<0, 1, 3, 1>>), EndNode, EndNode>>, <<<<4, 2>>>>, TRUE),
    Fdt(<<>>, <<>>, FALSE)}

Apple(top, actual, stride, known) ==
    [kind |-> "apple", arch |-> "arm64", revision_known |-> known, physical_base |-> 2, memory_size |-> 12,
     memory_size_actual |-> actual, top_of_kernel_data |-> top, video_base |-> 8, stride |-> stride, height |-> 2,
     device_tree |-> 11, device_tree_size |-> 1, kernel_start |-> 2, kernel_end |-> 5]

Apples == {Apple(6, 0, 1, TRUE), Apple(5, 10, 8, TRUE), Apple(15, 0, 1, TRUE), Apple(6, 0, 0, FALSE)}

Segment(load, offset, file_size, address, memory_size) ==
    [load |-> load, offset |-> offset, file_size |-> file_size, physical_address |-> address, memory_size |-> memory_size]
File(programs, entry) == [header_ok |-> TRUE, size |-> 2, programs |-> programs, entry |-> entry]
Uefi(a, file) ==
    [kind |-> "uefi", arch |-> a, file |-> file, kernel_start |-> 0, kernel_end |-> 0,
     pages |-> 0 :> "Reserved" @@ [n \in 1 .. 6 |-> "Conventional"] @@ 7 :> "MappedIo"]

Loadable == File(<<Segment(TRUE, 0, 1, 5, 1), Segment(FALSE, 9, 9, 0, 9), Segment(TRUE, 1, 1, 6, 2)>>, 5)
Uefis == {Uefi("x86_64", Loadable), Uefi("arm64", File(<<Segment(TRUE, 0, 3, 5, 3)>>, 5)),
          Uefi("arm64", File(<<Segment(TRUE, 0, 1, 4, 1)>>, 0))}

Foreign == [kind |-> "foreign", arch |-> "x86_64", kernel_start |-> 2, kernel_end |-> 5]

Programmed == {Bios("x86_64", <<Entry(1, 0, 14, TRUE), Entry(2, 5, 2, TRUE)>>, 1),
                Bios("x86_64 without NX", <<Entry(1, 0, 8, TRUE)>>, 1),
                Fdt(<<Begin(""), Begin("memory"), Prop("reg", <<0, 1, 3, 1>>), EndNode, EndNode>>, <<>>, TRUE)}

Others == {Bios("x86_64", t, 2) : t \in Tables} \cup {Bios("x86_64", <<a>>, 5) : a \in UsableEntries}
          \cup Trees \cup Apples \cup Uefis \cup {Foreign}
SmallMachines == Programmed \cup Others

SmallRequests == {[physical |-> 14, flags |-> {"Write", "Device"}], [physical |-> 4, flags |-> {"User", "Execute"}]}
LastBank == Region(6, 8, "Usable")
=============================================================================
