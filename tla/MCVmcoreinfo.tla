---------------------------- MODULE MCVmcoreinfo ----------------------------
(***************************************************************************)
(* Kernels that have all but a few of the items makedumpfile looks for,    *)
(* and the sources a dump may be started with.  A kernel is described by   *)
(* what it lacks and what it has besides.                                  *)
(***************************************************************************)
EXTENDS Vmcoreinfo

Base == Of("SYMBOL", SymbolsFetched)
          \cup Of("LENGTH", ArraysFetched \cup {"zone.free_area", "free_area.free_list", "kimage.segment"})
          \cup Of("SIZE", SizesFetched \ {"module_memory"}) \cup Of("OFFSET", OffsetsFetched)
          \cup Of("NUMBER", NumbersFetched) \cup Of("REG", Registers \cup Registers64)

\* The items of the log, by the name the kernel has for them.
LogItems(p) ==
    IF p = "log" THEN {<< i[1], OldLog[i[2]] >> : i \in LayoutItems(p)} ELSE LayoutItems(p)

Described(less, more, log, roots, dwarf) ==
    [less |-> less, more |-> more, log |-> log, roots |-> roots, dwarf |-> dwarf]

KernelOf(d) ==
    [has |-> (Base \ d.less) \cup d.more \cup LogItems(d.log), roots |-> d.roots, dwarf |-> d.dwarf,
     x86 |-> FALSE, version |-> 50]

Nodes == {{}, {"node_data"}, {"node_data", "pgdat_list"}, {"node_data", "pgdat_list", "mem_section"}}

Kernels ==
    {Described({i}, {}, p, TRUE, TRUE) : i \in Base, p \in {"log", "printk_log", "ringbuffer"}}
    \cup {Described(Of("SYMBOL", a) \cup b, c, "log", x, d)
            : a \in Nodes,
              b \in {{}, {<< "OFFSET", "page._refcount" >>}, {<< "OFFSET", "page.mapping" >>},
                     {<< "NUMBER", "PG_head_mask" >>}},
              c \in {{}, {<< "OFFSET", "page._count" >>, << "OFFSET", "the union in page" >>,
                          << "NUMBER", "PG_compound" >>}},
              x \in BOOLEAN, d \in BOOLEAN}

\* -g and then -i.
WriteAndRead(d) ==
    LET g == generate_vmcoreinfo(KernelOf(d))
    IN  [ok |-> g.ok, back |-> read_vmcoreinfo(Start, g.note, FALSE)]

SameAfter(d, a) ==
    LET f == Fetch(KernelOf(d), 0)
    IN  a.ok => /\ \A i \in ItemsRead(f.printk) \cap DOMAIN f.tbl :
                       i \in DOMAIN a.back.tbl /\ a.back.tbl[i] = f.tbl[i]
                /\ a.back.printk = f.printk /\ a.back.useCount = f.useCount /\ a.back.ok
                /\ get_mem_type(a.back.tbl, d.roots) = get_mem_type(f.tbl, d.roots)

-----------------------------------------------------------------------------
Some == {Described(less, {}, "log", TRUE, TRUE) :
            less \in {{}, Of("SYMBOL", SymbolsFetched), Of("NUMBER", NumbersFetched), Of("SYMBOL", {"log_end"})}}

\* shift is the displacement by KASLR; a note has every number.
Sources ==
    [option : {"-i", "-x", "none"}, kernel : Some, note : {<< >>} \cup {<< d >> : d \in Some},
     shift : {0, 7}, more : BOOLEAN, low : BOOLEAN, version : {0, 50}]

NoteOf(d, shift) ==
    LET n == write_vmcoreinfo_data(Fetch(KernelOf(d), shift))
    IN  [n EXCEPT !.lines = @ @@ [i \in Of("NUMBER", NumbersRead) |-> [from |-> i, shift |-> 0]]]

\* The run of initial() that a description stands for.
RunOf(s) ==
    LET k == KernelOf(s.kernel)
    IN  [option |-> s.option, k |-> k, file |-> write_vmcoreinfo_data(Fetch(k, 0)),
         note |-> IF s.note = << >> THEN << >> ELSE << NoteOf(s.note[1], s.shift) >>,
         more |-> s.more, low |-> s.low, version |-> s.version]

Displaced(s, a) ==
    LET r == RunOf(s)
        by == IF HasNote(r) THEN r.note[1].kaslr ELSE 0
    IN  \A i \in DOMAIN a.tbl : i[1] = "SYMBOL" => a.tbl[i].shift = by

NotHidden(s, a) ==
    LET r == RunOf(s)
    IN  HasNote(r) => \A i \in Of("NUMBER", NumbersRead) :
                          i \in DOMAIN r.note[1].lines => a.tbl[i].from[1] # "DEFAULT"
=============================================================================
