----------------------------- MODULE Vmcoreinfo -----------------------------
(***************************************************************************)
(* What makedumpfile knows of the kernel: addresses of symbols, sizes,     *)
(* offsets, lengths of arrays and numbers.  It comes from vmlinux (-x),    *)
(* from a text file (-i) that an earlier run wrote (-g), and from the note *)
(* of the vmcore.                                                          *)
(*                                                                         *)
(* An item is <<kind, name>>.  A table holds the items that are known, and *)
(* for each one where its value comes from and the offset (the kernel's    *)
(* random displacement) that was added to it.  What a table lacks is       *)
(* NOT_FOUND.                                                              *)
(*   k      a vmlinux: has (its items), roots (the array of mem_section    *)
(*          has one element per root), dwarf (its debug data can be read), *)
(*          x86 (registers have names with an e), version                  *)
(*   note   a vmcoreinfo: lines, bad (lines that do not parse), header     *)
(*          (OSRELEASE and PAGESIZE are there), kaslr (KERNELOFFSET, or 0) *)
(*   info   tbl, useCount (flag_use_count), printk (the flag_use_printk_*  *)
(*          flags), kaslr (kaslr_offset), ok (no function returned FALSE)  *)
(***************************************************************************)
EXTENDS Integers, FiniteSets, TLC

Start == [tbl |-> << >>, useCount |-> FALSE, printk |-> "log", kaslr |-> 0, ok |-> TRUE]

Of(kind, names) == {kind} \X names

Known(tbl, kind, name) == <<kind, name>> \in DOMAIN tbl

-----------------------------------------------------------------------------
(***************************************************************************)
(* vmlinux.  Get looks names up, each under the name called gives it.      *)
(***************************************************************************)
SymbolsFetched ==
    {"mem_map", "vmem_map", "mem_section", "pkmap_count", "pkmap_count_next", "system_utsname",
     "init_uts_ns", "_stext", "swapper_pg_dir", "init_level4_pgt", "level4_kernel_pgt",
     "init_top_pgt", "vmlist", "vmap_area_list", "node_online_map", "node_states", "node_memblk",
     "node_data", "pgdat_list", "contig_page_data", "prb", "clear_seq", "log_buf", "log_buf_len",
     "log_end", "log_first_idx", "clear_idx", "log_next_idx", "max_pfn", "modules", "high_memory",
     "linux_banner", "bios_cpu_apicid", "x86_bios_cpu_apicid", "x86_bios_cpu_apicid_early_ptr",
     "x86_bios_cpu_apicid_early_map", "crash_notes", "__per_cpu_load", "__per_cpu_offset",
     "cpu_online_mask", "__cpu_online_mask", "kexec_crash_image", "node_remap_start_vaddr",
     "node_remap_end_vaddr", "node_remap_start_pfn", "vmemmap_list", "mmu_psize_defs",
     "mmu_vmemmap_psize", "free_huge_page", "cpu_pgd", "demote_segment_4k", "cur_cpu_spec",
     "divide_error", "idt_table", "saved_command_line", "pti_init", "kaiser_init"}

Has(k, kind, name) == <<kind, name>> \in k.has

Get(k, kind, called, kaslr) ==
    [i \in Of(kind, {n \in DOMAIN called : Has(k, kind, called[n])}) |->
        [from |-> <<kind, called[i[2]]>>, shift |-> kaslr]]

SameNames(names) == [n \in names |-> n]

SymbolIn(k, s) ==
    CASE s = "x86_bios_cpu_apicid" /\ ~Has(k, "SYMBOL", s) -> "per_cpu__x86_bios_cpu_apicid"
      [] s = "cpu_online_mask" /\ ~Has(k, "SYMBOL", s) ->
            IF Has(k, "SYMBOL", "__cpu_online_mask") THEN "__cpu_online_mask" ELSE "cpu_online_map"
      [] s = "divide_error" /\ ~Has(k, "SYMBOL", s) -> "asm_exc_divide_error"
      [] OTHER -> s

ArraysFetched ==
    {"node_data", "pgdat_list", "mem_section", "node_memblk", "__per_cpu_offset",
     "node_remap_start_pfn"}

get_symbol_info(k, kaslr) ==
    Get(k, "SYMBOL", [s \in SymbolsFetched |-> SymbolIn(k, s)], kaslr)
      @@ Get(k, "LENGTH", SameNames({a \in ArraysFetched : Has(k, "SYMBOL", a)}), 0)

SizesFetched ==
    {"page", "mem_section", "pglist_data", "zone", "free_area", "list_head", "node_memblk_s",
     "module", "module_memory", "percpu_data", "elf_prstatus", "cpumask", "user_regs_struct",
     "kexec_segment", "elf64_hdr", "vmemmap_backing", "mmu_psize_def", "cpu_spec", "pageflags",
     "nodemask_t", "cpumask_t"}

OffsetsFetched ==
    {"page.flags", "page._refcount", "page.mapping", "page._mapcount", "page.private",
     "page.compound_dtor", "page.compound_order", "page.compound_head", "folio._folio_dtor",
     "folio._folio_order", "page.lru", "mem_section.section_mem_map", "pglist_data.node_zones",
     "pglist_data.nr_zones", "pglist_data.node_mem_map", "pglist_data.node_start_pfn",
     "pglist_data.node_spanned_pages", "pglist_data.pgdat_next", "zone.free_pages",
     "zone.free_area", "zone.vm_stat", "zone.spanned_pages", "free_area.free_list",
     "list_head.next", "list_head.prev", "node_memblk_s.start_paddr", "node_memblk_s.size",
     "node_memblk_s.nid", "vm_struct.addr", "vmap_area.va_start", "vmap_area.list", "module.strtab",
     "module.symtab", "module.num_symtab", "module.list", "module.name", "elf_prstatus.pr_reg",
     "kimage.segment", "kexec_segment.mem", "elf64_hdr.e_phnum", "elf64_hdr.e_phentsize",
     "elf64_hdr.e_phoff", "elf64_phdr.p_type", "elf64_phdr.p_offset", "elf64_phdr.p_paddr",
     "elf64_phdr.p_memsz", "vmemmap_backing.phys", "vmemmap_backing.virt_addr",
     "vmemmap_backing.list", "mmu_psize_def.shift", "cpu_spec.mmu_features", "uts_namespace.name"}

NumbersFetched ==
    {"NR_FREE_PAGES", "N_ONLINE", "pgtable_l5_enabled", "PG_lru", "PG_private", "PG_swapcache",
     "PG_swapbacked", "PG_buddy", "PG_slab", "PG_hwpoison", "PG_hugetlb", "PG_head_mask",
     "HUGETLB_PAGE_DTOR"}

OffsetIn(k, m) ==
    CASE m = "page._refcount" /\ ~Has(k, "OFFSET", m) -> "page._count"
      [] m = "page.mapping" /\ ~Has(k, "OFFSET", m)   -> "the union in page"
      [] OTHER -> m

\* The flags of a page: 1 << PG_head when the enumeration has no PG_head_mask.
NumberIn(k, n) ==
    IF n # "PG_head_mask" \/ Has(k, "NUMBER", n) THEN n
    ELSE IF Has(k, "NUMBER", "PG_head") THEN "PG_head" ELSE "PG_compound"

\* Offsets in struct module that are sums when the members moved to
\* module_memory or to a layout, and are then never NOT_FOUND.
ModuleOffsets(k) ==
    [i \in Of("OFFSET", {"module.module_core", "module.core_size",
                         "module.module_init", "module.init_size"}) |->
        [from |-> IF Has(k, "SIZE", "module_memory") THEN <<"SUM", "module.mem">>
                  ELSE IF i \in k.has THEN i ELSE <<"SUM", "module_layout">>,
         shift |-> 0]]

Registers ==
    {"bx", "cx", "dx", "si", "di", "bp", "ax", "ds", "es", "fs", "gs", "orig_ax", "ip", "cs",
     "flags", "sp", "ss"}

Registers64 == {"r15", "r14", "r13", "r12", "r11", "r10", "r9", "r8", "fs_base", "gs_base"}

\* x86 tries the name with an e (EREG); without the struct, the program's own.
RegisterOffsets(k) ==
    [r \in {r \in Of("REG", Registers \cup (IF k.x86 THEN {} ELSE Registers64)) :
                 ~Has(k, "SIZE", "user_regs_struct") \/ r \in k.has
                   \/ (k.x86 /\ <<"EREG", r[2]>> \in k.has)} |->
        [from |-> IF ~Has(k, "SIZE", "user_regs_struct") THEN <<"OWN", r[2]>>
                  ELSE IF r \in k.has THEN r ELSE <<"EREG", r[2]>>,
         shift |-> 0]]

-----------------------------------------------------------------------------
(***************************************************************************)
(* The kernel log has three layouts.                                       *)
(***************************************************************************)
RingSizes == {"prb_desc", "printk_info", "latched_seq"}

RingOffsets ==
    {"printk_ringbuffer.desc_ring", "printk_ringbuffer.text_data_ring", "prb_desc_ring.count_bits",
     "prb_desc_ring.descs", "prb_desc_ring.infos", "prb_desc_ring.head_id", "prb_desc_ring.tail_id",
     "prb_desc.state_var", "prb_desc.text_blk_lpos", "prb_data_blk_lpos.begin",
     "prb_data_blk_lpos.next", "prb_data_ring.size_bits", "prb_data_ring.data",
     "printk_info.ts_nsec", "printk_info.text_len", "printk_info.caller_id",
     "atomic_long_t.counter", "latched_seq.val"}

LogOffsets == {"printk_log.ts_nsec", "printk_log.len", "printk_log.text_len", "printk_log.caller_id"}

\* The names of struct printk_log before it was called so.
OldLog ==
    ("printk_log" :> "log") @@ ("printk_log.ts_nsec" :> "log.ts_nsec")
      @@ ("printk_log.len" :> "log.len") @@ ("printk_log.text_len" :> "log.text_len")

Layout(ringbuffer, printk_log) ==
    IF ringbuffer THEN "ringbuffer" ELSE IF printk_log THEN "printk_log" ELSE "log"

LayoutItems(printk) ==
    CASE printk = "ringbuffer" -> Of("SIZE", RingSizes \cup {"printk_ringbuffer"})
                                    \cup Of("OFFSET", RingOffsets)
      [] printk = "printk_log" -> Of("SIZE", {"printk_log"}) \cup Of("OFFSET", LogOffsets)
      [] printk = "log" -> {i \in Of("SIZE", DOMAIN OldLog) \cup Of("OFFSET", DOMAIN OldLog) :
                               (i[1] = "SIZE") = (i[2] = "printk_log")}

PrintkIn(k) == Layout(Has(k, "SIZE", "printk_ringbuffer"), Has(k, "SIZE", "printk_log"))

PrintkInfo(k) ==
    LET names(kind) == {i[2] : i \in {j \in LayoutItems(PrintkIn(k)) : j[1] = kind}}
        get(kind) == IF PrintkIn(k) = "log" THEN Get(k, kind, [n \in names(kind) |-> OldLog[n]], 0)
                     ELSE Get(k, kind, SameNames(names(kind)), 0)
    IN  get("SIZE") @@ get("OFFSET") @@ Get(k, "SIZE", SameNames({"printk_log"}), 0)

get_structure_info(k) ==
    Get(k, "SIZE", SameNames(SizesFetched), 0)
      @@ Get(k, "OFFSET", [m \in OffsetsFetched |-> OffsetIn(k, m)], 0)
      @@ Get(k, "NUMBER", [n \in NumbersFetched |-> NumberIn(k, n)], 0)
      @@ Get(k, "LENGTH", SameNames({"zone.free_area", "free_area.free_list", "kimage.segment"}), 0)
      @@ ModuleOffsets(k) @@ RegisterOffsets(k) @@ PrintkInfo(k)

\* get_symbol_info(), get_structure_info(), get_srcfile_info().
Fetch(k, kaslr) ==
    [tbl |-> get_symbol_info(k, kaslr) @@ get_structure_info(k),
     useCount |-> ~Has(k, "OFFSET", "page._refcount"), printk |-> PrintkIn(k),
     kaslr |-> kaslr, ok |-> k.dwarf]

-----------------------------------------------------------------------------
(***************************************************************************)
(* The memory model, from what is known.                                   *)
(***************************************************************************)
is_sparsemem_extreme(tbl, roots) == Known(tbl, "LENGTH", "mem_section") => roots

get_mem_type(tbl, roots) ==
    LET sym(s) == Known(tbl, "SYMBOL", s)
        size(s) == Known(tbl, "SIZE", s)
        off(m) == Known(tbl, "OFFSET", m)
        len(a) == Known(tbl, "LENGTH", a)
    IN  IF ~(size("page") /\ off("page.flags") /\ off("page._refcount") /\ off("page.mapping"))
        THEN "NOT_FOUND"
        ELSE IF /\ \/ sym("node_data") /\ len("node_data")
                   \/ sym("pgdat_list") /\ (off("pglist_data.pgdat_next") \/ len("pgdat_list"))
                /\ size("pglist_data") /\ off("pglist_data.node_mem_map")
                /\ off("pglist_data.node_start_pfn") /\ off("pglist_data.node_spanned_pages")
        THEN "DISCONTIGMEM"
        ELSE IF sym("mem_section") /\ size("mem_section") /\ off("mem_section.section_mem_map")
        THEN IF is_sparsemem_extreme(tbl, roots) THEN "SPARSEMEM_EX" ELSE "SPARSEMEM"
        ELSE IF sym("mem_map") THEN "FLATMEM" ELSE "NOT_FOUND"

-----------------------------------------------------------------------------
(***************************************************************************)
(* -g: a text file.                                                        *)
(***************************************************************************)
SymbolsWritten ==
    {"mem_map", "vmem_map", "mem_section", "pkmap_count", "pkmap_count_next", "system_utsname",
     "init_uts_ns", "_stext", "swapper_pg_dir", "init_level4_pgt", "level4_kernel_pgt",
     "init_top_pgt", "vmlist", "vmap_area_list", "node_online_map", "node_states", "node_data",
     "pgdat_list", "contig_page_data", "prb", "clear_seq", "log_buf", "log_buf_len", "log_end",
     "log_first_idx", "clear_idx", "log_next_idx", "max_pfn", "high_memory",
     "node_remap_start_vaddr", "node_remap_end_vaddr", "node_remap_start_pfn", "vmemmap_list",
     "mmu_psize_defs", "mmu_vmemmap_psize", "cpu_pgd", "demote_segment_4k", "cur_cpu_spec",
     "free_huge_page"}

SizesWritten ==
    {"page", "mem_section", "pglist_data", "zone", "free_area", "list_head", "node_memblk_s",
     "nodemask_t", "pageflags", "vmemmap_backing", "mmu_psize_def"}

OffsetsWritten ==
    {"page.flags", "page._refcount", "page.mapping", "page.lru", "page._mapcount", "page.private",
     "page.compound_dtor", "page.compound_order", "page.compound_head", "folio._folio_dtor",
     "folio._folio_order", "mem_section.section_mem_map", "pglist_data.node_zones",
     "pglist_data.nr_zones", "pglist_data.node_mem_map", "pglist_data.node_start_pfn",
     "pglist_data.node_spanned_pages", "pglist_data.pgdat_next", "zone.free_pages",
     "zone.free_area", "zone.vm_stat", "zone.spanned_pages", "free_area.free_list",
     "list_head.next", "list_head.prev", "node_memblk_s.start_paddr", "node_memblk_s.size",
     "node_memblk_s.nid", "vm_struct.addr", "vmap_area.va_start", "vmap_area.list",
     "vmemmap_backing.phys", "vmemmap_backing.virt_addr", "vmemmap_backing.list",
     "mmu_psize_def.shift", "cpu_spec.mmu_features", "uts_namespace.name"}

NumbersWritten ==
    {"NR_FREE_PAGES", "N_ONLINE", "pgtable_l5_enabled", "sme_mask", "PG_lru", "PG_private",
     "PG_head_mask", "PG_swapcache", "PG_swapbacked", "PG_buddy", "PG_slab", "PG_hwpoison",
     "PG_hugetlb", "PAGE_BUDDY_MAPCOUNT_VALUE", "PAGE_OFFLINE_MAPCOUNT_VALUE",
     "PAGE_UNACCEPTED_MAPCOUNT_VALUE", "phys_base", "KERNEL_IMAGE_SIZE", "HUGETLB_PAGE_DTOR",
     "VA_BITS", "PHYS_OFFSET", "kimage_voffset"}

\* An array that is a symbol has its length written with the symbol.
LengthsWritten(tbl) ==
    {a \in {"node_data", "pgdat_list", "mem_section", "node_memblk", "node_remap_start_pfn"} :
        Known(tbl, "SYMBOL", a)} \cup {"zone.free_area", "free_area.free_list"}

\* Variant: an old page._count is written under its new name.
LabelNew(info, i) ==
    IF info.printk = "log" /\ i \in LayoutItems("log") THEN <<i[1], OldLog[i[2]]>> ELSE i

Label(info, i) ==
    IF i = <<"OFFSET", "page._refcount">> /\ info.useCount THEN <<"OFFSET", "page._count">>
    ELSE IF info.printk = "log" /\ i \in LayoutItems("log") THEN <<i[1], OldLog[i[2]]>>
    ELSE i

write_vmcoreinfo_data(info) ==
    LET items == {i \in Of("SYMBOL", SymbolsWritten) \cup Of("SIZE", SizesWritten)
                        \cup Of("OFFSET", OffsetsWritten) \cup Of("NUMBER", NumbersWritten)
                        \cup Of("LENGTH", LengthsWritten(info.tbl)) \cup LayoutItems(info.printk) :
                      i \in DOMAIN info.tbl}
        of(l) == CHOOSE i \in items : Label(info, i) = l
    IN  [lines |-> [l \in {Label(info, i) : i \in items} |-> info.tbl[of(l)]],
         bad |-> {}, header |-> TRUE, kaslr |-> info.kaslr]

generate_vmcoreinfo(k) ==
    LET info == Fetch(k, 0)
    IN  [ok |-> /\ info.ok
                /\ Known(info.tbl, "SYMBOL", "system_utsname") \/ Known(info.tbl, "SYMBOL", "init_uts_ns")
                /\ get_mem_type(info.tbl, k.roots) # "NOT_FOUND",
         note |-> write_vmcoreinfo_data(info)]

-----------------------------------------------------------------------------
(***************************************************************************)
(* Reading a vmcoreinfo: only what is not known yet.  A line that does not *)
(* parse is an error when it is looked up.                                 *)
(***************************************************************************)
SymbolsRead ==
    {"mem_map", "vmem_map", "mem_section", "pkmap_count", "pkmap_count_next", "system_utsname",
     "init_uts_ns", "_stext", "swapper_pg_dir", "init_level4_pgt", "level4_kernel_pgt",
     "init_top_pgt", "vmlist", "vmap_area_list", "node_online_map", "node_states", "node_data",
     "pgdat_list", "contig_page_data", "prb", "clear_seq", "log_buf", "log_buf_len", "log_end",
     "log_first_idx", "clear_idx", "log_next_idx", "max_pfn", "high_memory",
     "node_remap_start_vaddr", "node_remap_end_vaddr", "node_remap_start_pfn", "vmemmap_list",
     "mmu_psize_defs", "mmu_vmemmap_psize", "cpu_pgd", "demote_segment_4k", "cur_cpu_spec",
     "free_huge_page"}

SizesRead ==
    {"page", "mem_section", "pglist_data", "zone", "free_area", "list_head", "node_memblk_s",
     "nodemask_t", "pageflags", "vmemmap_backing", "mmu_psize_def"}

OffsetsRead ==
    {"page.flags", "page._refcount", "page.mapping", "page.lru", "page._mapcount", "page.private",
     "page.compound_dtor", "page.compound_order", "page.compound_head", "folio._folio_dtor",
     "folio._folio_order", "mem_section.section_mem_map", "pglist_data.node_zones",
     "pglist_data.nr_zones", "pglist_data.node_mem_map", "pglist_data.node_start_pfn",
     "pglist_data.node_spanned_pages", "pglist_data.pgdat_next", "zone.free_pages",
     "zone.free_area", "zone.vm_stat", "zone.spanned_pages", "free_area.free_list",
     "list_head.next", "list_head.prev", "node_memblk_s.start_paddr", "node_memblk_s.size",
     "node_memblk_s.nid", "vm_struct.addr", "vmap_area.va_start", "vmap_area.list",
     "vmemmap_backing.phys", "vmemmap_backing.virt_addr", "vmemmap_backing.list",
     "mmu_psize_def.shift", "cpu_spec.mmu_features", "uts_namespace.name"}

NumbersRead ==
    {"NR_FREE_PAGES", "N_ONLINE", "pgtable_l5_enabled", "sme_mask", "PG_lru", "PG_private",
     "PG_head_mask", "PG_swapcache", "PG_swapbacked", "PG_slab", "PG_buddy", "PG_hwpoison",
     "PG_hugetlb", "SECTION_SIZE_BITS", "MAX_PHYSMEM_BITS", "PAGE_BUDDY_MAPCOUNT_VALUE",
     "PAGE_HUGETLB_MAPCOUNT_VALUE", "PAGE_OFFLINE_MAPCOUNT_VALUE", "PAGE_SLAB_MAPCOUNT_VALUE",
     "PAGE_UNACCEPTED_MAPCOUNT_VALUE", "phys_base", "KERNEL_IMAGE_SIZE", "VA_BITS", "TCR_EL1_T1SZ",
     "HUGETLB_PAGE_DTOR", "RADIX_MMU", "VMALLOC_START", "PHYS_OFFSET", "kimage_voffset",
     "phys_ram_base", "PAGE_OFFSET", "VMALLOC_END", "VMEMMAP_START", "VMEMMAP_END", "MODULES_VADDR",
     "MODULES_END", "KERNEL_LINK_ADDR", "va_kernel_pa_offset"}

LengthsRead ==
    {"node_data", "pgdat_list", "mem_section", "node_memblk", "zone.free_area", "free_area.free_list",
     "node_remap_start_pfn"}

ItemsRead(printk) ==
    Of("SYMBOL", SymbolsRead) \cup Of("SIZE", SizesRead \cup {"printk_log", "printk_ringbuffer"})
      \cup Of("OFFSET", OffsetsRead) \cup Of("LENGTH", LengthsRead) \cup Of("NUMBER", NumbersRead)
      \cup LayoutItems(printk)

\* The line an item is read from: page._refcount may be called _count, and
\* the members of the log are looked up under the names of its layout.
LineOf(note, printk, i) ==
    IF i = <<"OFFSET", "page._refcount">> /\ i \notin DOMAIN note.lines THEN <<"OFFSET", "page._count">>
    ELSE IF printk = "log" /\ i \in LayoutItems("log") THEN <<i[1], OldLog[i[2]]>>
    ELSE i

read_vmcoreinfo(info, note, text) ==
    LET there(kind, n) == Known(info.tbl, kind, n) \/ Known(note.lines, kind, n)
        printk == Layout(there("SIZE", "printk_ringbuffer"), there("SIZE", "printk_log"))
        wanted == ItemsRead(printk) \ DOMAIN info.tbl
        found == {i \in wanted : LineOf(note, printk, i) \in DOMAIN note.lines}
        value(i) == note.lines[LineOf(note, printk, i)]
    IN  [info EXCEPT
           !.tbl = @ @@ [i \in found |->
                          [value(i) EXCEPT !.shift = @ + (IF i[1] = "SYMBOL" /\ text THEN info.kaslr ELSE 0)]],
           !.useCount = ~there("OFFSET", "page._refcount"),
           !.printk = printk,
           !.ok = @ /\ note.header /\ {LineOf(note, printk, i) : i \in wanted} \cap note.bad = {}]

-----------------------------------------------------------------------------
(***************************************************************************)
(* initial(): the sources in their order.  r is a run: option, k, file,    *)
(* note (<< >> when the vmcore has none, else << note >>), more (a dump    *)
(* level above the one for zero pages), low (see below), version           *)
(* (kernel_version, which is 0 unless --mem-usage has asked for it).       *)
(***************************************************************************)
HasNote(r) == r.note # << >>

\* Variant: only when the option gives no symbols.
find_kaslr_offsets_alone(r) == IF HasNote(r) /\ r.option = "none" THEN r.note[1].kaslr ELSE 0

\* find_kaslr_offsets(): from the note of the vmcore.
find_kaslr_offsets(r) == IF HasNote(r) THEN r.note[1].kaslr ELSE 0

FromOption(r) ==
    CASE r.option = "-i" ->
            read_vmcoreinfo([Start EXCEPT !.kaslr = find_kaslr_offsets(r)], r.file, TRUE)
      [] r.option = "-x" -> Fetch(r.k, find_kaslr_offsets(r))
      [] r.option = "none" -> [Start EXCEPT !.ok = HasNote(r) \/ ~r.more]

FromNote(r, info) == IF info.ok /\ HasNote(r) THEN read_vmcoreinfo(info, r.note[1], FALSE) ELSE info

Default(tbl, items) == tbl @@ [i \in items |-> [from |-> <<"DEFAULT", i[2]>>, shift |-> 0]]

\* PG_swapbacked is guessed when PG_swapcache is below PG_private, which the
\* original PG_swapcache never is; low says that the kernel's one is.
get_value_for_old_linux(tbl, low, version) ==
    LET numbers == {"PG_lru", "PG_private", "PG_swapcache", "PG_slab", "PG_head_mask"}
                     \cup (IF low /\ Known(tbl, "NUMBER", "PG_swapcache") THEN {"PG_swapbacked"} ELSE {})
                     \cup (IF version >= 38 THEN {"PAGE_BUDDY_MAPCOUNT_VALUE"} ELSE {})
    IN  Default(tbl, Of("NUMBER", numbers)
                       \cup (IF version >= 27 THEN Of("SIZE", {"pageflags"}) ELSE {}))

initial(r) ==
    LET info == FromNote(r, FromOption(r))
    IN  IF r.option = "none" /\ ~HasNote(r) THEN info
        ELSE [info EXCEPT !.tbl = get_value_for_old_linux(@, r.low, r.version)]
=============================================================================
