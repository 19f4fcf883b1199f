---------------------------- MODULE MCPageTables ----------------------------
(***************************************************************************)
(* One or two pages mapped by tables of every architecture, some of which  *)
(* cannot be read.                                                         *)
(***************************************************************************)
EXTENDS PageTables

Mmu(n) ==
    CASE n = "x86_64"      -> vtop4_x86_64(FALSE)
      [] n = "la57"        -> vtop4_x86_64(TRUE)
      [] n = "xen"         -> kvtop_xen_x86_64
      [] n = "pae"         -> vtop_x86_PAE
      [] n = "xen_pae"     -> kvtop_xen_x86
      [] n = "arm64_2"     -> vaddr_to_paddr_arm64(2)
      [] n = "arm64_3"     -> vaddr_to_paddr_arm64(3)
      [] n = "arm64_4"     -> vaddr_to_paddr_arm64(4)
      [] n = "arm"         -> vtop_arm
      [] n = "mips64"      -> vaddr_to_paddr_mips64
      [] n = "loongarch64" -> vaddr_to_paddr_loongarch64
      [] n = "riscv64_3"   -> vtop_riscv64(3)
      [] n = "riscv64_5"   -> vtop_riscv64(5)
      [] n = "sparc64_3"   -> vtop3_sparc64
      [] n = "sparc64_4"   -> vtop4_sparc64
      [] n = "ia64_3"      -> vtop3_ia64
      [] n = "ia64_4"      -> vtop4_ia64
      [] n = "xen_ia64"    -> kvtop_xen_ia64
      [] n = "ppc64_3"     -> ppc64_vtop_level4(3)
      [] n = "ppc64_4"     -> ppc64_vtop_level4(4)

Names == {"x86_64", "la57", "xen", "pae", "xen_pae", "arm64_2", "arm64_3", "arm64_4", "arm",
          "mips64", "loongarch64", "riscv64_3", "riscv64_5", "sparc64_3", "sparc64_4",
          "ia64_3", "ia64_4", "xen_ia64", "ppc64_3", "ppc64_4"}

Pages(m) ==
    {p \in {[l |-> l, vpn |-> n, frame |-> 2 ^ (l - 1) * (40 + 3 * n)] :
                l \in {1} \cup m.large, n \in 0 .. 2 ^ m.levels - 1} :
        p.vpn < 2 ^ (m.levels + 1 - p.l)}

Disjoint(p, q) == ~Inside(p, q.l, q.vpn) /\ ~Inside(q, p.l, p.vpn)

Mappings(m) ==
    {s \in {{p, q} : p \in {x \in Pages(m) : x.vpn = 0}, q \in Pages(m)} :
        \A p, q \in s : p = q \/ Disjoint(p, q)}

Walks == UNION {{[n |-> n, mapping |-> s, attr |-> a, lost |-> t] :
                    s \in Mappings(Mmu(n)), a \in {0, 1}, t \in {{}, {<< 2, 0 >>}}} : n \in Names}

\* The walk of every address.
WalkAll(c) ==
    LET m == Mmu(c.n)
        mem == MemoryOf(c.mapping, m.levels, c.attr, c.lost)
    IN  [v \in 0 .. Size(m.levels + 1) - 1 |->
            Walk(m, mem, TableFrame(m.levels, m.levels, 0), v, m.levels)]

(***************************************************************************)
(* What a walk can do: not every architecture cuts the attributes of large *)
(* pages, takes the whole offset in them, or indexes its last table right. *)
(***************************************************************************)
Supported(c) ==
    LET m == Mmu(c.n)
    IN  /\ ~m.aligned => c.attr = 0
        /\ ~m.whole => \A p \in c.mapping : p.l = 1
        /\ m.unscaled => \A p \in c.mapping : p.l > 1 \/ p.vpn % 2 = 0
        /\ \A l \in DOMAIN m.foldedAs : m.foldedAs[l] # l => \A p \in c.mapping : p.l # l
        /\ m.span # {} => \A p \in c.mapping : p.vpn < Entries ^ 3

Follows(c, a) ==
    \A v \in DOMAIN a :
        LET t == MappedTo(c.mapping, Mmu(c.n).levels, c.lost, v)
        IN  t # NotPaddr \/ Mmu(c.n).checked = 1 .. Mmu(c.n).levels
              => a[v] = t \/ (a[v] = Garbage /\ t = NotPaddr)
=============================================================================
