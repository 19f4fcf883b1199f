----------------------------- MODULE MCStartUp ------------------------------
(***************************************************************************)
(* Command lines of up to four options, and small machines.                *)
(***************************************************************************)
EXTENDS StartUp, SequencesExt

Opt(name, val) == [name |-> name, val |-> val]
Flag(name) == Opt(name, << >>)

Flags == {"elf", "zlib", "flatten", "split", "dmesg", "partial_dmesg", "mem_usage", "work_dir",
          "excludevm", "diskset", "vmlinux", "read_vmcoreinfo", "xen_dom", "generate",
          "rearrange", "reassemble", "dry_run", "filterconfig"}

\* Options that change the same things; three of them in every order.
Mixed == {Opt("level", << 1, 31 >>), Opt("level", << 1, 2, 3 >>), Opt("message_level", << 1, 4 >>),
          Opt("message_level", << 5 >>), Flag("debug"), Flag("show_stats"), Flag("check_params"),
          Opt("size_limit", << 0 >>), Opt("num_threads", << -1 >>), Flag("excludevm")}

Distinct(s) == \A a, b \in s : a.name = b.name => a = b

OrderedLines == {[opts |-> p, args |-> 2] :
                    p \in UNION {SetToSeqs(s) : s \in {t \in kSubset(3, Mixed) : Distinct(t)}}}

Values == {<< >>, << Opt("num_threads", << 3 >>) >>, << Opt("cyclic_buffer", << 3 >>) >>,
           << Opt("cyclic_buffer", << 3 >>), Opt("num_threads", << 3 >>) >>}

FlagLines == {[opts |-> << Flag(f), Flag(g) >> \o v, args |-> a] : f \in Flags, g \in Flags, v \in Values, a \in 0 .. 3}
             \cup {[opts |-> << Flag(f), Flag(g), Flag("work_dir") >>, args |-> a] : f \in Flags, g \in Flags, a \in 1 .. 3}

CommandLines == OrderedLines \cup FlagLines

Kinds == {[xen |-> FALSE, format |-> "elf"], [xen |-> TRUE, format |-> "elf"],
          [xen |-> FALSE, format |-> "kdump"], [xen |-> FALSE, format |-> "sadump"]}

Machines(o) ==
    {[max |-> m, free |-> f, xen |-> k.xen, format |-> k.format] :
        m \in {5, 10}, f \in {3, 9, 18, 27},
        k \in {x \in Kinds : Given(o, "diskset") => x.format = "sadump"}}

\* main(): the options, what is to be done, and the modes of the machines on
\* which initial() goes on.
Main(line) ==
    LET o == ParseFrom(NoOptions(line.args), line.opts)
        mode == check_param_for_creating_dumpfile(o)
        starts == {[m |-> m, c |-> InitialCyclic(o, mode, m)] : m \in Machines(o)}
    IN  [o |-> o, op |-> Operation(o), mode |-> mode,
         starts |-> IF Operation(o) \notin {"create", "dmesg", "mem_usage"} THEN {}
                    ELSE {s \in starts : ~InitialRefuses(o, s.c, s.m)}]

Commute(line, a) ==
    \A p \in SetToSeqs({line.opts[k] : k \in DOMAIN line.opts}) :
        LET o == ParseFrom(NoOptions(line.args), p)
        IN  o.ok = a.o.ok /\ (o.ok => o = a.o)

Fit(a) ==
    \A s \in a.starts :
        /\ s.c.threads > 0 => /\ ~Given(a.o, "elf") /\ a.mode.dumpfiles <= 1
                              /\ ~s.m.xen /\ s.m.format # "sadump"
        /\ Given(a.o, "elf") => a.mode.dumpfiles <= 1 /\ s.m.format = "elf"
        /\ Given(a.o, "flatten") => a.mode.dumpfiles <= 1
        /\ Given(a.o, "excludevm") => ~s.c.cyclic
        /\ ~s.c.cyclic => s.c.pfn_cyclic >= s.m.max

\* The operations that call open_dump_file().
Opens(a) ==
    \/ a.op = "dmesg"
    \/ a.op = "create" /\ ~Given(a.o, "split")

\* main() calls open_dump_file() for these with no name.
Nameless(a) == a.op = "dmesg" /\ a.o.flags \cap {"split", "mem_usage"} # {}

HasFile(a) == Opens(a) /\ ~Nameless(a) => open_dump_file(a.o, a.mode)

FreeEnough(a) ==
    \A s \in a.starts :
        /\ s.c.pfn_cyclic > 0
        /\ IF Backed(a.o, s.m) THEN TRUE
           ELSE IF a.o.buffer = 0 THEN s.c.bufsize + ThreadRegion * s.c.threads <= Limit(s.m)
           ELSE s.c.bufsize * (IF a.mode.dumpfiles > 1 THEN a.mode.dumpfiles ELSE 1) <= s.m.free
=============================================================================
