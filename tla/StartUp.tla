------------------------------ MODULE StartUp -------------------------------
(***************************************************************************)
(* From the command line to the mode a dump is written in: the options,    *)
(* the checks of the parameters, and the choice of the cyclic mode and of  *)
(* its buffer in initial().                                                *)
(*                                                                         *)
(* An option is [name, val], val a sequence of numbers: the dump levels,   *)
(* the kinds of message, a size or a count.  What main() makes of them is  *)
(*   flags     the flags set and the names given                           *)
(*   compress  the format of compression                                   *)
(*   levels    array_dump_level                                            *)
(*   message   the kinds of message printed                                *)
(*   limit, buffer, threads   -L, --cyclic-buffer, --num-threads           *)
(*   args      the number of arguments after the options                   *)
(***************************************************************************)
EXTENDS Integers, Sequences, FiniteSets, FiniteSetsExt

CONSTANTS
    NumLevels,       \* NUM_ARRAY_DUMP_LEVEL
    MaximumSize,     \* maximum_size
    ThreadRegion,    \* THREAD_REGION
    PerByte,         \* BITPERBYTE
    Kilo             \* 1 << 10

-----------------------------------------------------------------------------
(***************************************************************************)
(* The options, in the order they are given.                               *)
(***************************************************************************)
\* DEFAULT_MSG_LEVEL, ML_PRINT_DEBUG_MSG, ML_PRINT_REPORT_MSG.
DefaultMessages == {0, 1, 2}
DebugMessage == 3
ReportMessage == 4

NoOptions(args) ==
    [ok |-> TRUE, flags |-> {}, compress |-> "none", levels |-> << >>,
     message |-> DefaultMessages, limit |-> -1, buffer |-> 0, threads |-> 0, args |-> args]

Given(o, f) == f \in o.flags

\* A list of at most NUM_ARRAY_DUMP_LEVEL levels replaces the list before.
parse_dump_level(o, levels) ==
    [o EXCEPT !.ok = Len(levels) <= NumLevels /\ \A k \in 1 .. Len(levels) : levels[k] \in 0 .. 31,
              !.levels = levels]

set_message_level(o, kinds) ==
    IF \E k \in 1 .. Len(kinds) : kinds[k] \notin 0 .. 4
    THEN [o EXCEPT !.ok = FALSE, !.message = DefaultMessages]
    ELSE IF Given(o, "check_params") THEN o
    ELSE [o EXCEPT !.message = {kinds[k] : k \in 1 .. Len(kinds)}]

\* The options that have a value.
ParseValue(o, opt) ==
    CASE opt.name \in {"zlib", "lzo", "snappy", "zstd"} ->
           [o EXCEPT !.compress = opt.name, !.flags = @ \cup {"compress"}]
      [] opt.name = "level"         -> parse_dump_level(o, opt.val)
      [] opt.name = "size_limit"    -> [o EXCEPT !.ok = opt.val[1] # 0, !.limit = opt.val[1]]
      [] opt.name = "message_level" -> set_message_level(o, opt.val)
      [] opt.name = "cyclic_buffer" -> [o EXCEPT !.buffer = opt.val[1]]
      [] opt.name = "num_threads"   -> [o EXCEPT !.threads = Max({opt.val[1], 0})]
      [] opt.name = "check_params"  ->
           [o EXCEPT !.message = DefaultMessages, !.flags = @ \cup {"check_params"}]
      [] opt.name = "invalid"       -> [o EXCEPT !.ok = FALSE]
      [] OTHER                      -> [o EXCEPT !.flags = @ \cup {opt.name}]

\* Variant: -D sets its message bit where it is read.
ParseOptionAtOnce(o, opt) ==
    IF opt.name = "debug" THEN [o EXCEPT !.message = @ \cup {DebugMessage}] ELSE ParseValue(o, opt)

\* -D is only remembered, for --message-level may follow it.
ParseOption(o, opt) ==
    IF opt.name = "debug" THEN [o EXCEPT !.flags = @ \cup {"debug"}] ELSE ParseValue(o, opt)

\* After the loop.
SettleMessages(o) ==
    [o EXCEPT !.message =
        IF Given(o, "check_params") THEN DefaultMessages
        ELSE @ \cup (IF Given(o, "debug") THEN {DebugMessage} ELSE {})
               \cup (IF Given(o, "show_stats") THEN {ReportMessage} ELSE {})]

RECURSIVE ParseFrom(_, _)
ParseFrom(o, opts) ==
    IF ~o.ok THEN o
    ELSE IF opts = << >> THEN SettleMessages(o)
    ELSE ParseFrom(ParseOption(o, Head(opts)), Tail(opts))

DumpLevel(o) == IF o.levels = << >> THEN 0 ELSE o.levels[1]

-----------------------------------------------------------------------------
(***************************************************************************)
(* The checks of the parameters.  A mode is what they leave in info.       *)
(***************************************************************************)
Refused == [ok |-> FALSE, dumpfiles |-> 0, threads |-> 0]

Accepted(dumpfiles, threads) == [ok |-> TRUE, dumpfiles |-> dumpfiles, threads |-> threads]

\* Some option that only the creation of a dump has.
Writing(o) ==
    \/ DumpLevel(o) # 0
    \/ o.flags \cap {"compress", "elf", "read_vmcoreinfo", "flatten", "xen_dom"} # {}

check_param_for_generating_vmcoreinfo(o) ==
    /\ o.args = 0
    /\ ~Writing(o) /\ ~Given(o, "rearrange") /\ ~Given(o, "dry_run")
    /\ o.flags \cap {"vmlinux", "xen_syms"} # {}

check_param_for_rearranging_dumpdata(o) ==
    /\ o.args = 1
    /\ ~Writing(o)
    /\ o.flags \cap {"vmlinux", "xen_syms", "generate"} = {}

check_param_for_reassembling_dumpfile(o) ==
    /\ ~Writing(o)
    /\ o.flags \cap {"vmlinux", "xen_syms", "generate", "split", "dry_run"} = {}

\* Variant: --num-threads with -E is let through.
ConflictForgettingElf(o) ==
    \/ Given(o, "generate") \/ Given(o, "rearrange")
    \/ Given(o, "compress") /\ Given(o, "elf")
    \/ Given(o, "read_vmcoreinfo") /\ (Given(o, "vmlinux") \/ Given(o, "xen_syms"))
    \/ Given(o, "dry_run") /\ Given(o, "dmesg")
    \/ Given(o, "flatten") /\ Given(o, "split")
    \/ Given(o, "filterconfig") /\ ~Given(o, "vmlinux")
    \/ o.threads > 0 /\ Given(o, "split")
    \/ Given(o, "partial_dmesg") /\ ~Given(o, "dmesg")
    \/ Given(o, "excludevm") /\ ~Given(o, "work_dir")

\* Options that exclude each other or need each other.
Conflict(o) ==
    \/ Given(o, "generate") \/ Given(o, "rearrange")
    \/ Given(o, "compress") /\ Given(o, "elf")
    \/ Given(o, "read_vmcoreinfo") /\ (Given(o, "vmlinux") \/ Given(o, "xen_syms"))
    \/ Given(o, "dry_run") /\ Given(o, "dmesg")
    \/ Given(o, "flatten") /\ Given(o, "split")
    \/ Given(o, "filterconfig") /\ ~Given(o, "vmlinux")
    \/ o.threads > 0 /\ (Given(o, "split") \/ Given(o, "elf"))
    \/ Given(o, "partial_dmesg") /\ ~Given(o, "dmesg")
    \/ Given(o, "excludevm") /\ ~Given(o, "work_dir")

\* The names: what is read, and the files to write; 0 when name_dumpfile is
\* left NULL.
Named(o) ==
    LET diskset == Given(o, "diskset")
        own == IF diskset THEN 0 ELSE 1
    IN  IF o.args = 2 /\ ~Given(o, "flatten") /\ ~Given(o, "split") /\ ~diskset
        THEN Accepted(1, o.threads)
        ELSE IF Given(o, "split") /\ (IF diskset THEN o.args >= 2 ELSE o.args > 2)
        THEN IF Given(o, "elf") THEN Refused ELSE Accepted(o.args - own, o.threads)
        ELSE IF o.args = 1 /\ ~Given(o, "split") /\ diskset THEN Accepted(1, o.threads)
        ELSE IF o.args = 1 /\ (Given(o, "flatten") \/ Given(o, "mem_usage")) THEN Accepted(0, o.threads)
        ELSE Refused

check_param_for_creating_dumpfile(o) == IF Conflict(o) THEN Refused ELSE Named(o)

\* Whether open_dump_file() has something to open; a dry run opens nothing.
open_dump_file(o, mode) == Given(o, "flatten") \/ Given(o, "dry_run") \/ mode.dumpfiles = 1

\* What main() goes on to do.
Checked(o, op, ok) == IF ~ok THEN "refused" ELSE IF Given(o, "check_params") THEN "checked" ELSE op

Operation(o) ==
    IF ~o.ok THEN "refused"
    ELSE IF Given(o, "help") \/ Given(o, "version") THEN "shown"
    ELSE IF Given(o, "generate")
         THEN Checked(o, "generate", check_param_for_generating_vmcoreinfo(o))
    ELSE IF Given(o, "rearrange")
         THEN Checked(o, "rearrange", check_param_for_rearranging_dumpdata(o))
    ELSE IF Given(o, "reassemble")
         THEN Checked(o, "reassemble", check_param_for_reassembling_dumpfile(o))
    ELSE Checked(o, IF Given(o, "dmesg") THEN "dmesg"
                    ELSE IF Given(o, "mem_usage") THEN "mem_usage" ELSE "create",
                 check_param_for_creating_dumpfile(o).ok)

-----------------------------------------------------------------------------
(***************************************************************************)
(* The buffer of the cyclic mode.  A machine is [max, free, xen, format]:  *)
(* max_mapnr, MemFree, whether the dump memory is of Xen, and its format,  *)
(* "elf", "kdump" (flag_refiltering) or "sadump".                          *)
(***************************************************************************)
Limit(m) == (m.free * 6) \div 10

\* num_threads after calculate_cyclic_buffer_size().
ThreadsThatFit(threads, m) ==
    IF threads = 0 \/ Limit(m) <= MaximumSize THEN 0
    ELSE IF (Limit(m) - MaximumSize) \div threads < ThreadRegion
         THEN (Limit(m) - MaximumSize) \div ThreadRegion
    ELSE threads

\* limit_size leaves out the threads only when there are fewer than asked for.
LimitLeft(threads, m) ==
    LET n == ThreadsThatFit(threads, m)
    IN  IF n # threads /\ Limit(m) > MaximumSize THEN Limit(m) - ThreadRegion * n ELSE Limit(m)

BitmapSize(dumpfiles, m) ==
    LET size == (m.max * 2) \div PerByte
    IN  IF dumpfiles > 1 THEN size \div dumpfiles ELSE size

calculate_cyclic_buffer_size(mode, m) ==
    Min({LimitLeft(mode.threads, m), MaximumSize, BitmapSize(mode.dumpfiles, m)})

\* The size given with --cyclic-buffer, cut to the free memory.
GivenSize(buffer, dumpfiles, m) ==
    Min({buffer * Kilo, IF dumpfiles > 1 THEN m.free \div dumpfiles ELSE m.free})

\* A file for the bitmaps: one cycle.
Backed(o, m) == Given(o, "work_dir") \/ Given(o, "mem_usage") \/ m.format \in {"kdump", "sadump"}

Cyclic(cyclic, size, pfns, threads) ==
    [cyclic |-> cyclic, bufsize |-> size, pfn_cyclic |-> pfns, threads |-> threads]

\* flag_cyclic is cleared by --exclude-unused-vm before.
InitialCyclic(o, mode, m) ==
    LET size == calculate_cyclic_buffer_size(mode, m)
        given == GivenSize(o.buffer, mode.dumpfiles, m)
        asked == ~Given(o, "excludevm")
    IN  IF Backed(o, m) THEN Cyclic(FALSE, 0, m.max, mode.threads)
        ELSE IF o.buffer > 0 THEN Cyclic(asked, given, given * PerByte, mode.threads)
        ELSE Cyclic(asked /\ size * PerByte < m.max * 2, size, size * PerByte,
                    ThreadsThatFit(mode.threads, m))

\* What initial() refuses.
InitialRefuses(o, c, m) ==
    \/ Given(o, "xen_dom") /\ ~m.xen
    \/ m.format \in {"kdump", "sadump"} /\ Given(o, "elf")
    \/ c.threads > 0 /\ (m.xen \/ m.format = "sadump")
=============================================================================
