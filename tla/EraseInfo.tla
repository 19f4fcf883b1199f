----------------------------- MODULE EraseInfo ------------------------------
(***************************************************************************)
(* Erasing data while the pages are written, and the report of it.         *)
(*                                                                         *)
(* An order is an evaluated erase command: [cmd, paddr, size, nullify]; an *)
(* erase command in a loop gives several orders, cmd 0 is an order of an   *)
(* eppic macro (update_filter_info_raw()).  filter_info is a list of nodes *)
(* [paddr, size, idx, sizeIdx, nullify].                                   *)
(***************************************************************************)
EXTENDS Integers, Sequences, FiniteSetsExt

CONSTANTS
    Cases,        \* the orders, the pages to write and the options
    PageSize,     \* info->page_size
    Commands,     \* num_erase_info - 1: the erase commands
    Writers,      \* the threads that write pages
    ExprLen,      \* strlen() of "erase ", of an expression and of its blank
    Nullified     \* strlen("nullify\n")

OrderType == [cmd : 0 .. Commands, paddr : Nat, size : Nat, nullify : BOOLEAN]

\* The orders of a case; its pages are written in the order of their numbers.
CaseOK(c) ==
    /\ c.orders \in Seq(OrderType)
    /\ c.pages \in Seq(Nat)
    /\ \A m, n \in 1 .. Len(c.pages) : m < n => c.pages[m] < c.pages[n]

CasesOK == PageSize \in Nat \ {0} /\ Commands \in Nat /\ \A c \in Cases : CaseOK(c)

VARIABLES
    in,             \* the case
    pc,             \* "gather", "size", "write", "report", "done"
    taken,          \* the number of orders processed, then of pages taken
    filter_info,
    erase_info,     \* by command: [num, sizes, erased]
    reserved,       \* info->size_elf_eraseinfo
    work,           \* the page of each writer, or -1
    erased,         \* the bytes overwritten in the buffers
    written,        \* the pages whose buffer is finished
    report          \* what write_eraseinfo() wrote

vars == << in, pc, taken, filter_info, erase_info, reserved, work, erased, written, report >>

NoInfo == [c \in 0 .. Commands |-> [num |-> 0, sizes |-> << >>, erased |-> FALSE]]

-----------------------------------------------------------------------------
(***************************************************************************)
(* The list of filter_info.                                                *)
(***************************************************************************)
\* The first node at or above an address, or the end of the list.
Place(list, paddr) ==
    LET above == {k \in 1 .. Len(list) : paddr <= list[k].paddr}
    IN  IF above = {} THEN Len(list) + 1 ELSE Min(above)

SameNode(list, paddr) ==
    Place(list, paddr) <= Len(list) /\ list[Place(list, paddr)].paddr = paddr

insert_filter_info(list, node) ==
    LET k == Place(list, node.paddr)
    IN  IF SameNode(list, node.paddr)
        THEN [list EXCEPT ![k].size = IF node.size > @ THEN node.size ELSE @]
        ELSE SubSeq(list, 1, k - 1) \o << node >> \o SubSeq(list, k, Len(list))

AddEraseInfoNode(ei, cmd) == [ei EXCEPT ![cmd].num = @ + 1]

\* update_filter_info(), and update_filter_info_raw() for an eppic macro.
UpdateFilterInfo ==
    LET o == in.orders[taken + 1]
        node == [paddr |-> o.paddr, size |-> o.size, idx |-> o.cmd,
                 sizeIdx |-> IF o.cmd = 0 THEN 0 ELSE erase_info[o.cmd].num + 1,
                 nullify |-> o.nullify]
        new == ~SameNode(filter_info, o.paddr)
    IN  /\ pc = "gather"
        /\ taken < Len(in.orders)
        /\ taken' = taken + 1
        /\ filter_info' = insert_filter_info(filter_info, node)
        /\ erase_info' = IF new /\ o.cmd # 0 THEN AddEraseInfoNode(erase_info, o.cmd) ELSE erase_info
        /\ UNCHANGED << in, pc, reserved, work, erased, written, report >>

\* A decimal number.
Digits(n) == IF n < 10 THEN 1 ELSE IF n < 100 THEN 2 ELSE 3

SizeStr(n) == 6 + Digits(n)

LineLen(nullify, size) == ExprLen + (IF nullify THEN Nullified ELSE SizeStr(size))

get_size_eraseinfo(list) ==
    MapThenSumSet(LAMBDA k : LineLen(list[k].nullify, list[k].size), 1 .. Len(list))

\* The loop of get_size_eraseinfo() does not pass a node of an eppic macro.
Gathered ==
    /\ pc = "gather"
    /\ taken = Len(in.orders)
    /\ taken' = 0
    /\ pc' = IF in.elf /\ \E k \in 1 .. Len(filter_info) : filter_info[k].idx = 0
             THEN "loops" ELSE "write"
    /\ reserved' = IF in.elf /\ pc' = "write" THEN get_size_eraseinfo(filter_info) ELSE 0
    /\ UNCHANGED << in, filter_info, erase_info, work, erased, written, report >>

-----------------------------------------------------------------------------
(***************************************************************************)
(* Filtering a page.  Only a node that starts in the page is found; what   *)
(* is beyond the page becomes a node of its own.                           *)
(***************************************************************************)
StartsIn(node, page) == page * PageSize <= node.paddr /\ node.paddr < (page + 1) * PageSize

Matches(list, page) == {k \in 1 .. Len(list) : StartsIn(list[k], page)}

InPage(node, page) == Min({node.size, (page + 1) * PageSize - node.paddr})

\* Variant: what is left for the next page keeps its whole size.
BeyondFromStart(node, page) ==
    IF node.size = InPage(node, page) THEN << >>
    ELSE << [node EXCEPT !.paddr = @ + InPage(node, page)] >>

Beyond(node, page) ==
    IF node.size = InPage(node, page) THEN << >>
    ELSE << [node EXCEPT !.paddr = @ + InPage(node, page), !.size = @ - InPage(node, page)] >>

\* extract_filter_info() of the k-th node: the list after it, and the node.
Extracted(list, k, page) == SubSeq(list, 1, k - 1) \o Beyond(list[k], page) \o SubSeq(list, k + 1, Len(list))

Part(list, k, page) == [list[k] EXCEPT !.size = InPage(list[k], page)]

\* Variant: the size is added to every entry of the report line.
update_erase_info_last(ei, node) ==
    LET old == IF node.sizeIdx \in DOMAIN ei[node.idx].sizes THEN ei[node.idx].sizes
               ELSE [j \in 1 .. ei[node.idx].num |-> 0]
    IN  IF node.idx = 0 THEN ei
        ELSE [ei EXCEPT ![node.idx].erased = TRUE, ![node.idx].sizes = [j \in DOMAIN old |-> old[j] + node.size]]

update_erase_info(ei, node) ==
    LET old == IF node.sizeIdx \in DOMAIN ei[node.idx].sizes THEN ei[node.idx].sizes
               ELSE [j \in 1 .. ei[node.idx].num |-> 0]
    IN  IF node.idx = 0 THEN ei
        ELSE [ei EXCEPT ![node.idx].erased = TRUE,
                        ![node.idx].sizes = [old EXCEPT ![node.sizeIdx] =
                                               IF node.nullify THEN -1 ELSE @ + node.size]]

Bytes(node) == node.paddr .. node.paddr + node.size - 1

\* The pages are taken in the order of their numbers.
TakePage(w) ==
    /\ pc = "write"
    /\ work[w] = -1
    /\ taken < Len(in.pages)
    /\ taken' = taken + 1
    /\ work' = [work EXCEPT ![w] = in.pages[taken + 1]]
    /\ UNCHANGED << in, pc, filter_info, erase_info, reserved, erased, written, report >>

\* One turn of filter_data_buffer() or, with the lock, of its parallel form.
FilterDataBuffer(w) ==
    LET k == Min(Matches(filter_info, work[w]))
        part == Part(filter_info, k, work[w])
    IN  /\ pc = "write"
        /\ work[w] # -1
        /\ Matches(filter_info, work[w]) # {}
        /\ filter_info' = Extracted(filter_info, k, work[w])
        /\ erase_info' = update_erase_info(erase_info, part)
        /\ erased' = erased \cup Bytes(part)
        /\ UNCHANGED << in, pc, taken, reserved, work, written, report >>

PageDone(w) ==
    /\ pc = "write"
    /\ work[w] # -1
    /\ Matches(filter_info, work[w]) = {}
    /\ written' = written \cup {work[w]}
    /\ work' = [work EXCEPT ![w] = -1]
    /\ UNCHANGED << in, pc, taken, filter_info, erase_info, reserved, erased, report >>

-----------------------------------------------------------------------------
(***************************************************************************)
(* write_eraseinfo(): a line for each size of each erased command.  A size *)
(* of 0, of an order that no page met, has no string of its own: the line  *)
(* has the string of the line before, and the report remembers that.       *)
(***************************************************************************)
Lines(ei) ==
    UNION {{c} \X DOMAIN ei[c].sizes : c \in {x \in DOMAIN ei : ei[x].erased}}

Before(a, b) == a[1] < b[1] \/ (a[1] = b[1] /\ a[2] <= b[2])

\* The size in size_str at line a; it is unset before the first string.
Unset == -2

StringAt(ei, a) ==
    LET made == {b \in Lines(ei) : Before(b, a) /\ ei[b[1]].sizes[b[2]] # 0}
        last == CHOOSE b \in made : \A c \in made : Before(c, b)
    IN  IF made = {} THEN Unset ELSE ei[last[1]].sizes[last[2]]

WriteEraseinfo ==
    /\ pc = "write"
    /\ taken = Len(in.pages)
    /\ \A w \in Writers : work[w] = -1
    /\ report' = {[line |-> a, size |-> StringAt(erase_info, a),
                   own |-> erase_info[a[1]].sizes[a[2]] # 0] : a \in Lines(erase_info)}
    /\ pc' = "done"
    /\ UNCHANGED << in, taken, filter_info, erase_info, reserved, work, erased, written >>

\* clear_filter_info(), after the dump is written.
ClearFilterInfo ==
    /\ pc = "done"
    /\ filter_info # << >> \/ erase_info # NoInfo
    /\ filter_info' = << >>
    /\ erase_info' = NoInfo
    /\ UNCHANGED << in, pc, taken, reserved, work, erased, written, report >>

Finished == pc = "loops" \/ (pc = "done" /\ filter_info = << >> /\ erase_info = NoInfo)

Init ==
    /\ in \in Cases
    /\ pc = "gather"
    /\ taken = 0
    /\ filter_info = << >>
    /\ erase_info = NoInfo
    /\ reserved = 0
    /\ work = [w \in Writers |-> -1]
    /\ erased = {}
    /\ written = {}
    /\ report = {}

Next ==
    \/ UpdateFilterInfo \/ Gathered
    \/ \E w \in Writers : (in.parallel \/ w = Min(Writers))
                            /\ (TakePage(w) \/ FilterDataBuffer(w) \/ PageDone(w))
    \/ WriteEraseinfo \/ ClearFilterInfo
    \/ Finished /\ UNCHANGED vars

Spec == Init /\ [][Next]_vars

-----------------------------------------------------------------------------
(***************************************************************************)
(* Properties.                                                             *)
(***************************************************************************)
BytesOf(o) == o.paddr .. o.paddr + o.size - 1

Requested == UNION {BytesOf(in.orders[k]) : k \in 1 .. Len(in.orders)}

\* The pages of an order up to the page of a byte are all written, in order.
Reached(o, b) ==
    \/ b \div PageSize = o.paddr \div PageSize
    \/ /\ ~in.parallel
       /\ \A p \in o.paddr \div PageSize .. b \div PageSize : p \in written

(***************************************************************************)
(* Whatever nodes overlap, are split at the end of a page or are merged by *)
(* insert_filter_info(), only bytes that were asked for are overwritten,   *)
(* and in a page that is written all that were asked for and whose node    *)
(* was reached are: the page where an order starts always, the next pages  *)
(* when one writer wrote every page from there on.                         *)
(***************************************************************************)
ErasedRight ==
    /\ erased \subseteq Requested
    /\ \A k \in 1 .. Len(in.orders) : pc \notin {"gather", "loops"} =>
         \A b \in BytesOf(in.orders[k]) :
            b \div PageSize \in written /\ Reached(in.orders[k], b) => b \in erased

(***************************************************************************)
(* A line of the report belongs to one order: of the orders of its command *)
(* that came first at their address, the one of that number.               *)
(***************************************************************************)
FirstAt(k) == \A m \in 1 .. k - 1 : in.orders[m].paddr # in.orders[k].paddr

LineOf(k) ==
    << in.orders[k].cmd,
       Cardinality({m \in 1 .. k : in.orders[m].cmd = in.orders[k].cmd /\ FirstAt(m)}) >>

\* The orders at the address of that order, which are merged with it.
Asked(a) ==
    {o \in Range(in.orders) : \E k \in 1 .. Len(in.orders) :
        FirstAt(k) /\ LineOf(k) = a /\ in.orders[k].paddr = o.paddr}

(***************************************************************************)
(* The report tells what was erased: as many bytes as a line says, from    *)
(* the address of its order on, were overwritten, and no more were asked   *)
(* for there.  A line that repeats the string of another one says nothing. *)
(***************************************************************************)
ReportTrue ==
    \A r \in report : r.own /\ r.size # -1 =>
        \E o \in Asked(r.line) : /\ r.size <= o.size
                                 /\ o.paddr .. o.paddr + r.size - 1 \subseteq erased

(***************************************************************************)
(* get_size_eraseinfo() is called before the pages are written, and        *)
(* write_elf_header() leaves that much space.  However the nodes were      *)
(* split, the report outgrows that space at most by what the strings that  *)
(* are repeated are longer than the ones counted for their lines: it fits  *)
(* if every line has its own.  A report with an unset string is not meant. *)
(***************************************************************************)
Length(r) == LineLen(r.size = -1, r.size)

CountedLength(r) ==
    LET first == CHOOSE k \in 1 .. Len(in.orders) : FirstAt(k) /\ LineOf(k) = r.line
    IN  LineLen(in.orders[first].nullify, Max({o.size : o \in Asked(r.line)}))

Longer(r) == Max({0, Length(r) - CountedLength(r)})

ReportFits ==
    in.elf /\ (\A r \in report : r.size # Unset) =>
        MapThenSumSet(Length, report)
          <= reserved + MapThenSumSet(Longer, {r \in report : ~r.own})
=============================================================================
