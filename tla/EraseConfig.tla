---------------------------- MODULE EraseConfig -----------------------------
(***************************************************************************)
(* Reading the commands of the filter config file (makedumpfile.conf).     *)
(*                                                                         *)
(* The file is a sequence of items: a token, or a line [module] that       *)
(* starts a section; well is FALSE for such a line without its bracket.    *)
(* The reader is [at, saved, new, module]: the item of the current token,  *)
(* whether it is to be returned again, whether a section starts, and the   *)
(* module of the current section ("" before the first).                    *)
(***************************************************************************)
EXTENDS Integers, Sequences, FiniteSets, FiniteSetsExt

Token(text) == [section |-> FALSE, text |-> text, well |-> TRUE]
Section(name, well) == [section |-> TRUE, text |-> name, well |-> well]

None == ""

IsKeyword(t) == t \in {"erase", "size", "nullify", "for", "in", "within", "endfor"}

\* The last section line at or before item k, 0 for none.
SectionOf(file, k) == Max({0} \cup {j \in 1 .. k : file[j].section})

\* The last valid one; the module of an invalid one does not become current.
ValidSection(file, k) == Max({0} \cup {j \in 1 .. k : file[j].section /\ file[j].well})

ModuleOf(file, s) == IF s = 0 THEN None ELSE file[s].text

Loaded(loaded, module) == module \in {None, "vmlinux"} \cup loaded

-----------------------------------------------------------------------------
(***************************************************************************)
(* get_config_token().                                                     *)
(***************************************************************************)
Start == [at |-> 0, saved |-> FALSE, new |-> FALSE, module |-> None]

\* The next token, of a section that is neither skipped nor of a module that
\* is not loaded; the end of the file if there is none.
Candidates(file, loaded, at, skip) ==
    {k \in at + 1 .. Len(file) :
        LET s == SectionOf(file, k)
        IN  /\ ~file[k].section
            /\ s # 0 => file[s].well
            /\ Loaded(loaded, ModuleOf(file, s))
            /\ skip => s > at}

\* Variant: a token to be returned again is lost.
AdvanceLosing(file, loaded, r, skip) ==
    LET next == Candidates(file, loaded, r.at, skip)
        at == IF next = {} THEN Len(file) + 1 ELSE Min(next)
        s == ValidSection(file, IF next = {} THEN Len(file) ELSE at)
    IN  [at |-> at, saved |-> FALSE, new |-> r.new \/ s > r.at, module |-> ModuleOf(file, s)]

Advance(file, loaded, r, skip) ==
    LET next == Candidates(file, loaded, r.at, skip)
        at == IF next = {} THEN Len(file) + 1 ELSE Min(next)
        s == ValidSection(file, IF next = {} THEN Len(file) ELSE at)
    IN  IF r.saved /\ ~skip THEN [r EXCEPT !.saved = FALSE]
        ELSE [at |-> at, saved |-> FALSE, new |-> r.new \/ s > r.at,
              module |-> ModuleOf(file, s)]

\* What a call returns: the reader, the token or None, and *eof.
Returned(file, a, expected, cmd) ==
    IF a.at > Len(file) THEN [r |-> a, token |-> None, eof |-> "file"]
    ELSE IF a.new /\ ~cmd
         THEN [r |-> [a EXCEPT !.saved = TRUE], token |-> None, eof |-> "section"]
    ELSE IF expected # None /\ file[a.at].text # expected
         THEN [r |-> [a EXCEPT !.saved = TRUE, !.new = FALSE], token |-> None, eof |-> "no"]
    ELSE [r |-> [a EXCEPT !.new = FALSE], token |-> file[a.at].text, eof |-> "no"]

get_config_token(file, loaded, r, expected, cmd, skip) ==
    Returned(file, Advance(file, loaded, r, skip), expected, cmd)

-----------------------------------------------------------------------------
(***************************************************************************)
(* The commands.  A result is [r, ok, val].                                *)
(***************************************************************************)
Error(r) == [r |-> r, ok |-> FALSE, val |-> << >>]

Erase(symbol, option, size) == << symbol, option, size >>

\* The next token if it is this word.
Word(file, loaded, r, word) == get_config_token(file, loaded, r, word, FALSE, FALSE)

\* A symbol, size or list token.
SymbolOf(t) == [r |-> t.r, ok |-> t.token # None /\ ~IsKeyword(t.token), val |-> << t.token >>]

Symbol(file, loaded, r) == SymbolOf(Word(file, loaded, r, None))

\* read_erase_cmd_entry(), token by token: the symbol, nullify, size and its value.
SizeValue(symbol, val) ==
    IF val.ok THEN [val EXCEPT !.val = Erase(symbol, "size", val.val[1])] ELSE Error(val.r)

SizeOption(file, loaded, symbol, size) ==
    IF size.token # None THEN SizeValue(symbol, Symbol(file, loaded, size.r))
    ELSE [r |-> size.r, ok |-> TRUE, val |-> Erase(symbol, "whole", None)]

EraseOption(file, loaded, symbol, null) ==
    IF null.token # None
    THEN [r |-> null.r, ok |-> TRUE, val |-> Erase(symbol, "nullify", None)]
    ELSE SizeOption(file, loaded, symbol, Word(file, loaded, null.r, "size"))

EraseSymbol(file, loaded, sym, var) ==
    IF ~sym.ok \/ (var # None /\ sym.val[1] # var) THEN Error(sym.r)
    ELSE EraseOption(file, loaded, sym.val[1], Word(file, loaded, sym.r, "nullify"))

read_erase_cmd_entry(file, loaded, r, var) ==
    EraseSymbol(file, loaded, Symbol(file, loaded, r), var)

\* read_list_entry(): the list, and the member after via or within.
ListMember(list, how, m) ==
    [r |-> m.r, ok |-> m.ok, val |-> << list, how, m.val[1] >>]

ListWithin(file, loaded, list, within) ==
    IF within.token # None THEN ListMember(list, "within", Symbol(file, loaded, within.r))
    ELSE [r |-> within.r, ok |-> TRUE, val |-> << list, "plain", None >>]

ListVia(file, loaded, list, via) ==
    LET member == Word(file, loaded, via.r, None)
    IN  IF via.token # None
        THEN [r |-> member.r, ok |-> member.token # None, val |-> << list, "via", member.token >>]
        ELSE ListWithin(file, loaded, list, Word(file, loaded, via.r, "within"))

ListName(file, loaded, list) ==
    IF ~list.ok THEN Error(list.r)
    ELSE ListVia(file, loaded, list.val[1], Word(file, loaded, list.r, "via"))

read_list_entry(file, loaded, r) == ListName(file, loaded, Symbol(file, loaded, r))

\* The erase commands up to endfor.
RECURSIVE EraseCommands(_, _, _, _, _)
EraseCommand(file, loaded, cmd, var, done) ==
    IF ~cmd.ok THEN Error(cmd.r)
    ELSE EraseCommands(file, loaded, Word(file, loaded, cmd.r, "endfor"), var, Append(done, cmd.val))

EraseCommands(file, loaded, end, var, done) ==
    LET erase == Word(file, loaded, end.r, "erase")
    IN  IF end.token # None THEN [r |-> end.r, ok |-> TRUE, val |-> done]
        ELSE IF end.eof # "no" \/ erase.token = None THEN Error(end.r)
        ELSE EraseCommand(file, loaded, read_erase_cmd_entry(file, loaded, erase.r, var), var, done)

\* read_iteration_entry(): the variable, in, the list and the commands.
IterationOver(list, cmds) ==
    IF ~cmds.ok THEN Error(cmds.r)
    ELSE [cmds EXCEPT !.val = [list |-> list, cmds |-> cmds.val]]

IterationList(file, loaded, list, var) ==
    IF ~list.ok THEN Error(list.r)
    ELSE IterationOver(list.val, EraseCommands(file, loaded, Word(file, loaded, list.r, "endfor"), var, << >>))

IterationIn(file, loaded, in, var) ==
    IF in.token = None THEN Error(in.r)
    ELSE IterationList(file, loaded, read_list_entry(file, loaded, in.r), var)

IterationVar(file, loaded, var) ==
    IF ~var.ok THEN Error(var.r)
    ELSE IterationIn(file, loaded, Word(file, loaded, var.r, "in"), var.val[1])

read_iteration_entry(file, loaded, r) == IterationVar(file, loaded, Symbol(file, loaded, r))

NoList == << None, "none", None >>
NoConfig == [module |-> None, list |-> NoList, cmds |-> << >>]

\* get_config(): a single erase command, or else an iteration.
SingleConfig(module, cmd) ==
    [r |-> cmd.r, ok |-> cmd.ok,
     config |-> [module |-> module, list |-> NoList, cmds |-> << cmd.val >>]]

IterationConfig(module, iter) ==
    [r |-> iter.r, ok |-> iter.ok,
     config |-> IF iter.ok THEN [module |-> module, list |-> iter.val.list, cmds |-> iter.val.cmds]
                ELSE NoConfig]

ConfigFor(file, loaded, for) ==
    IF for.token # None
    THEN IterationConfig(for.r.module, read_iteration_entry(file, loaded, for.r))
    ELSE [r |-> for.r, ok |-> FALSE, config |-> NoConfig]

ConfigErase(file, loaded, erase) ==
    IF erase.token # None
    THEN SingleConfig(erase.r.module, read_erase_cmd_entry(file, loaded, erase.r, None))
    ELSE ConfigFor(file, loaded, Word(file, loaded, erase.r, "for"))

get_config(file, loaded, r, skip) ==
    ConfigErase(file, loaded, get_config_token(file, loaded, r, "erase", TRUE, skip))

\* process_config_file(): the configs that are processed.  A config of a
\* module without debuginfo is dropped with the rest of its section.
RECURSIVE ProcessConfigs(_, _, _, _)
ProcessConfigs(file, loaded, debuginfo, c) ==
    LET drop == c.config.module \notin {None, "vmlinux"} \cup debuginfo
        rest == ProcessConfigs(file, loaded, debuginfo, get_config(file, loaded, c.r, drop))
    IN  IF ~c.ok THEN << >> ELSE IF drop THEN rest ELSE << c.config >> \o rest

process_config_file(file, loaded, debuginfo) ==
    ProcessConfigs(file, loaded, debuginfo, get_config(file, loaded, Start, FALSE))
=============================================================================
