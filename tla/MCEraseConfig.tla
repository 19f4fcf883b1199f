--------------------------- MODULE MCEraseConfig ----------------------------
(***************************************************************************)
(* Config files of three sections with one or two commands, right or       *)
(* wrong.  A section is [name, well, parts]; a part is [text, config, bad].*)
(***************************************************************************)
EXTENDS EraseConfig, SequencesExt

Loaded2 == {"m1", "m2"}

Config(list, cmds) == [list |-> list, cmds |-> cmds]

EraseText(e) ==
    << "erase", e[1] >> \o (CASE e[2] = "whole"   -> << >>
                              [] e[2] = "nullify" -> << "nullify" >>
                              [] OTHER            -> << "size", e[3] >>)

TextOf(c) ==
    IF c.list = NoList THEN EraseText(c.cmds[1])
    ELSE << "for", "v", "in", c.list[1] >>
           \o (IF c.list[2] = "plain" THEN << >> ELSE << c.list[2], c.list[3] >>)
           \o FlattenSeq([k \in 1 .. Len(c.cmds) |-> EraseText(c.cmds[k])]) \o << "endfor" >>

Simple == Config(NoList, << Erase("a", "whole", None) >>)
Loop(way, cmds) == Config(<< "l", way, IF way = "plain" THEN None ELSE "m" >>, cmds)

Configs ==
    {Config(NoList, << Erase("a", o, IF o = "size" THEN "n" ELSE None) >>) : o \in {"whole", "nullify", "size"}}
    \cup {Loop(w, s) : w \in {"plain", "via", "within"},
                       s \in {<< Erase("v", "whole", None) >>,
                              << Erase("v", "size", "n"), Erase("v", "nullify", None) >>}}

Wrongs == {<< "erase", "size" >>, << "for", "v", "in", "l", "erase", "v" >>,
           << "for", "v", "in", "l", "erase", "a", "endfor" >>, << "junk" >>, << "for", "v", "l", "endfor" >>}

Good(c) == [text |-> TextOf(c), config |-> c, bad |-> FALSE]
Wrong(t) == [text |-> t, config |-> Config(NoList, << >>), bad |-> TRUE]
Part(name, well, parts) == [name |-> name, well |-> well, parts |-> parts]

Parts == {<< Good(c) >> : c \in Configs} \cup {<< Wrong(t) >> : t \in Wrongs}
           \cup {<< Good(c), Good(d) >> : c, d \in {Simple, Loop("via", << Erase("v", "whole", None) >>)}}

Files ==
    {[secs |-> << Part(n, TRUE, p), Part(m, w, q), Part("m2", TRUE, << Good(Simple) >>) >>, debug |-> d]
        : n \in {"", "m1", "vmlinux"}, m \in {"m1", "m3"}, w \in BOOLEAN, p \in Parts, q \in Parts,
          d \in {{"m1", "m2"}, {"m2"}}}

Items(s) ==
    (IF s.name = "" THEN << >> ELSE << Section(s.name, s.well) >>)
      \o FlattenSeq([j \in DOMAIN s.parts |-> [k \in DOMAIN s.parts[j].text |-> Token(s.parts[j].text[k])]])

\* The config file of a description, read with the modules that have debuginfo.
ReadFile(f) ==
    process_config_file(FlattenSeq([k \in DOMAIN f.secs |-> Items(f.secs[k])]), Loaded2, f.debug)

-----------------------------------------------------------------------------
(***************************************************************************)
(* The commands a file means: those before the first error, of sections of *)
(* modules that are loaded and have debuginfo.                             *)
(***************************************************************************)
HasDebug(f, name) == name \in {"", "vmlinux"} \cup f.debug
IsRead(s) == s.well /\ Loaded(Loaded2, s.name)

\* Of a section without debuginfo only the first command is read.
Reached(f, s) ==
    IF ~IsRead(s) THEN << >>
    ELSE [j \in 1 .. (IF HasDebug(f, s.name) THEN Len(s.parts) ELSE 1) |-> [module |-> s.name, part |-> s.parts[j]]]

Meant(f) ==
    LET all == FlattenSeq([k \in DOMAIN f.secs |-> Reached(f, f.secs[k])])
        bad == {k \in DOMAIN all : all[k].part.bad}
        upTo == SubSeq(all, 1, IF bad = {} THEN Len(all) ELSE Min(bad) - 1)
        kept == SelectSeq(upTo, LAMBDA x : HasDebug(f, x.module))
    IN  [k \in DOMAIN kept |-> [module |-> kept[k].module, list |-> kept[k].part.config.list,
                                cmds |-> kept[k].part.config.cmds]]

\* The only command of a section without debuginfo has no option: its end is
\* found by reading the first token of the next section, which is then skipped.
NextSectionLost(f) ==
    \E k \in DOMAIN f.secs :
        LET s == f.secs[k]
        IN  IsRead(s) /\ ~HasDebug(f, s.name) /\ Len(s.parts) = 1 /\ s.parts[1].text = << "erase", "a" >>
=============================================================================
