---------------------------- MODULE MCBacktrace -----------------------------
(* A small stack; sections of up to three CUs, whose abbreviations have       *)
(* different codes; and line programs of up to six instructions.             *)
EXTENDS Backtrace, SequencesExt

Ab(entry, tag, children, attrs) ==
  [entry |-> entry, tag |-> tag, children |-> children, attrs |-> attrs]

TableA ==
  <<Ab(1, "compile_unit", TRUE, << >>), Ab(2, "subprogram", TRUE, <<"low_pc", "high_pc">>),
    Ab(3, "subprogram", FALSE, <<"low_pc", "high_pc">>),
    Ab(4, "subprogram", TRUE, <<"sibling", "low_pc", "high_pc">>),
    Ab(5, "formal_parameter", FALSE, <<"type">>), Ab(6, "variable", FALSE, << >>),
    Ab(7, "lexical_block", TRUE, << >>), Ab(8, "base_type", FALSE, <<"byte_size">>),
    Ab(9, "typedef", FALSE, <<"type">>), Ab(10, "variable", FALSE, <<"unreadable">>),
    Ab(11, "subprogram", TRUE, <<"low_pc", "high_pc", "unreadable">>),
    Ab(12, "formal_parameter", FALSE, <<"unreadable">>), Ab(0, "none", FALSE, << >>)>>
TableB ==
  <<Ab(1, "compile_unit", TRUE, << >>), Ab(2, "variable", FALSE, <<"low_pc", "high_pc">>),
    Ab(3, "subprogram", FALSE, <<"high_pc", "low_pc">>),
    Ab(4, "compile_unit", FALSE, << >>), Ab(0, "none", FALSE, << >>)>>
MCAbbrevs == TableA \o TableB

D(ab, vals) == [ab |-> ab, vals |-> vals]
Null == D(0, << >>)
Header(n, version, abbrev) == D(-1, <<n, version, abbrev>>)

\* Types of every first CU: a base type (offset 2), a typedef of it (3), and
\* a smaller base type (4).
Types == <<D(8, <<4>>), D(9, <<2>>), D(8, <<1>>)>>

\* A child of the CU's DIE, to be put at offset p of the CU; code from lo to hi.
Item(kind, p, lo, hi) ==
  CASE kind = "variable" -> <<D(6, << >>)>>
    [] kind = "leaf" -> <<D(3, <<lo, hi>>)>>
    [] kind = "args" -> <<D(2, <<lo, hi>>), D(5, <<3>>), D(5, <<4>>), D(5, <<2>>), D(6, << >>), Null>>
    [] kind = "nested" -> <<D(4, <<p + 6, lo, hi>>), D(5, <<2>>), D(7, << >>), D(3, <<41, 49>>), Null, Null>>
    [] kind = "inner" -> <<D(4, <<p + 4, lo, hi>>), D(5, <<2>>), D(3, <<41, 49>>), Null>>
    [] kind = "late" -> <<D(2, <<lo, hi>>), D(7, << >>), D(7, << >>), Null, D(6, << >>), Null, D(5, <<2>>), Null>>
    [] kind = "odd" -> <<D(10, <<0>>)>>
    [] kind = "oddarg" -> <<D(2, <<lo, hi>>), D(5, <<2>>), D(12, <<0>>), D(3, <<41, 49>>), Null>>
    [] kind = "oddfn" -> <<D(11, <<lo, hi, 0>>), D(6, << >>), Null>>

Kinds == {"variable", "leaf", "args", "nested", "inner", "late"}
Ranges == {<<42, 45>>, <<45, 48>>}
Items == {<<k, r>> : k \in Kinds, r \in Ranges}

Children(items) ==
  FoldLeft(LAMBDA s, i : s \o Item(i[1], Len(s) + 2, i[2][1], i[2][2]), Types, items)
CuA(items) ==
  LET dies == <<D(1, << >>)>> \o Children(items) \o <<Null>>
  IN <<Header(Len(dies), 2, 0)>> \o dies
CuB(ab, lo, hi) == <<Header(3, 3, Len(TableA)), D(1, << >>), D(ab, <<hi, lo>>), Null>>

\* The CU of an assembler file has no children.
CuS == <<Header(1, 2, Len(TableA)), D(4, << >>)>>

\* One that says it has children and has none.
CuE == <<Header(2, 2, 0), D(1, << >>), Null>>

Lists(n) == UNION {[1..k -> Items] : k \in 0..n}
\* One function, and one with a leaf function after it.
Short == Lists(1) \cup {<<i, <<"leaf", <<45, 48>>>>>> : i \in Items}
MCInfos == {CuA(l) : l \in Lists(2)}
       \cup {CuA(l) \o CuB(ab, r[1], r[2]) : l \in Lists(1), ab \in {2, 3}, r \in Ranges}
       \cup {CuS \o CuA(l) \o CuB(3, r[1], r[2]) : l \in Short, r \in Ranges}
       \cup {CuA(l) \o CuE \o CuB(3, r[1], r[2]) : l \in Lists(1), r \in Ranges}
       \cup {CuA(<<i, <<k, <<42, 45>>>>, <<"leaf", <<45, 48>>>>>>)
               : i \in Items, k \in {"odd", "oddarg", "oddfn"}}

I(op, val) == [op |-> op, val |-> val]

\* Special opcodes: 13 is line - 1, 14 is the same line, 22 is line + 2 and one further.
Insts ==
  {I("end_sequence", 0), I("set_address", 42), I("define_file", 0), I("copy", 0),
   I("advance_pc", 1), I("advance_line", 3), I("const_add_pc", 0), I("fixed_advance_pc", 1),
   I("set_file", 2), I("negate_stmt", 0), I("basic_block", 0), I("set_ignored", 0),
   I("special", 13), I("special", 14), I("special", 22)}
Prelude == {<< >>, <<I("set_address", 42)>>, <<I("set_address", 42), I("special", 22)>>,
            <<I("set_address", 42), I("set_column", 3), I("advance_line", 4), I("special", 22)>>}

MCPrograms == {p \o f : p \in Prelude, f \in UNION {[1..n -> Insts] : n \in 0..2}}
MCLBase == -1

\* Every section with a plain line program; every line program, and a header
\* that is not good, for a section of one function.  Places inside the
\* functions, between them (after a last call that does not return), and beyond.
PlainProgram == <<I("set_address", 42), I("special", 14), I("special", 22)>>
OneFunction == CuB(3, 42, 50)

Places(init, test, mon, run, bt, ent) ==
  [fn \in Callers |->
     CASE fn = "i386_init" -> init [] fn = "test_backtrace" -> test [] fn = "monitor" -> mon
       [] fn = "runcmd" -> run [] fn = "mon_backtrace" -> bt [] fn = "entry" -> ent]

K(i, p, h) ==
  [info |-> i, prog |-> p, header |-> h, places |-> Places(46, 45, 47, 44, 43, 49),
   locals |-> {0}, depth |-> 0, commands |-> 0]

\* The kernel with its five functions, in two files and between them an
\* assembler file.
JosInfo ==
  CuA(<<<<"late", <<45, 48>>>>, <<"leaf", <<42, 45>>>>>>) \o CuS \o
  CuA(<<<<"args", <<48, 51>>>>, <<"nested", <<51, 54>>>>, <<"leaf", <<54, 57>>>>>>)
JosLines ==
  <<I("set_address", 42), I("copy", 0), I("advance_line", 3), I("advance_pc", 3), I("copy", 0),
    I("advance_line", 5), I("advance_pc", 3), I("copy", 0), I("special", 22), I("copy", 0)>>
Jos == [info |-> JosInfo, prog |-> JosLines, header |-> "good",
        places |-> Places(44, 46, 55, 52, 50, 60),
        locals |-> {0, 1}, depth |-> 2, commands |-> 1]

MCKernels ==
  {K(i, PlainProgram, "good") : i \in MCInfos} \cup
  {K(OneFunction, p, "good") : p \in MCPrograms} \cup
  {K(OneFunction, PlainProgram, h) : h \in {"short", "missing"}} \cup {Jos}
=============================================================================
