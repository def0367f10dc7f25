---------------------------- MODULE MCCallFrames ----------------------------
(* Sections of up to four entries with short programs; and programs over two *)
(* registers, in the second FDE of a section (register 3 is past the table). *)
EXTENDS CallFrames

I(op, reg, val) == [op |-> op, reg |-> reg, val |-> val]

AnyInsts ==
  {I("nop", 0, 0), I("bad", 0, 0), I("advance_loc", 0, 1), I("set_loc", 0, 1),
   I("offset", 0, 1), I("val_offset", 0, 2), I("offset", 3, 1), I("restore", 0, 0),
   I("undefined", 0, 0), I("same_value", 0, 0), I("register", 0, 1),
   I("expression", 0, 3), I("val_expression", 1, 3),
   I("remember_state", 0, 0), I("restore_state", 0, 0), I("def_cfa", 1, 2),
   I("def_cfa_register", 0, 0), I("def_cfa_offset", 0, 3), I("def_cfa_expression", 0, 2)}

RowInsts ==
  {I("advance_loc", 0, 1), I("offset", 0, 1), I("undefined", 0, 0), I("same_value", 0, 0),
   I("restore", 0, 0), I("remember_state", 0, 0), I("restore_state", 0, 0),
   I("def_cfa_register", 1, 0), I("def_cfa_offset", 0, 3)}

UpTo(insts, n) == UNION {[1..k -> insts] : k \in 0..n}

Entry0 == [kind |-> "terminator", aug |-> "none", enc |-> "absptr", own |-> 0,
           lo |-> 0, len |-> 0, caf |-> 0, daf |-> 0, prog |-> << >>]
CieEntry(aug, enc, caf, daf, prog) ==
  [Entry0 EXCEPT !.kind = "cie", !.aug = aug, !.enc = enc, !.caf = caf, !.daf = daf, !.prog = prog]
FdeEntry(own, lo, len, prog) ==
  [Entry0 EXCEPT !.kind = "fde", !.own = own, !.lo = lo, !.len = len, !.prog = prog]

\* Every order of up to three entries, and two CIEs with an FDE after each.
CieEntries ==
  {CieEntry("none", "absptr", 1, -8, <<I("offset", 0, 1)>>),
   CieEntry("z", "sdata4", 2, -4, <<I("offset", 1, 2)>>),
   CieEntry("z", "unknown", 1, -8, << >>),
   CieEntry("other", "absptr", 1, 1, <<I("undefined", 0, 0)>>)}
OddEntries ==
  {[Entry0 EXCEPT !.kind = k] : k \in {"terminator", "long", "unreadable"}} \cup
  {[CieEntry("z", "sdata4", 4, -2, << >>) EXCEPT !.kind = "unreadable"]}
FdeEntries(owns) ==
  {FdeEntry(o, lo, 3, <<I("advance_loc", 0, 1), I("offset", (lo - 3) \div 2, 3)>>)
     : o \in owns, lo \in {3, 5}}

CieAt(s) == {k \in 1..Len(s) : s[k].kind = "cie"}
Longer(S) == S \cup {Append(s, e) : s \in S, e \in CieEntries \cup OddEntries}
               \cup UNION {{Append(s, e) : e \in FdeEntries(CieAt(s))} : s \in S}
Short == Longer(Longer(Longer({<< >>})))
Pairs == {s \in Short : Len(s) = 3 /\ s[1].kind = "cie" /\ s[2].kind = "fde" /\ s[3].kind = "cie"}
Orders == Short \cup UNION {{Append(s, e) : e \in FdeEntries({1, 3})} : s \in Pairs}

\* All pairs of instructions, and longer programs of those that make rows,
\* after a query that leaves its traces in the tables.
CieProgs == {<< >>, <<I("register", 0, 1), I("set_loc", 0, 0)>>}
Before == <<I("register", 0, 1), I("offset", 1, 5), I("remember_state", 0, 0),
            I("def_cfa", 0, 7)>>
Prog(c, f) == <<CieEntry("z", "sdata4", 2, -8, c), FdeEntry(1, 8, 1, Before), FdeEntry(1, 4, 4, f)>>
Usual == <<I("def_cfa", 1, 2), I("offset", 0, 3)>>
Programs == {Prog(c, f) : c \in CieProgs, f \in UpTo(AnyInsts, 1)} \cup
            {Prog(Usual, f) : f \in UpTo(AnyInsts, 2) \cup UpTo(RowInsts, 3)}

MCSections == Orders \cup Programs

\* One query of a program of at most two instructions.
ShortSections ==
  {<<CieEntry("z", "sdata4", 2, -8, Usual), FdeEntry(1, 4, 4, f)>> : f \in UpTo(AnyInsts, 2)}
=============================================================================
