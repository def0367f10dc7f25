------------------------------ MODULE DieWalk ------------------------------
(***************************************************************************)
(* debuginfo_rip of kern/kdebug.c and the readers of .debug_info and       *)
(* .debug_abbrev in kern/libdwarf_rw.c: the search of the compilation      *)
(* units for the function of an address, and the count and sizes of its    *)
(* parameters.                                                             *)
(*                                                                         *)
(* An offset into .debug_info counts entries: a CU header, whose values    *)
(* are the CU's length, version and abbreviation offset, a DIE, whose      *)
(* values are those of its abbreviation's attributes, or a null entry      *)
(* (ab = 0).  An offset into .debug_abbrev counts abbreviations; one of    *)
(* entry 0 ends a table.  An attribute "unreadable" is one of a form that  *)
(* _dwarf_attr_init does not know.  The line number is LineProgram's;      *)
(* DebugInfo puts the two together.                                        *)
(*                                                                         *)
(* The sections are such that no local variable is read that was never     *)
(* set: a function that says so has children, and only a CU that follows   *)
(* one with children may say so and have none; and the first two DIEs of a *)
(* list can be read.                                                       *)
(***************************************************************************)
EXTENDS Integers, Sequences, FiniteSetsExt

CONSTANT Abbrevs        \* the .debug_abbrev section

\* DW_TAG_* and DW_AT_*; "none" is the tag of entry 0.
Tags == {"compile_unit", "subprogram", "formal_parameter", "variable", "lexical_block",
         "base_type", "typedef", "none"}
Attributes == {"low_pc", "high_pc", "sibling", "type", "byte_size", "unreadable"}

ASSUME AbbrevsAssumption ==
  /\ Abbrevs \in Seq([entry : Nat, tag : Tags, children : BOOLEAN, attrs : Seq(Attributes)])
  /\ \A k \in 1..Len(Abbrevs) : Abbrevs[k].tag = "none" <=> Abbrevs[k].entry = 0

Entries == [ab : Nat \cup {-1}, vals : Seq(Nat)]

VARIABLES info, addr,
          at,           \* the statement of debuginfo_rip
          curr_off,     \* curr_off_dbginfo
          cu, cudie, die,
          arg,          \* the parameter at which list_func_die is
          ret_val,      \* its last size
          found         \* *info: function, and sizes of the parameters

dieVars == <<info, addr, at, curr_off, cu, cudie, die, arg, ret_val, found>>

Size == Len(info)       \* dbg_info_size
NoDie == [off |-> -1, next |-> -1, tag |-> "none", kids |-> FALSE, attrs |-> << >>,
          err |-> FALSE]
NoCu == [off |-> -1, next |-> -1, abbrev |-> -1]
Unknown == [fn |-> -1, sizes |-> << >>]

\* _dwarf_abbrev_find: the first abbreviation of the CU's table with the code;
\* an abbreviation of entry 0 if there is none.
AbbrevFind(c, entry) ==
  Abbrevs[Min({k \in c.abbrev+1..Len(Abbrevs) : Abbrevs[k].entry \in {entry, 0}})]

\* _dwarf_attr_init gives up on an attribute of the abbreviation.
HasUnreadable(ab) == \E k \in 1..Len(ab.attrs) : ab.attrs[k] = "unreadable"

\* A DIE as dwarf_search_die_within_cu fills it in, with the attributes that
\* _dwarf_attr_init appends, in the order of the abbreviation; it stops at one
\* that it cannot read, with an error and before it sets die_next_off.
ReadDie(c, off) ==
  LET ab == AbbrevFind(c, info[off + 1].ab)
      n == IF HasUnreadable(ab)
           THEN Min({k \in 1..Len(ab.attrs) : ab.attrs[k] = "unreadable"}) - 1
           ELSE Len(ab.attrs)
  IN [off |-> off, next |-> off + 1, tag |-> ab.tag, kids |-> ab.children,
      attrs |-> [k \in 1..n |-> <<ab.attrs[k], info[off + 1].vals[k]>>],
      err |-> HasUnreadable(ab)]

\* _dwarf_attr_find
HasAttr(d, name) == \E k \in 1..Len(d.attrs) : d.attrs[k][1] = name
Attr(d, name) ==
  d.attrs[Min({k \in 1..Len(d.attrs) : d.attrs[k][1] = name})][2]

\* dwarf_search_die_within_cu: the DIE at an offset, or, to find a sibling, the
\* first one after the children of the DIE before it; NoDie for no entry.
SearchDie(c, offset, search_sibling) ==
  LET End == IF c.next < Size THEN c.next ELSE Size
      hit[o \in 0..End] ==
        [level \in 0..End+1 |->
           IF o = End THEN -1
           ELSE IF info[o + 1].ab = 0
           THEN IF level = 0 \/ ~search_sibling THEN -1 ELSE hit[o + 1][level - 1]
           ELSE LET ab == AbbrevFind(c, info[o + 1].ab)
                IN IF ab.tag = "none" THEN -1
                   ELSE IF search_sibling /\ level > 0 /\ ~HasUnreadable(ab)
                   THEN hit[o + 1][IF ab.children THEN level + 1 ELSE level]
                   ELSE o]
      dieAt == [o \in -1..End |-> IF o = -1 THEN NoDie ELSE ReadDie(c, o)]
  IN IF offset > End THEN NoDie ELSE dieAt[hit[offset][1]]

\* Where dwarf_siblingof looks for the sibling of a DIE.
SiblingFrom(c, d) ==
  IF d.kids /\ HasAttr(d, "sibling") THEN Attr(d, "sibling") + c.off ELSE d.next

\* dwarf_siblingof, for a DIE.
SiblingOf(c, d) ==
  SearchDie(c, SiblingFrom(c, d), d.kids /\ ~HasAttr(d, "sibling"))

\* The die_next_off in a DIE e, the sibling of d, that could not be read: that of
\* the DIE read before it.
NextLeft(c, d, e) ==
  LET passed == {p \in SiblingFrom(c, d)..e.off-1 : info[p + 1].ab > 0}
  IN IF passed = {} THEN d.next ELSE Max(passed) + 1

\* dwarf_child, for a DIE with children.
Child(c, d) == SearchDie(c, d.next, FALSE)
-----------------------------------------------------------------------------
\* Before the first call of debuginfo_rip, with section i loaded.
DieInit(i) ==
  /\ info = i /\ addr = 0
  /\ at = "idle"
  /\ curr_off = 0
  /\ cu = NoCu /\ cudie = NoDie /\ die = NoDie
  /\ arg = NoDie /\ ret_val = 0 /\ found = Unknown

\* Seeded fault: dbg is not cleared, and the search goes on where the last ended.
DieCallOn(a) ==
  /\ addr' = a /\ at' = "next_cu"
  /\ cu' = NoCu /\ cudie' = NoDie /\ die' = NoDie
  /\ arg' = NoDie /\ ret_val' = 0 /\ found' = Unknown
  /\ UNCHANGED <<info, curr_off>>

\* The start of debuginfo_rip(a): *info is set, _dwarf_init clears dbg.
DieCall(a) ==
  /\ addr' = a /\ at' = "next_cu" /\ curr_off' = 0
  /\ cu' = NoCu /\ cudie' = NoDie /\ die' = NoDie
  /\ arg' = NoDie /\ ret_val' = 0 /\ found' = Unknown
  /\ UNCHANGED info

\* Its caller has returned.
DieIdle ==
  /\ addr' = 0 /\ at' = "idle" /\ curr_off' = 0
  /\ cu' = NoCu /\ cudie' = NoDie /\ die' = NoDie
  /\ arg' = NoDie /\ ret_val' = 0 /\ found' = Unknown
  /\ UNCHANGED info

Goto(label) == at' = label /\ UNCHANGED <<info, addr>>

\* _get_next_cu: the header of the next CU.  A version it does not know ends
\* the search.
NextCu ==
  /\ at = "next_cu" /\ curr_off < Size
  /\ LET h == info[curr_off + 1].vals
     IN /\ cu' = [off |-> curr_off, next |-> curr_off + 1 + h[1], abbrev |-> h[3]]
        /\ curr_off' = cu'.next
        /\ Goto(IF h[2] \in 2..4 THEN "cu_die" ELSE "unknown")
  /\ UNCHANGED <<cudie, die, arg, ret_val, found>>

\* Seeded fault: the header beyond the end does not move the offset.
NextCuBeyondStays ==
  /\ at = "next_cu" /\ curr_off = Size
  /\ cu' = [off |-> Size, next |-> Size + 2, abbrev |-> 0]
  /\ Goto("cu_die") \/ Goto("unknown")
  /\ UNCHANGED <<curr_off, cudie, die, arg, ret_val, found>>

\* The test is `>': at the end of the section one more header is read from what
\* follows it, with a version that may or may not be known.
NextCuBeyond ==
  /\ at = "next_cu" /\ curr_off = Size
  /\ cu' = [off |-> Size, next |-> Size + 2, abbrev |-> 0]
  /\ curr_off' = Size + 2
  /\ Goto("cu_die") \/ Goto("unknown")
  /\ UNCHANGED <<cudie, die, arg, ret_val, found>>

NoMoreCus ==
  /\ at = "next_cu" /\ curr_off > Size
  /\ Goto("unknown")
  /\ UNCHANGED <<curr_off, cu, cudie, die, arg, ret_val, found>>

\* The CU's DIE, and the first of its children.  dwarf_child returns
\* DW_DLE_NO_ENTRY, which is tested, when the DIE has no list of children, but
\* DW_DLV_NO_ENTRY, which is not, when the list is empty: then the walk goes on
\* from the DIE that the previous CU left.
CuDie ==
  /\ at = "cu_die"
  /\ \E d \in {SearchDie(cu, cu.off + 1, FALSE)} :
       IF d = NoDie \/ ~d.kids
       THEN Goto("next_cu") /\ UNCHANGED <<cudie, die>>
       ELSE /\ cudie' = d /\ Goto("list")
            /\ \E child \in {Child(cu, d)} : die' = IF child = NoDie THEN die ELSE child
  /\ UNCHANGED <<curr_off, cu, arg, ret_val, found>>

\* The test of list_func_die.
ContainsAddr(d, a) ==
  /\ d.tag = "subprogram"
  /\ HasAttr(d, "low_pc") /\ Attr(d, "low_pc") < a
  /\ HasAttr(d, "high_pc") /\ Attr(d, "high_pc") > a

ListFunc ==
  /\ at = "list"
  /\ IF ContainsAddr(die, addr)
     THEN /\ found' = [fn |-> die.off, sizes |-> << >>]
          /\ ret_val' = 8
          /\ \E child \in {IF die.kids THEN Child(cu, die) ELSE NoDie} :
               IF child.tag = "formal_parameter"
               THEN arg' = child /\ Goto("arg")
               ELSE Goto("found") /\ UNCHANGED arg
     ELSE Goto("sibling") /\ UNCHANGED <<arg, ret_val, found>>
  /\ UNCHANGED <<curr_off, cu, cudie, die>>

\* The test is `< 0', and an error is not: the DIE is taken as far as it was read.
NextSibling ==
  /\ at = "sibling"
  /\ \E d \in {SiblingOf(cu, die)} :
       \/ d = NoDie /\ Goto("next_cu") /\ UNCHANGED die
       \/ /\ d # NoDie /\ Goto("list")
          /\ die' = IF d.err THEN [d EXCEPT !.next = NextLeft(cu, die, d)] ELSE d
  /\ UNCHANGED <<curr_off, cu, cudie, arg, ret_val, found>>

TypeOf(d) == SearchDie(cu, cu.off + Attr(d, "type"), FALSE)

\* The size of the first parameter's type, through typedefs and qualifiers: the
\* previous size if the chain ends without one.
ChainSize(d) ==
  LET dies == {NoDie} \cup {ReadDie(cu, o) : o \in cu.off+1..cu.next-1}
      size[n \in 0..Size] ==
        [t \in dies |-> IF HasAttr(t, "byte_size") THEN Attr(t, "byte_size")
                        ELSE IF HasAttr(t, "type") /\ n > 0 THEN size[n - 1][TypeOf(t)]
                        ELSE ret_val]
  IN IF HasAttr(d, "type") THEN size[Size][TypeOf(d)] ELSE ret_val

\* Seeded fault: the type of a later parameter is not looked at.
DirectSizeStale(d) == ret_val

\* The size of a later parameter's type; not through a typedef.
DirectSize(d) ==
  IF HasAttr(d, "type") /\ HasAttr(TypeOf(d), "byte_size")
  THEN Attr(TypeOf(d), "byte_size")
  ELSE ret_val

\* A parameter is counted and its sibling looked at; here an error ends the list.
NextArg ==
  /\ at = "arg"
  /\ ret_val' = IF found.sizes = << >> THEN ChainSize(arg) ELSE DirectSize(arg)
  /\ found' = [found EXCEPT !.sizes = Append(@, ret_val')]
  /\ \E d \in {SiblingOf(cu, arg)} :
       IF d.tag = "formal_parameter" /\ ~d.err
       THEN arg' = d /\ Goto("arg")
       ELSE Goto("found") /\ UNCHANGED arg
  /\ UNCHANGED <<curr_off, cu, cudie, die>>

DieNext == NextCu \/ NextCuBeyond \/ NoMoreCus \/ CuDie \/ ListFunc \/ NextSibling \/ NextArg
-----------------------------------------------------------------------------
(***************************************************************************)
(* The tree, read off the section without a walk: the depth of a DIE is    *)
(* the number of lists of children open before it.                         *)
(***************************************************************************)
Headers == {o \in 0..Size-1 : info[o + 1].ab = -1}
CuAt(h) ==
  [off |-> h, next |-> h + 1 + info[h + 1].vals[1], abbrev |-> info[h + 1].vals[3]]
CuOf(o) == CuAt(Max({h \in Headers : h < o}))

DieAt(o) == ReadDie(CuOf(o), o)

Depth(o) ==
  LET c == CuOf(o)
      before == c.off+1..o-1
  IN Cardinality({x \in before : info[x + 1].ab > 0 /\ DieAt(x).kids})
     - Cardinality({x \in before : info[x + 1].ab = 0})

Dies == {o \in 0..Size-1 : info[o + 1].ab > 0}

\* The functions around an address at the top of a CU.
Around(a) == {o \in Dies : ContainsAddr(DieAt(o), a) /\ Depth(o) = 1}

FunctionAt(a) == IF Around(a) = {} THEN -1 ELSE Min(Around(a))

Readable == \A o \in Dies : ~DieAt(o).err

\* The parameters that lead a function's list of children, none of which has
\* children, up to one that cannot be read.
LeadingArgs(f) ==
  {o \in f+1..Size-1 :
     DieAt(f).kids /\ \A x \in f+1..o : /\ x \in Dies /\ ~DieAt(x).err
                                       /\ DieAt(x).tag = "formal_parameter"}

(***************************************************************************)
(* The section is one as a compiler writes it.  The CUs follow each other, *)
(* each with a version that is known and one DIE at its top, whose list    *)
(* of children, if it says that it has one, has a first.  Each DIE has its *)
(* abbreviation in its CU's table; its sibling, if it names it, is the     *)
(* next one at its depth, and its type is in its CU; a parameter has no    *)
(* children, and the first DIE of a list can be read.                      *)
(***************************************************************************)
CuCompiled(c) ==
  /\ Len(info[c.off + 1].vals) = 3
  /\ c.next \in (Headers \cup {Size}) /\ c.off + 1 < c.next
  /\ info[c.off + 1].vals[2] \in 2..4
  /\ \A o \in c.off+1..c.next-1 : o \notin Headers
  /\ c.off + 1 \in Dies /\ ~DieAt(c.off + 1).err
  /\ DieAt(c.off + 1).kids => c.off + 2 \in Dies
  /\ \A o \in c.off+2..c.next-1 : Depth(o) >= 1
  /\ Depth(c.next) = 0

DieCompiled(o) ==
  LET c == CuOf(o)
      d == DieAt(o)
      sib == SiblingFrom(c, d)
  IN /\ \E k \in c.abbrev+1..Len(Abbrevs) :
          /\ Abbrevs[k].entry = info[o + 1].ab
          /\ Len(Abbrevs[k].attrs) <= Len(info[o + 1].vals)
          /\ \A j \in c.abbrev+1..k-1 : Abbrevs[j].entry \notin {0, info[o + 1].ab}
     /\ d.kids /\ HasAttr(d, "sibling") =>
          /\ sib \in o+1..c.next-1 /\ Depth(sib) = Depth(o)
          /\ \A x \in o+1..sib-1 : Depth(x) > Depth(o)
     /\ HasAttr(d, "type") => c.off + Attr(d, "type") \in c.off+1..c.next-1
     /\ d.tag = "formal_parameter" => ~d.kids
     /\ d.kids /\ o + 1 \in Dies => ~DieAt(o + 1).err

Compiled ==
  /\ 0 \in Headers
  /\ \A h \in Headers : CuCompiled(CuAt(h))
  /\ \A o \in Dies : DieCompiled(o)
=============================================================================
