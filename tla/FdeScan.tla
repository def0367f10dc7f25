------------------------------ MODULE FdeScan ------------------------------
(***************************************************************************)
(* Looking up the FDE of a pc in kern/libdwarf_frame.c:                    *)
(* dwarf_get_fde_at_pc reads the entries of .eh_frame from where the       *)
(* previous call stopped (dbg_eh_offset), filling in the caller's FDE and  *)
(* CIE buffers, until an FDE covers the pc.  dwarf_init_eh_section starts  *)
(* it over; debuginfo_rip, which clears the shared dbg (_dwarf_init),      *)
(* unloads the section.                                                    *)
(*                                                                         *)
(* The section is a sequence of entries and an offset is an index.  Kinds: *)
(* "cie", "fde"; "terminator", an entry of length 0; "long", an entry that *)
(* is longer than the rest of the section; "unreadable", an entry that     *)
(* _dwarf_frame_set_cie or _set_fde gives up on (an unknown version, an    *)
(* unknown augmentation letter, an FDE that is its own CIE); it is a CIE   *)
(* with such a letter if its aug is "z", and its enc is then the encoding  *)
(* that stands before the letter, "absptr" if none does.  A CIE's aug is   *)
(* "none", "z" or "other"; its enc is the encoding of the pcs in its FDEs, *)
(* which may be unknown.  An FDE has the index of its CIE and the pcs it   *)
(* covers.                                                                 *)
(* Both have instructions, prog, which FrameInst runs.                     *)
(***************************************************************************)
EXTENDS Integers, Sequences

CONSTANTS Sections,     \* the sections
          EhFrame,      \* is_eh_frame
          Encodings,    \* encodings of a pc; "absptr" is the one of value 0,
                        \* "unknown" one that _dwarf_frame_read_lsb_encoded cannot read
          Addrs,        \* the pcs looked up
          MaxCalls      \* bound on the lookups

ASSUME ScanAssumption ==
  /\ EhFrame \in BOOLEAN /\ "absptr" \in Encodings /\ Addrs \subseteq Nat
  /\ MaxCalls \in Nat

\* DW_CFA_*; "bad" is every other byte.
Opcodes ==
  {"nop", "bad", "advance_loc", "set_loc", "offset", "val_offset", "restore", "undefined",
   "same_value", "register", "expression", "val_expression", "remember_state",
   "restore_state", "def_cfa", "def_cfa_register", "def_cfa_offset", "def_cfa_expression"}

\* A delta of the location is unsigned.
Instructions ==
  {i \in [op : Opcodes, reg : Nat, val : Int] : i.op = "advance_loc" => i.val \in Nat}

Entries ==
  [kind : {"cie", "fde", "terminator", "long", "unreadable"}, aug : {"none", "z", "other"},
   enc : Encodings, own : Nat, lo : Nat, len : Nat, caf : Nat, daf : Int,
   prog : Seq(Instructions)]

ASSUME SectionsAssumption == Sections \subseteq Seq(Entries)

VARIABLES section, eh_offset,
          loaded,       \* dbg_eh_size is the section's, not 0
          cie,          \* the caller's CIE: which entries its augmentation, its alignment
                        \* factors and its instructions are of, and its encoding
          fde,          \* the caller's FDE: entry, initloc, adrange and instructions
          addr,         \* the pc looked up
          start,        \* history: eh_offset at the call
          ret,          \* "calling", "OK" or "NO_ENTRY"
          calls

scanVars == <<section, eh_offset, loaded, cie, fde, addr, start, ret, calls>>

NoFde == [at |-> 0, initloc |-> 0, adrange |-> 0, inst |-> << >>]

ScanInit ==
  /\ section \in Sections
  /\ eh_offset = 1 /\ loaded = FALSE
  /\ cie = [aug |-> 0, factors |-> 0, insts |-> 0, encode |-> "absptr"]
  /\ fde = NoFde
  /\ addr = 0 /\ start = 1 /\ ret = "OK" /\ calls = 0

\* dwarf_init_eh_section
InitEh ==
  /\ ret # "calling" /\ calls < MaxCalls
  /\ loaded' = TRUE /\ eh_offset' = 1
  /\ UNCHANGED <<section, cie, fde, addr, start, ret, calls>>

\* A debuginfo_rip: memset(dbg, 0, ...) in _dwarf_init.
DwarfInit ==
  /\ ret # "calling" /\ calls < MaxCalls
  /\ loaded' = FALSE /\ eh_offset' = 1
  /\ UNCHANGED <<section, cie, fde, addr, start, ret, calls>>

\* A call; the FDE is cleared, the CIE and the offset stay.
Call(p) ==
  /\ ret # "calling" /\ calls < MaxCalls
  /\ addr' = p /\ start' = eh_offset
  /\ fde' = NoFde
  /\ ret' = "calling" /\ calls' = calls + 1
  /\ UNCHANGED <<section, eh_offset, loaded, cie>>

Entry == section[eh_offset]

\* A CIE as far as an unknown letter of its augmentation: `z' has set the
\* encoding to absptr, and an `R' before the letter to the CIE's.
set_cie_header(e) ==
  [cie EXCEPT !.aug = eh_offset, !.factors = eh_offset,
              !.encode = IF e.aug = "z" THEN e.enc ELSE cie.encode]

\* Seeded fault: the instructions of a CIE are not taken over.
set_cie_no_insts(e) ==
  IF e.aug = "other" THEN [cie EXCEPT !.aug = eh_offset] ELSE set_cie_header(e)

\* _dwarf_frame_set_cie.  With an augmentation it does not know it skips the
\* rest, leaving in the buffer what an earlier CIE had; only one with a `z'
\* sets the encoding.
set_cie(e) ==
  IF e.aug = "other" THEN [cie EXCEPT !.aug = eh_offset]
  ELSE [set_cie_header(e) EXCEPT !.insts = eh_offset]

\* The encoding in which the compiler wrote an FDE: that of its own CIE.
Written(e) ==
  LET own == section[e.own] IN IF own.aug = "z" THEN own.enc ELSE "absptr"

\* The instructions found when they are looked for at the wrong place.
Misplaced == {<< >>, <<[op |-> "bad", reg |-> 0, val |-> 0]>>}

\* An FDE has augmentation data before its instructions, for its own CIE and for
\* the CIE read last.
HasAugData(k) == section[k].aug = "z"

\* What _dwarf_frame_set_fde can read: the FDE's pcs, if it was written in the
\* encoding that the CIE buffer has now, and then its instructions, if it is
\* as long as the CIE buffer's augmentation tells.  In .debug_frame (EhFrame
\* FALSE) the pcs are plain pointers and there is no such data.
set_fde(e) ==
  LET Fde(lo, n, i) == [at |-> eh_offset, initloc |-> lo, adrange |-> n, inst |-> i]
  IN IF EhFrame /\ Written(e) # cie.encode
     THEN {Fde(lo, n, i) : lo \in Addrs, n \in 0..1, i \in Misplaced}
     ELSE IF EhFrame /\ HasAugData(e.own) # HasAugData(cie.aug)
     THEN {Fde(e.lo, e.len, i) : i \in Misplaced}
     ELSE {Fde(e.lo, e.len, e.prog)}

Return(r) == ret' = r /\ UNCHANGED <<section, loaded, addr, start, calls>>
More == UNCHANGED <<section, loaded, addr, start, calls, ret>>

\* Seeded fault: the pc after the last one is taken to be covered.
CoversOneMore(f) == f.initloc <= addr /\ addr <= f.initloc + f.adrange

Covers(f) == f.initloc <= addr /\ addr < f.initloc + f.adrange

\* After _dwarf_get_next_fde: the FDE buffer, new or not, is compared with the pc.
Compare(f) == IF Covers(f) THEN Return("OK") ELSE More

Calling == ret = "calling" /\ loaded /\ eh_offset <= Len(section)

\* The loop ends at the end of the section, or, when none is loaded, at once.
ScanEnd ==
  /\ ret = "calling" /\ (~loaded \/ eh_offset > Len(section))
  /\ Return("NO_ENTRY")
  /\ UNCHANGED <<eh_offset, cie, fde>>

BadLength(k) == section[k].kind = "long" \/ (section[k].kind = "terminator" /\ ~EhFrame)

\* A length that cannot be: DW_DLE_DEBUG_FRAME_LENGTH_BAD is returned, which is
\* not negative, and the offset stays.
LengthBad ==
  /\ Calling /\ BadLength(eh_offset)
  /\ Compare(fde)
  /\ UNCHANGED <<eh_offset, cie, fde>>

\* The end of .eh_frame: -1.
Terminator ==
  /\ Calling /\ Entry.kind = "terminator" /\ ~BadLength(eh_offset)
  /\ Return("NO_ENTRY")
  /\ UNCHANGED <<eh_offset, cie, fde>>

\* An FDE whose pcs are, by the CIE buffer, in an encoding that cannot be read.
NoEncoding == Entry.kind = "fde" /\ EhFrame /\ cie.encode = "unknown"

\* An entry that is given up on, with one of the buffers partly filled in: -1.
\* Of a CIE of a wrong version, nothing is taken over that anything reads.
GiveUp ==
  /\ Calling
  /\ \/ Entry.kind = "unreadable" /\ Entry.aug = "z" /\ cie' = set_cie_header(Entry) /\ UNCHANGED fde
     \/ Entry.kind = "unreadable" /\ Entry.aug # "z" /\ UNCHANGED <<cie, fde>>
     \/ /\ NoEncoding \/ (Entry.kind = "unreadable" /\ Entry.aug # "z")
        /\ fde' = [fde EXCEPT !.at = eh_offset] /\ UNCHANGED cie
  /\ Return("NO_ENTRY")
  /\ UNCHANGED eh_offset

NextCie ==
  /\ Calling /\ Entry.kind = "cie"
  /\ cie' = set_cie(Entry)
  /\ eh_offset' = eh_offset + 1
  /\ Compare(fde)
  /\ UNCHANGED fde

\* Seeded fault: an FDE that does not cover the pc is not passed.
NextFdeStays ==
  /\ Calling /\ Entry.kind = "fde" /\ ~NoEncoding
  /\ \E f \in set_fde(Entry) :
       /\ fde' = f /\ Compare(f)
       /\ eh_offset' = IF Covers(f) THEN eh_offset + 1 ELSE eh_offset
  /\ UNCHANGED cie

NextFde ==
  /\ Calling /\ Entry.kind = "fde" /\ ~NoEncoding
  /\ \E f \in set_fde(Entry) : fde' = f /\ Compare(f)
  /\ eh_offset' = eh_offset + 1
  /\ UNCHANGED cie

Step == ScanEnd \/ LengthBad \/ Terminator \/ GiveUp \/ NextCie \/ NextFde
-----------------------------------------------------------------------------
Cies == {k \in 1..Len(section) : section[k].kind = "cie"}

LastCie(j, k) == j \in Cies /\ j < k /\ \A i \in Cies : i < k => i <= j

\* No CIE, read in part or whole, sets the encoding.
NoneEncodes ==
  \A j \in 1..Len(section) : section[j].kind \in {"cie", "unreadable"} => section[j].aug # "z"

\* Sections whose FDEs can be read: each follows its own CIE with no other one
\* between, and none follows a CIE that is skipped, or that has no encoding and
\* takes that of another, read in part or whole and perhaps by an earlier
\* lookup.  One compilation unit's entries are so; a linker that merges equal
\* CIEs can break it.
Orderly ==
  \A k \in 1..Len(section) : section[k].kind = "fde" =>
    /\ LastCie(section[k].own, k)
    /\ section[section[k].own].aug # "other"
    /\ section[section[k].own].aug = "none" => NoneEncodes

TrulyCovers(k) ==
  section[k].kind = "fde" /\ section[k].lo <= addr /\ addr < section[k].lo + section[k].len

\* dwarf_get_fde_at_pc returns the first FDE after the previous call's, or after
\* dwarf_init_eh_section, that covers the pc, and none only if none does as far
\* as the section can be read.
FindsFirst ==
  Orderly /\ calls > 0 =>
    /\ ret = "OK" => /\ TrulyCovers(fde.at)
                     /\ \A k \in start..fde.at-1 : ~TrulyCovers(k)
    /\ ret = "NO_ENTRY" => \A k \in start..eh_offset-1 : ~TrulyCovers(k)
=============================================================================
