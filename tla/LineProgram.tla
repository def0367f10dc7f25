---------------------------- MODULE LineProgram ----------------------------
(***************************************************************************)
(* dwarf_srclines of kern/libdwarf_lineno.c: the line number program of a  *)
(* compilation unit is run until a row lies beyond the pc; the row kept is *)
(* the last one appended.                                                  *)
(*                                                                         *)
(* The program is a sequence of records of an opcode and a value; for a    *)
(* special opcode the value is the opcode byte.  What the sanity checks of *)
(* the header compare is the word "header" of the table: "good", "short"   *)
(* (a length that does not fit) or "missing" (no DW_AT_stmt_list).         *)
(***************************************************************************)
EXTENDS Integers, Sequences, FiniteSetsExt

CONSTANTS MinLen, LBase, LRange, OpBase, DefStmt        \* fields of the header

ASSUME LineAssumption ==
  /\ MinLen \in Nat /\ LBase \in Int /\ LRange \in Nat \ {0} /\ OpBase \in 1..255
  /\ DefStmt \in BOOLEAN

Opcodes ==
  {"end_sequence", "set_address", "define_file", "copy", "advance_pc", "advance_line",
   "set_file", "set_column", "negate_stmt", "basic_block", "const_add_pc",
   "fixed_advance_pc", "set_ignored", "special"}

Instructions == [op : Opcodes, val : Int]

VARIABLES prog, header, pc,
          ln_at,        \* "call", "run", "OK", "ERROR" or "NO_ENTRY"
          ip, regs,     \* the registers of the line machine
          row,          \* li_line, the row appended last
          linebuf       \* the caller's row

lineVars == <<prog, header, pc, ln_at, ip, regs, row, linebuf>>

\* RESET_REGISTERS
ResetRegisters ==
  [address |-> 0, file |-> 1, line |-> 1, column |-> 0, is_stmt |-> DefStmt,
   basic_block |-> FALSE]

NoRow == [address |-> 0, file |-> 0, line |-> 0, column |-> 0, is_stmt |-> FALSE,
          basic_block |-> FALSE]

\* Before the first call, with program p and header h.
LineInit(p, h) ==
  /\ prog = p /\ header = h /\ pc = 0
  /\ ln_at = "call" /\ ip = 1
  /\ regs = ResetRegisters
  /\ row = NoRow /\ linebuf = NoRow

\* The state that a call for pc x finds; the caller's row is zeroed.
LineCall(x) ==
  /\ pc' = x
  /\ ln_at' = "call" /\ ip' = 1
  /\ regs' = ResetRegisters
  /\ row' = NoRow /\ linebuf' = NoRow
  /\ UNCHANGED <<prog, header>>

Return(r) ==
  /\ ln_at' = r
  /\ linebuf' = IF r = "OK" THEN row ELSE linebuf
  /\ UNCHANGED <<prog, header, pc, ip, regs, row>>

\* dwarf_srclines and _dwarf_lineno_init, up to the program.
ReadHeader ==
  /\ ln_at = "call"
  /\ \/ header = "missing" /\ Return("NO_ENTRY")
     \/ header = "short" /\ Return("ERROR")
     \/ /\ header = "good" /\ ln_at' = "run"
        /\ UNCHANGED <<prog, header, pc, ip, regs, row, linebuf>>

Op == prog[ip].op
Val == prog[ip].val
Executes(ops) == ln_at = "run" /\ ip <= Len(prog) /\ Op \in ops

LINE(x) == LBase + ((x - OpBase) % LRange)
ADDRESS(x) == ((x - OpBase) \div LRange) * MinLen

\* The registers change and nothing else.
Set(r) ==
  /\ regs' = r /\ ip' = ip + 1
  /\ UNCHANGED <<prog, header, pc, ln_at, row, linebuf>>

\* APPEND_ROW, with what follows it: the program ends at a row beyond the pc.
AppendRow(r) ==
  IF pc < r.address
  THEN Return("OK")
  ELSE /\ row' = r /\ ip' = ip + 1
       /\ regs' = [r EXCEPT !.basic_block = FALSE]
       /\ UNCHANGED <<prog, header, pc, ln_at, linebuf>>

\* The extended opcodes; at end_sequence no row is appended.
EndSequence == Executes({"end_sequence"}) /\ Set(ResetRegisters)
SetAddress == Executes({"set_address"}) /\ Set([regs EXCEPT !.address = Val])
DefineFile == Executes({"define_file"}) /\ Set(regs)

\* The standard opcodes; those that set prologue_end, epilogue_begin or isa, which
\* no row has, do nothing.
Copy == Executes({"copy"}) /\ AppendRow(regs)
AdvancePc == Executes({"advance_pc"}) /\ Set([regs EXCEPT !.address = @ + Val * MinLen])
AdvanceLine == Executes({"advance_line"}) /\ Set([regs EXCEPT !.line = @ + Val])
ConstAddPc == Executes({"const_add_pc"}) /\ Set([regs EXCEPT !.address = @ + ADDRESS(255)])
FixedAdvancePc == Executes({"fixed_advance_pc"}) /\ Set([regs EXCEPT !.address = @ + Val])
SetFile == Executes({"set_file"}) /\ Set([regs EXCEPT !.file = Val])
SetColumn == Executes({"set_column"}) /\ Set([regs EXCEPT !.column = Val])
NegateStmt == Executes({"negate_stmt"}) /\ Set([regs EXCEPT !.is_stmt = ~@])
SetBasicBlock == Executes({"basic_block"}) /\ Set([regs EXCEPT !.basic_block = TRUE])
SetIgnored == Executes({"set_ignored"}) /\ Set(regs)

Special ==
  /\ Executes({"special"})
  /\ AppendRow([regs EXCEPT !.line = @ + LINE(Val), !.address = @ + ADDRESS(Val)])

ProgramEnd == ln_at = "run" /\ ip > Len(prog) /\ Return("OK")

LineNext ==
  \/ ReadHeader \/ ProgramEnd
  \/ EndSequence \/ SetAddress \/ DefineFile
  \/ Copy \/ AdvancePc \/ AdvanceLine \/ ConstAddPc \/ FixedAdvancePc
  \/ SetFile \/ SetColumn \/ NegateStmt \/ SetBasicBlock \/ SetIgnored
  \/ Special
-----------------------------------------------------------------------------
(***************************************************************************)
(* The matrix of rows that a program stands for, whatever the pc: what     *)
(* the first k instructions of f add up to since the last end_sequence.    *)
(***************************************************************************)
RowOps == {"copy", "special"}

\* The last of the first k instructions with one of the opcodes, 0 if there is none.
LastWith(f, k, ops) ==
  LET ks == {j \in 1..k : f[j].op \in ops} IN IF ks = {} THEN 0 ELSE Max(ks)

\* What the instructions behind `from', up to k, add to a value.
Total(by, from, value, k) ==
  LET sum[j \in from..Len(by)] == IF j = from THEN value ELSE sum[j - 1] + by[j]
  IN sum[k]

AddressBy(i) ==
  CASE i.op = "advance_pc" -> i.val * MinLen
    [] i.op = "const_add_pc" -> ((255 - OpBase) \div LRange) * MinLen
    [] i.op = "fixed_advance_pc" -> i.val
    [] i.op = "special" -> ((i.val - OpBase) \div LRange) * MinLen
    [] OTHER -> 0

LineBy(i) ==
  CASE i.op = "advance_line" -> i.val
    [] i.op = "special" -> LBase + ((i.val - OpBase) % LRange)
    [] OTHER -> 0

AddressAt(f, k) ==
  LET from == LastWith(f, k, {"end_sequence", "set_address"})
      value == IF from > 0 /\ f[from].op = "set_address" THEN f[from].val ELSE 0
  IN Total([j \in 1..Len(f) |-> AddressBy(f[j])], from, value, k)

LineAt(f, k) ==
  Total([j \in 1..Len(f) |-> LineBy(f[j])], LastWith(f, k, {"end_sequence"}), 1, k)

Rows == {k \in 1..Len(prog) : prog[k].op \in RowOps}

\* Rows in the order of their addresses, as a compiler writes them for code in
\* one section.
Sorted == \A j, k \in Rows : j < k => AddressAt(prog, j) <= AddressAt(prog, k)

\* The line of an address: that of the last row at or before it, 0 if there is
\* none.
LineOf(x) ==
  LET upto == {k \in Rows : AddressAt(prog, k) <= x}
  IN IF upto = {} THEN 0 ELSE LineAt(prog, Max(upto))
=============================================================================
