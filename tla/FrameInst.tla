----------------------------- MODULE FrameInst -----------------------------
(***************************************************************************)
(* The call frame interpreter of kern/libdwarf_frame.c: a query            *)
(* (dwarf_get_fde_info_for_all_regs) runs the instructions of a CIE and    *)
(* then those of an FDE over the rule table, up to the requested pc, and   *)
(* copies the row out.                                                     *)
(*                                                                         *)
(* An instruction is a record of an opcode, a register number and a value. *)
(* The short forms of an opcode (in the high two bits of the byte), the    *)
(* _extended and the _sf ones differ in how the operands are encoded and   *)
(* share an op here; val is signed.  A location expression is its length.  *)
(* The table, its copy and the debugging interface are static: they        *)
(* outlive a query.                                                        *)
(***************************************************************************)
EXTENDS Integers, Sequences, FiniteSetsExt

CONSTANTS NumRegs,      \* rt3_reg_table_size, and DW_REG_TABLE_SIZE: both are 66
          CfaColumn     \* dbg_frame_cfa_value: 1436, or what the caller gave to
                        \* dwarf_set_frame_cfa_value

ASSUME FrameAssumption == NumRegs \in Nat /\ CfaColumn \in Nat

UNDEFINED_VAL == 1034
SAME_VAL == 1035

Regs == 0..NumRegs-1

VARIABLES stage,        \* "idle", "cie", "fde", "done", "error" or "panic"
          query,        \* the instructions of the CIE and of the FDE, their
                        \* alignment factors, where the FDE starts, and the pc
          rt,           \* the rule table: the rule of the CFA, and those of the registers
          shadow,       \* global_rt_table_shadow
          saved,        \* saved_rt # NULL
          ip, pc, row,  \* p, pc and *row_pc
          reg_table     \* the caller's table

frameVars == <<stage, query, rt, shadow, saved, ip, pc, row, reg_table>>

NoQuery == [initinst |-> << >>, inst |-> << >>, caf |-> 0, daf |-> 0, initloc |-> 0, pc |-> 0]

Rule(relevant, type, regnum, off) ==
  [relevant |-> relevant, type |-> type, regnum |-> regnum, off |-> off]

\* Zeroed memory, as memset leaves it; type 0 is DW_EXPR_OFFSET.
ZeroRule == Rule(FALSE, "offset", 0, 0)

\* What the caller gets of a rule: an entry of a Dwarf_Regtable has no type.
HandedOut(rule) == [relevant |-> rule.relevant, regnum |-> rule.regnum, off |-> rule.off]

\* _dwarf_frame_get_internal_table clears the table.
ClearedTable ==
  [cfa |-> ZeroRule,
   rules |-> [r \in Regs |-> [ZeroRule EXCEPT !.regnum = SAME_VAL]]]

FrameInit ==
  /\ stage = "idle" /\ query = NoQuery
  /\ rt = [cfa |-> ZeroRule, rules |-> [r \in Regs |-> ZeroRule]]
  /\ shadow = rt /\ saved = FALSE
  /\ ip = 1 /\ pc = 0 /\ row = 0
  /\ reg_table = [r \in Regs |-> HandedOut(ZeroRule)]
-----------------------------------------------------------------------------
\* The start of _dwarf_frame_run_inst: the table is copied "as initial state",
\* into the one table that _dwarf_frame_regtable_copy has to give.
StartRun(name, table, at) ==
  /\ stage' = name
  /\ shadow' = table /\ saved' = FALSE
  /\ ip' = 1 /\ pc' = at /\ row' = at

\* The call returns, with the row or an error: its arguments and locals are
\* gone, the static tables stay as they are.
QueryReturn ==
  /\ stage \in {"done", "error"}
  /\ stage' = "idle" /\ query' = NoQuery
  /\ saved' = FALSE /\ ip' = 1 /\ pc' = 0 /\ row' = 0
  /\ UNCHANGED <<rt, shadow, reg_table>>

\* A query for a pc in the range of the FDE (for another one the code writes
\* to address 0 on purpose).
Query(q, adrange) ==
  /\ stage = "idle"
  /\ q.initloc <= q.pc /\ q.pc < q.initloc + adrange
  /\ query' = q
  /\ rt' = ClearedTable
  /\ StartRun("cie", ClearedTable, 0)
  /\ UNCHANGED reg_table

Running == stage \in {"cie", "fde"}
Program == IF stage = "cie" THEN query.initinst ELSE query.inst
Limited == stage = "fde"        \* pc_req is ~0 in the CIE

\* The row is copied out; the CFA has a column of its own when it is in range.
CopyOut ==
  [r \in Regs |-> HandedOut(IF r = CfaColumn THEN rt.cfa ELSE rt.rules[r])]

\* program_done: after the CIE come the FDE's instructions, after these the
\* result.
ProgramDone ==
  \/ /\ stage = "cie"
     /\ StartRun("fde", rt, query.initloc)
     /\ UNCHANGED <<rt, reg_table, query>>
  \/ /\ stage = "fde"
     /\ stage' = "done"
     /\ reg_table' = CopyOut
     /\ UNCHANGED <<rt, shadow, saved, ip, pc, row, query>>

EndOfProgram ==
  /\ Running /\ ip > Len(Program)
  /\ ProgramDone

Inst == Program[ip]
Executes(ops) == Running /\ ip <= Len(Program) /\ Inst.op \in ops

RegOps == {"offset", "restore", "undefined", "same_value", "register",
           "expression", "val_offset", "val_expression"}
InTable == Inst.reg < NumRegs

\* The program stops with an error, and the query with it.  (On an error
\* dwarf_get_fde_info_for_all_regs first stores 0 at address 0, memory that
\* no variable models.)
Fail(how) ==
  /\ stage' = how
  /\ UNCHANGED <<rt, shadow, saved, ip, pc, row, reg_table, query>>

CHECK_TABLE_SIZE == Executes(RegOps) /\ ~InTable /\ Fail("error")

BadOpcode == Executes({"bad"}) /\ Fail("error")

Continue == ip' = ip + 1 /\ UNCHANGED <<stage, reg_table, query>>

\* DW_CFA_nop
Nop == Executes({"nop"}) /\ Continue /\ UNCHANGED <<rt, shadow, saved, pc, row>>

\* Seeded fault: the row at the requested pc itself is left out.
AdvanceLocEarly ==
  /\ Executes({"advance_loc"})
  /\ LET to == pc + Inst.val * query.caf
     IN IF Limited /\ query.pc <= to
        THEN ProgramDone
        ELSE Continue /\ pc' = to /\ UNCHANGED <<rt, shadow, saved, row>>

\* DW_CFA_advance_loc, _loc1, _loc2 and _loc4.
AdvanceLoc ==
  /\ Executes({"advance_loc"})
  /\ LET to == pc + Inst.val * query.caf
     IN IF Limited /\ query.pc < to
        THEN ProgramDone
        ELSE Continue /\ pc' = to /\ UNCHANGED <<rt, shadow, saved, row>>

\* DW_CFA_set_loc: the braces of the `if` are missing, so that the program is
\* done whatever the location.
SetLoc == Executes({"set_loc"}) /\ ProgramDone

\* The rule of a register is changed, which starts a row at pc.
SetRule(rule) ==
  /\ rt' = [rt EXCEPT !.rules[Inst.reg] = rule]
  /\ row' = pc
  /\ Continue /\ UNCHANGED <<shadow, saved, pc>>

Old == rt.rules[Inst.reg]

Offset ==
  /\ Executes({"offset"}) /\ InTable
  /\ SetRule(Rule(TRUE, "offset", CfaColumn, Inst.val * query.daf))

ValOffset ==
  /\ Executes({"val_offset"}) /\ InTable
  /\ SetRule(Rule(TRUE, "val_offset", CfaColumn, Inst.val * query.daf))

Restore ==
  /\ Executes({"restore"}) /\ InTable
  /\ SetRule(shadow.rules[Inst.reg])

Undefined ==
  /\ Executes({"undefined"}) /\ InTable
  /\ SetRule([Old EXCEPT !.relevant = FALSE, !.regnum = UNDEFINED_VAL])

Register ==
  /\ Executes({"register"}) /\ InTable
  /\ SetRule([Old EXCEPT !.relevant = FALSE, !.regnum = Inst.val])

\* DW_CFA_same_value changes the table and not *row_pc.
SameValue ==
  /\ Executes({"same_value"}) /\ InTable
  /\ rt' = [rt EXCEPT !.rules[Inst.reg] =
              [Old EXCEPT !.relevant = FALSE, !.regnum = SAME_VAL]]
  /\ Continue /\ UNCHANGED <<shadow, saved, pc, row>>

Expression ==
  /\ Executes({"expression", "val_expression"}) /\ InTable
  /\ SetRule([Old EXCEPT !.relevant = FALSE, !.type = Inst.op, !.off = Inst.val])

\* DW_CFA_remember_state: saved_rt is given the same static table as init_rt.
RememberState ==
  /\ Executes({"remember_state"})
  /\ shadow' = rt /\ saved' = TRUE
  /\ Continue /\ UNCHANGED <<rt, pc, row>>

\* DW_CFA_restore_state; with nothing remembered, assert(src != NULL) panics.
RestoreState ==
  /\ Executes({"restore_state"})
  /\ \/ saved /\ rt' = shadow /\ row' = pc /\ Continue /\ UNCHANGED <<shadow, saved, pc>>
     \/ ~saved /\ Fail("panic")

SetCfa(rule) ==
  /\ rt' = [rt EXCEPT !.cfa = rule]
  /\ row' = pc
  /\ Continue /\ UNCHANGED <<shadow, saved, pc>>

\* def_cfa; the _sf form has val multiplied by Daf already.
DefCfa ==
  /\ Executes({"def_cfa"})
  /\ SetCfa(Rule(TRUE, "offset", Inst.reg, Inst.val))

\* "change the CFA rule register while keep the old offset"
DefCfaRegister ==
  /\ Executes({"def_cfa_register"})
  /\ SetCfa([rt.cfa EXCEPT !.regnum = Inst.reg])

DefCfaOffset ==
  /\ Executes({"def_cfa_offset"})
  /\ SetCfa(Rule(TRUE, "offset", rt.cfa.regnum, Inst.val))

DefCfaExpression ==
  /\ Executes({"def_cfa_expression"})
  /\ SetCfa(Rule(FALSE, "expression", rt.cfa.regnum, Inst.val))

\* One step of a query that is under way.
FrameStep ==
  \/ EndOfProgram \/ QueryReturn
  \/ CHECK_TABLE_SIZE \/ BadOpcode \/ Nop \/ AdvanceLoc \/ SetLoc
  \/ Offset \/ ValOffset \/ Restore \/ Undefined \/ Register \/ SameValue \/ Expression
  \/ RememberState \/ RestoreState
  \/ DefCfa \/ DefCfaRegister \/ DefCfaOffset \/ DefCfaExpression
-----------------------------------------------------------------------------
(***************************************************************************)
(* What the instructions of a query mean, without a table: the rule of a   *)
(* register is the one that the last instruction on it gives, as far as    *)
(* the program is in force at the pc.                                      *)
(***************************************************************************)

\* The location at which the k-th of the FDE's instructions acts.
Location(q, k) ==
  LET loc[j \in 0..Len(q.inst)] ==
        IF j = 0 THEN q.initloc
        ELSE loc[j - 1] + (IF q.inst[j].op = "advance_loc" THEN q.inst[j].val * q.caf ELSE 0)
  IN loc[k - 1]

\* The CIE's instructions that are run, and the FDE's.
InitInForce(q) == {k \in 1..Len(q.initinst) : \A j \in 1..k : q.initinst[j].op # "set_loc"}

Ends(q, k) ==
  q.inst[k].op = "set_loc" \/ (q.inst[k].op = "advance_loc" /\ Location(q, k + 1) > q.pc)
InForce(q) == {k \in 1..Len(q.inst) : \A j \in 1..k : ~Ends(q, j)}

LastIn(ks) == IF ks = {} THEN 0 ELSE Max(ks)

Meaning(rule) ==
  IF rule.relevant THEN <<rule.type, rule.off>> ELSE <<"register", rule.regnum>>

\* An entry of the caller's table; that an offset is the register's value and not
\* the address of it, which is the rule's type, it does not say.
Told(entry) ==
  IF entry.relevant THEN <<"offset", entry.off>> ELSE <<"register", entry.regnum>>
Sayable(m) == IF m[1] = "register" THEN m ELSE <<"offset", m[2]>>

Given(i, daf) ==
  CASE i.op \in {"offset", "val_offset"} -> <<i.op, i.val * daf>>
    [] i.op = "undefined" -> <<"register", UNDEFINED_VAL>>
    [] i.op = "same_value" -> <<"register", SAME_VAL>>
    [] i.op = "register" -> <<"register", i.val>>
    [] OTHER -> <<"expression", 0>>     \* which the caller's table cannot say

\* What the first n instructions of f make of a register that means base.
After(f, n, daf, r, base) ==
  LET remembered(k) == LastIn({j \in 1..k-1 : f[j].op = "remember_state"})
      after[k \in 0..Len(f)] ==
        IF k = 0 THEN base
        ELSE CASE f[k].op = "restore_state" /\ remembered(k) > 0 -> after[remembered(k) - 1]
               [] f[k].op = "restore" /\ f[k].reg = r -> base
               [] f[k].op \in RegOps \ {"restore"} /\ f[k].reg = r -> Given(f[k], daf)
               [] OTHER -> after[k - 1]
  IN after[n]

Initial(q, r) ==
  After(q.initinst, Cardinality(InitInForce(q)), q.daf, r, <<"register", SAME_VAL>>)

RowMeaning(q, r) ==
  After(q.inst, Cardinality(InForce(q)), q.daf, r, Initial(q, r))

\* The case in which the one shadow table is wanted twice.
RestoresAfterRemember(q) ==
  \E f \in {q.initinst, q.inst} : \E j \in 1..Len(f) : \E k \in j+1..Len(f) :
    f[j].op = "remember_state" /\ f[k].op = "restore"

LastOf(q, ops) == LastIn({k \in InForce(q) : q.inst[k].op \in ops})

\* The CFA's register and offset are set independently: each is that of the
\* last instruction in force that sets it.
CfaComposed(q, rule) ==
  LET reg == LastOf(q, {"def_cfa", "def_cfa_register"})
      off == LastOf(q, {"def_cfa", "def_cfa_offset"})
      expr == LastOf(q, {"def_cfa_expression"})
  IN LastOf(q, {"restore_state"}) = 0 =>
       /\ reg > 0 => rule.regnum = q.inst[reg].reg
       /\ off > expr => rule.relevant /\ rule.off = q.inst[off].val

\* *row_pc is the location of the last change in force, so that the row holds
\* from there to the requested pc; a same_value is not counted as a change.
RowCoversPc ==
  LET changes == (RegOps \ {"same_value"}) \cup
                 {"restore_state", "def_cfa", "def_cfa_register", "def_cfa_offset",
                  "def_cfa_expression"}
      last == LastOf(query, changes)
  IN stage = "done" =>
       /\ row = IF last = 0 THEN query.initloc ELSE Location(query, last)
       /\ query.initloc <= row /\ row <= query.pc

\* libdwarf_frame.c:168, "Save a copy of the table as initial state.": the
\* initial rules, to which DW_CFA_restore goes back, are there while the FDE
\* runs.
InitialStateSaved ==
  stage = "fde" =>
    \A r \in Regs : Initial(query, r)
                      \in {Meaning(shadow.rules[r]), <<"expression", 0>>}
=============================================================================
